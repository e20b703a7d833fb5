--------------------------- MODULE FrameAllocProofs ---------------------------
(***************************************************************************)
(* TLAPS proofs about FrameAlloc: from any pools that share no byte, and   *)
(* any table of reserved ranges.                                           *)
(***************************************************************************)
EXTENDS FrameAlloc, WellFoundedInduction, TLAPS

-----------------------------------------------------------------------------
(* The least and the greatest element of a set of numbers, for the scans   *)
(* of the kernel that are modelled as "the first" or "the last" of a set;  *)
(* and division with remainder, for addresses that are rounded to pages.   *)

\* A nonempty set of naturals has a least element (the first slot or frame that
\* a scan finds).
LEMMA MinIn ==
  ASSUME NEW S \in SUBSET Nat, S # {}
  PROVE  Min(S) \in S /\ \A y \in S : Min(S) <= y
<1> DEFINE R == OpToRel(<, Nat)
<1>1. IsWellFoundedOn(R, Nat)
  BY NatLessThanWellFounded, ZenonT(60)
<1>2. \E x \in S : \A y \in S : ~(<<y, x>> \in R)
  <2> HIDE DEF R
  <2> QED  BY <1>1, WFMin, ZenonT(60)
<1>3. \A x, y \in Nat : ~(<<y, x>> \in R) => x <= y
  BY DEF OpToRel
<1>4. \E x \in S : \A y \in S : x <= y
  <2> HIDE DEF R
  <2> QED  BY <1>2, <1>3, ZenonT(60)
<1> QED  BY <1>4, ZenonT(60) DEF Min

\* A nonempty set of naturals with an upper bound has a greatest element (where
\* a scan that finds nothing stops, and the range popped last).
LEMMA MaxIn ==
  ASSUME NEW n \in Nat, NEW S \in SUBSET (0 .. n), S # {}
  PROVE  Max(S) \in S /\ \A y \in S : y <= Max(S)
<1> DEFINE T == {n - x : x \in S}
<1>1. T \in SUBSET Nat /\ T # {}
  <2>1. \A x \in S : n - x \in Nat
    OBVIOUS
  <2>2. PICK x \in S : TRUE
    BY ZenonT(60)
  <2>3. n - x \in T
    OBVIOUS
  <2>4. T \subseteq Nat
    BY <2>1, ZenonT(60)
  <2> QED  BY <2>3, <2>4
<1>2. Min(T) \in T /\ \A y \in T : Min(T) <= y
  <2> HIDE DEF T
  <2> QED  BY <1>1, MinIn
<1>3. PICK x \in S : n - x = Min(T)
  BY <1>2, ZenonT(60)
<1>4. \A y \in S : n - y \in T
  OBVIOUS
<1>5. \A y \in S : y <= x
  <2> HIDE DEF T
  <2> QED  BY <1>2, <1>3, <1>4
<1> HIDE DEF T
<1>6. \E z \in S : \A y \in S : z >= y
  BY <1>5
<1> QED  BY <1>6, ZenonT(60) DEF Max

-----------------------------------------------------------------------------
(* Division with remainder *)

\* What \div and % are (a shift and a mask in the code).
LEMMA DivMod ==
  ASSUME NEW a \in Int, NEW n \in Nat \ {0}
  PROVE  a \div n \in Int /\ a % n \in 0 .. (n - 1) /\ a = n * (a \div n) + (a % n)
BY SMTT(60)

\* The address of a page: it has no remainder, and its page is that one.
LEMMA Multiple ==
  ASSUME NEW q \in Int, NEW n \in Nat \ {0}
  PROVE  (n * q) % n = 0 /\ (n * q) \div n = q
<1> DEFINE a == n * q
           d == a \div n
<1>1. a \in Int /\ a = n * q
  BY SMTT(60)
<1> HIDE DEF a
<1>2. d \in Int /\ a % n \in 0 .. (n - 1) /\ a = n * d + (a % n)
  BY <1>1, DivMod
<1> HIDE DEF d
<1>3. n * (q - d) = a % n
  BY <1>1, <1>2, SMTT(60)
<1>4. \A k \in Int : 0 <= n * k /\ n * k < n => k = 0
  BY SMTT(60)
<1>5. q - d = 0
  BY <1>2, <1>3, <1>4, SMTT(60)
<1> QED  BY <1>1, <1>2, <1>3, <1>5, SMTT(60) DEF d

\* Distances of whole pages add up to whole pages.
LEMMA ModSum ==
  ASSUME NEW a \in Int, NEW b \in Int, NEW n \in Nat \ {0}, a % n = 0, b % n = 0
  PROVE  (a + b) % n = 0
<1> DEFINE k == (a \div n) + (b \div n)
<1>1. a = n * (a \div n) /\ b = n * (b \div n) /\ a \div n \in Int /\ b \div n \in Int
  BY DivMod, SMTT(60)
<1>2. k \in Int /\ a + b = n * k
  BY <1>1, SMTT(60)
<1> HIDE DEF k
<1>3. (n * k) % n = 0
  BY <1>2, Multiple
<1> QED  BY <1>2, <1>3

-----------------------------------------------------------------------------
(* The pools *)

USE FrameConstants, SMTT(60)

Sub(p, q) == q.next <= p.next /\ p.end <= q.end
FrameRange(r) == [next |-> r, end |-> r + PAGE]

\* A part of a range that lies apart lies apart.
LEMMA SubApart ==
  ASSUME NEW p \in [next : Nat, end : Nat], NEW q \in [next : Nat, end : Nat],
         NEW r \in [next : Nat, end : Nat], NEW s \in [next : Nat, end : Nat],
         Apart(p, q), Sub(r, p), Sub(s, q)
  PROVE  Apart(r, s) /\ Apart(s, r)
BY DEF Apart, Sub

\* Rounding goes down by align_down and up by align_up.
LEMMA Aligned ==
  ASSUME NEW x \in Nat
  PROVE  align_down(x) \in Int /\ align_down(x) <= x
         /\ align_up(x) \in Int /\ x <= align_up(x)
<1>1. \A y \in Nat : y % PAGE \in 0 .. (PAGE - 1)
  OBVIOUS
<1>2. x + PAGE - 1 \in Nat
  OBVIOUS
<1> QED  BY <1>1, <1>2 DEF align_down, align_up

\* A page that is not reserved has no byte in a reserved range.
LEMMA NotReserved ==
  ASSUME RESV \in Seq(Resv), NEW r \in 0 .. TOP, ~is_reserved_page(r),
         NEW i \in DOMAIN RESV
  PROVE  r + PAGE <= RESV[i].start \/ RESV[i].end <= r
<1>1. RESV[i] \in Resv
  OBVIOUS
<1>2. RESV[i].start \in Nat /\ RESV[i].end \in Nat
  BY <1>1 DEF Resv
<1>3. ~(align_down(r) < RESV[i].end /\ align_up(r + PAGE) > RESV[i].start)
  BY DEF is_reserved_page, is_reserved_range
<1>4. r \in Nat /\ r + PAGE \in Nat
  OBVIOUS
<1>5. align_down(r) \in Int /\ align_down(r) <= r
  BY <1>4, Aligned
<1>6. align_up(r + PAGE) \in Int /\ r + PAGE <= align_up(r + PAGE)
  BY <1>4, Aligned, ZenonT(60)
<1> HIDE DEF align_down, align_up
<1> QED  BY <1>2, <1>3, <1>4, <1>5, <1>6

\* TinyBump::allocate_frame returns a frame inside the pool that is not
\* reserved, and leaves what lies behind it.
LEMMA FrameTaken ==
  ASSUME NEW pool \in Pools, Open(pool) # {}
  PROVE  LET r == allocate_frame(pool) IN
         /\ r \in 0 .. TOP /\ r # None
         /\ Sub(FrameRange(r), pool) /\ ~is_reserved_page(r)
         /\ Spent(pool) = [next |-> r + PAGE, end |-> pool.end]
         /\ Spent(pool) \in Pools /\ Sub(Spent(pool), pool)
         /\ Apart(FrameRange(r), Spent(pool))
<1> DEFINE r == Min(Open(pool))
<1>0. pool.next \in 0 .. TOP /\ pool.end \in 0 .. TOP
  BY DEF Pools
<1>1. Open(pool) \in SUBSET Nat
  BY <1>0 DEF Open, Frames
<1>2. r \in Open(pool)
  BY <1>1, MinIn
<1> HIDE DEF r
<1>3. r \in pool.next .. pool.end /\ r + PAGE <= pool.end /\ ~is_reserved_page(r)
  BY <1>2 DEF Open, Frames
<1>4. allocate_frame(pool) = r
  BY DEF allocate_frame, r
<1>5. Spent(pool) = [next |-> r + PAGE, end |-> pool.end]
  BY DEF Spent, r
<1>6. r \in 0 .. TOP /\ r + PAGE \in 0 .. TOP /\ r # None
  BY <1>0, <1>3 DEF None
<1>7. Spent(pool) \in Pools
  BY <1>0, <1>5, <1>6 DEF Pools
<1>8. Sub(FrameRange(r), pool)
  BY <1>0, <1>3 DEF Sub, FrameRange
<1>9. Sub(Spent(pool), pool)
  BY <1>0, <1>3, <1>5 DEF Sub
<1>10. Apart(FrameRange(r), Spent(pool))
  BY <1>5, <1>6 DEF Apart, FrameRange
<1> QED  BY <1>3, <1>4, <1>5, <1>6, <1>7, <1>8, <1>9, <1>10

\* Whether it finds a frame or not, a scan leaves a part of the pool.
LEMMA SpentPart ==
  ASSUME NEW pool \in Pools
  PROVE  Spent(pool) \in Pools /\ Sub(Spent(pool), pool)
<1>0. pool.next \in 0 .. TOP /\ pool.end \in 0 .. TOP
  BY DEF Pools
<1>1. CASE Open(pool) # {}
  BY <1>1, FrameTaken
<1>2. CASE Open(pool) = {} /\ Frames(pool) = {}
  <2>1. Spent(pool) = pool
    BY <1>2 DEF Spent
  <2> QED  BY <1>0, <2>1 DEF Sub
<1>3. CASE Open(pool) = {} /\ Frames(pool) # {}
  <2> DEFINE m == Max(Frames(pool))
  <2>1. Frames(pool) \in SUBSET (0 .. TOP)
    BY <1>0 DEF Frames
  <2>2. m \in Frames(pool)
    BY <1>3, <2>1, MaxIn, ZenonT(60)
  <2>3. Spent(pool) = [next |-> m + PAGE, end |-> pool.end]
    BY <1>3 DEF Spent
  <2> HIDE DEF m
  <2>4. m \in pool.next .. pool.end /\ m + PAGE <= pool.end
    BY <2>2 DEF Frames
  <2> QED  BY <1>0, <2>3, <2>4 DEF Sub, Pools
<1> QED  BY <1>1, <1>2, <1>3

\* fallback_take_frame takes a frame inside one of the ranges, and every range
\* it leaves is a part of the range that was in its place.
LEMMA FallenShape ==
  ASSUME USABLE \in Seq(Pools)
  PROVE  /\ Fallen \in Seq(Pools) /\ Len(Fallen) <= Len(USABLE)
         /\ \A j \in 1 .. Len(Fallen) : Sub(Fallen[j], USABLE[j])
         /\ OpenRanges = {} => fallback_take_frame = None
         /\ OpenRanges # {} =>
              LET k == Max(OpenRanges) IN
              /\ k \in 1 .. Len(USABLE) /\ USABLE[k] \in Pools
              /\ Open(USABLE[k]) # {}
              /\ fallback_take_frame = allocate_frame(USABLE[k])
              /\ \A j \in 1 .. Len(Fallen) :
                   j # k \/ Fallen[j] = Spent(USABLE[k])
<1>0. \A j \in 1 .. Len(USABLE) : USABLE[j] \in Pools /\ Sub(USABLE[j], USABLE[j])
  <2> TAKE j \in 1 .. Len(USABLE)
  <2>1. USABLE[j] \in Pools
    OBVIOUS
  <2>2. USABLE[j].next \in Int /\ USABLE[j].end \in Int
    BY <2>1 DEF Pools
  <2> QED  BY <2>1, <2>2 DEF Sub
<1>1. CASE OpenRanges = {}
  <2>1. Fallen = << >> /\ fallback_take_frame = None
    BY <1>1 DEF Fallen, fallback_take_frame
  <2> QED  BY <1>1, <2>1
<1>2. CASE OpenRanges # {}
  <2> DEFINE k == Max(OpenRanges)
             rest == Spent(USABLE[k])
             front == SubSeq(USABLE, 1, k - 1)
  <2>1. OpenRanges \in SUBSET (0 .. Len(USABLE)) /\ Len(USABLE) \in Nat
    BY DEF OpenRanges
  <2>2. k \in OpenRanges
    BY <1>2, <2>1, MaxIn, ZenonT(60)
  <2>3. fallback_take_frame = allocate_frame(USABLE[k])
    BY <1>2 DEF fallback_take_frame
  <2>4. Fallen = IF rest.next < rest.end THEN Append(front, rest) ELSE front
    BY <1>2 DEF Fallen
  <2> HIDE DEF k
  <2>5. k \in 1 .. Len(USABLE) /\ Open(USABLE[k]) # {}
    BY <2>2 DEF OpenRanges
  <2>6. rest \in Pools /\ Sub(rest, USABLE[k])
    BY <1>0, <2>5, SpentPart
  <2>7. /\ front \in Seq(Pools) /\ Len(front) = k - 1
        /\ \A j \in 1 .. (k - 1) : front[j] = USABLE[j]
    BY <2>5
  <2> HIDE DEF rest, front
  <2>8. /\ Fallen \in Seq(Pools) /\ Len(Fallen) \in {k - 1, k}
        /\ \A j \in 1 .. (k - 1) : Fallen[j] = USABLE[j]
        /\ Len(Fallen) = k => Fallen[k] = rest
    <3>1. CASE rest.next < rest.end
      <4>1. Fallen = Append(front, rest)
        BY <2>4, <3>1
      <4> QED  BY <2>5, <2>6, <2>7, <4>1
    <3>2. CASE ~(rest.next < rest.end)
      <4>1. Fallen = front
        BY <2>4, <3>2
      <4> QED  BY <2>5, <2>7, <4>1
    <3> QED  BY <3>1, <3>2
  <2>9. Len(Fallen) <= Len(USABLE)
    BY <2>5, <2>8
  <2>10. \A j \in 1 .. Len(Fallen) : Sub(Fallen[j], USABLE[j])
    BY <1>0, <2>5, <2>6, <2>8
  <2>11. \A j \in 1 .. Len(Fallen) : j # k \/ Fallen[j] = rest
    BY <2>5, <2>8
  <2> QED
    BY <1>0, <1>2, <2>3, <2>5, <2>8, <2>9, <2>10, <2>11 DEF k, rest
<1> QED  BY <1>1, <1>2

-----------------------------------------------------------------------------
(* The invariant is inductive as it stands *)

Shrinks ==
  /\ FRAME_ALLOC' \in Pools /\ Sub(FRAME_ALLOC', FRAME_ALLOC)
  /\ LOW32_ALLOC' \in Pools /\ Sub(LOW32_ALLOC', LOW32_ALLOC)
  /\ USABLE' \in Seq(Pools) /\ Len(USABLE') <= Len(USABLE)
  /\ \A j \in 1 .. Len(USABLE') : Sub(USABLE'[j], USABLE[j])
  /\ RESV' = RESV

\* Pools that only shrink stay apart from each other and from what was given.
LEMMA ShrinkInv ==
  ASSUME FrameIInv, Shrinks
  PROVE  /\ PoolsApart'
         /\ \A k \in DOMAIN given :
              /\ Apart(FrameRange(given[k]), FRAME_ALLOC')
              /\ Apart(FrameRange(given[k]), LOW32_ALLOC')
              /\ \A i \in DOMAIN USABLE' : Apart(FrameRange(given[k]), USABLE'[i])
<1> DEFINE Rng == [next : Nat, end : Nat]
<1>1. \A p \in Pools : p \in Rng
  BY DEF Pools
<1>2. /\ FRAME_ALLOC \in Rng /\ LOW32_ALLOC \in Rng
      /\ FRAME_ALLOC' \in Rng /\ LOW32_ALLOC' \in Rng
  BY <1>1 DEF FrameIInv, FrameTypeOK, Shrinks
<1>3. \A i \in DOMAIN USABLE' :
        /\ i \in DOMAIN USABLE
        /\ USABLE[i] \in Rng /\ USABLE'[i] \in Rng /\ Sub(USABLE'[i], USABLE[i])
  <2> TAKE i \in DOMAIN USABLE'
  <2>1. i \in 1 .. Len(USABLE') /\ i \in 1 .. Len(USABLE)
    BY DEF FrameIInv, FrameTypeOK, Shrinks
  <2>2. USABLE[i] \in Pools /\ USABLE'[i] \in Pools
    BY <2>1 DEF FrameIInv, FrameTypeOK, Shrinks
  <2>3. Sub(USABLE'[i], USABLE[i]) /\ i \in DOMAIN USABLE
    BY <2>1 DEF FrameIInv, FrameTypeOK, Shrinks
  <2> QED  BY <1>1, <2>2, <2>3
<1>4. \A k \in DOMAIN given : FrameRange(given[k]) \in Rng /\ Sub(FrameRange(given[k]), FrameRange(given[k]))
  <2> TAKE k \in DOMAIN given
  <2>1. given[k] \in 0 .. TOP
    BY DEF FrameIInv, FrameTypeOK
  <2> QED  BY <2>1 DEF FrameRange, Sub
<1>5. PoolsApart
  BY DEF FrameIInv, NothingReturns
<1>6. PoolsApart'
  <2>1. Apart(FRAME_ALLOC', LOW32_ALLOC')
    BY <1>2, <1>5, SubApart DEF PoolsApart, Shrinks
  <2>2. \A i \in DOMAIN USABLE' :
          Apart(USABLE'[i], FRAME_ALLOC') /\ Apart(USABLE'[i], LOW32_ALLOC')
    BY <1>2, <1>3, <1>5, SubApart DEF PoolsApart, Shrinks
  <2>3. \A i, j \in DOMAIN USABLE' : i # j => Apart(USABLE'[i], USABLE'[j])
    BY <1>3, <1>5, SubApart DEF PoolsApart
  <2> QED  BY <2>1, <2>2, <2>3 DEF PoolsApart
<1>7. ASSUME NEW k \in DOMAIN given
      PROVE  /\ Apart(FrameRange(given[k]), FRAME_ALLOC')
             /\ Apart(FrameRange(given[k]), LOW32_ALLOC')
             /\ \A i \in DOMAIN USABLE' : Apart(FrameRange(given[k]), USABLE'[i])
  <2>1. /\ Apart(FrameRange(given[k]), FRAME_ALLOC)
        /\ Apart(FrameRange(given[k]), LOW32_ALLOC)
        /\ \A i \in DOMAIN USABLE : Apart(FrameRange(given[k]), USABLE[i])
    BY DEF FrameIInv, NothingReturns, FrameRange
  <2> QED  BY <1>2, <1>3, <1>4, <2>1, SubApart, ZenonT(60) DEF Shrinks
<1> QED  BY <1>6, <1>7

\* A step that takes nothing.
LEMMA NoneInv ==
  ASSUME FrameIInv, Shrinks, given' = given
  PROVE  FrameIInv'
<1>1. FrameTypeOK'
  BY DEF FrameIInv, FrameTypeOK, Shrinks
<1>2. NoFrameTwice' /\ NeverReserved'
  BY DEF FrameIInv, NoFrameTwice, NeverReserved, Shrinks
<1>3. NothingReturns'
  BY ShrinkInv DEF NothingReturns, FrameRange
<1> QED  BY <1>1, <1>2, <1>3 DEF FrameIInv

\* A step that takes a frame from one of the pools and leaves the rest of it.
LEMMA TakeInv ==
  ASSUME FrameIInv, Shrinks, NEW r \in 0 .. TOP, given' = Append(given, r),
         ~is_reserved_page(r),
         Apart(FrameRange(r), FRAME_ALLOC'), Apart(FrameRange(r), LOW32_ALLOC'),
         \A i \in DOMAIN USABLE' : Apart(FrameRange(r), USABLE'[i]),
         \A k \in DOMAIN given : Apart(FrameRange(given[k]), FrameRange(r))
  PROVE  FrameIInv'
<1>1. given \in Seq(0 .. TOP) /\ RESV \in Seq(Resv)
  BY DEF FrameIInv, FrameTypeOK
<1>2. /\ given' \in Seq(0 .. TOP)
      /\ DOMAIN given' = DOMAIN given \cup {Len(given) + 1}
      /\ \A k \in DOMAIN given : given'[k] = given[k]
      /\ given'[Len(given) + 1] = r
  BY <1>1
<1>3. FrameTypeOK'
  BY <1>2 DEF FrameIInv, FrameTypeOK, Shrinks
<1>4. NeverReserved'
  <2>1. \A i \in DOMAIN RESV : r + PAGE <= RESV[i].start \/ RESV[i].end <= r
    BY <1>1, NotReserved
  <2> QED  BY <1>2, <2>1 DEF FrameIInv, NeverReserved, Shrinks
<1>5. NoFrameTwice'
  <2>1. \A k \in DOMAIN given : given[k] + PAGE <= r \/ r + PAGE <= given[k]
    BY DEF Apart, FrameRange
  <2>2. \A k, l \in DOMAIN given : k # l =>
          given[k] + PAGE <= given[l] \/ given[l] + PAGE <= given[k]
    BY DEF FrameIInv, NoFrameTwice
  <2> QED  BY <1>2, <2>1, <2>2 DEF NoFrameTwice
<1>6. NothingReturns'
  <2>1. /\ PoolsApart'
        /\ \A k \in DOMAIN given :
              /\ Apart(FrameRange(given[k]), FRAME_ALLOC')
              /\ Apart(FrameRange(given[k]), LOW32_ALLOC')
              /\ \A i \in DOMAIN USABLE' : Apart(FrameRange(given[k]), USABLE'[i])
    BY ShrinkInv
  <2> QED  BY <1>2, <2>1 DEF NothingReturns, FrameRange
<1> QED  BY <1>3, <1>4, <1>5, <1>6 DEF FrameIInv

\* A frame inside a pool lies apart from the other pools, shrunk or not, and
\* from the frames given before.
LEMMA InPool ==
  ASSUME NEW p \in Pools, NEW r \in 0 .. TOP, Sub(FrameRange(r), p)
  PROVE  /\ \A q, s \in Pools : Apart(p, q) /\ Sub(s, q) => Apart(FrameRange(r), s)
         /\ \A g \in 0 .. TOP : Apart(FrameRange(g), p) => Apart(FrameRange(g), FrameRange(r))
<1> DEFINE Rng == [next : Nat, end : Nat]
<1>1. \A q \in Pools : q \in Rng
  BY DEF Pools
<1>2. \A g \in 0 .. TOP : FrameRange(g) \in Rng /\ Sub(FrameRange(g), FrameRange(g))
  BY DEF FrameRange, Sub
<1>3. ASSUME NEW q \in Pools, NEW s \in Pools, Apart(p, q), Sub(s, q)
      PROVE  Apart(FrameRange(r), s)
  BY <1>1, <1>2, <1>3, SubApart
<1>4. ASSUME NEW g \in 0 .. TOP, Apart(FrameRange(g), p)
      PROVE  Apart(FrameRange(g), FrameRange(r))
  BY <1>1, <1>2, <1>4, SubApart
<1> QED  BY <1>3, <1>4

\* Apart does not depend on the order.
LEMMA ApartSym == ASSUME NEW p, NEW q, Apart(p, q) PROVE Apart(q, p)
BY DEF Apart

\* alloc_one_phys_page_hhdm keeps the invariant.
LEMMA Low32Inv ==
  ASSUME FrameIInv, TakeLow32
  PROVE  FrameIInv'
<1> DEFINE p == LOW32_ALLOC
           r == allocate_frame(p)
<1>1. /\ p \in Pools /\ FRAME_ALLOC \in Pools /\ USABLE \in Seq(Pools)
      /\ given \in Seq(0 .. TOP)
  BY DEF FrameIInv, FrameTypeOK
<1>2. /\ LOW32_ALLOC' = Spent(p) /\ UNCHANGED <<FRAME_ALLOC, USABLE, RESV>>
      /\ given' = IF r = None THEN given ELSE Append(given, r)
  BY DEF TakeLow32, Gives
<1>3. \A q \in Pools : Sub(q, q)
  BY DEF Sub, Pools
<1>4. \A i \in 1 .. Len(USABLE) : USABLE[i] \in Pools
  BY <1>1
<1>5. Shrinks
  <2>1. LOW32_ALLOC' \in Pools /\ Sub(LOW32_ALLOC', LOW32_ALLOC)
    BY <1>1, <1>2, SpentPart
  <2> QED  BY <1>1, <1>2, <1>3, <1>4, <2>1 DEF Shrinks
<1>6. CASE Open(p) = {}
  <2>1. given' = given
    BY <1>2, <1>6 DEF allocate_frame
  <2> QED  BY <1>5, <2>1, NoneInv
<1>7. CASE Open(p) # {}
  <2>1. /\ r \in 0 .. TOP /\ r # None /\ Sub(FrameRange(r), p) /\ ~is_reserved_page(r)
        /\ Apart(FrameRange(r), Spent(p))
    BY <1>1, <1>7, FrameTaken
  <2> HIDE DEF r, p
  <2>2. given' = Append(given, r)
    BY <1>2, <2>1
  <2>3. /\ \A q, s \in Pools : Apart(p, q) /\ Sub(s, q) => Apart(FrameRange(r), s)
        /\ \A g \in 0 .. TOP : Apart(FrameRange(g), p) => Apart(FrameRange(g), FrameRange(r))
    BY <1>1, <2>1, InPool
  <2>4. /\ Apart(p, FRAME_ALLOC)
        /\ \A i \in DOMAIN USABLE : Apart(p, USABLE[i])
        /\ \A k \in DOMAIN given : Apart(FrameRange(given[k]), p)
    BY ApartSym DEF FrameIInv, NothingReturns, PoolsApart, FrameRange, p
  <2>5. Apart(FrameRange(r), FRAME_ALLOC')
    BY <1>1, <1>2, <1>3, <2>3, <2>4
  <2>6. \A i \in DOMAIN USABLE' : Apart(FrameRange(r), USABLE'[i])
    BY <1>1, <1>2, <1>3, <1>4, <2>3, <2>4
  <2>7. \A k \in DOMAIN given : Apart(FrameRange(given[k]), FrameRange(r))
    BY <1>1, <2>3, <2>4
  <2> QED  BY <1>2, <1>5, <2>1, <2>2, <2>5, <2>6, <2>7, TakeInv
<1> QED  BY <1>6, <1>7

\* TinyAllocGuard::allocate_frame keeps the invariant.
LEMMA FrameInv ==
  ASSUME FrameIInv, TakeFrame
  PROVE  FrameIInv'
<1> DEFINE p == FRAME_ALLOC
           r == NextFrame
<1>1. /\ p \in Pools /\ LOW32_ALLOC \in Pools /\ USABLE \in Seq(Pools)
      /\ given \in Seq(0 .. TOP)
  BY DEF FrameIInv, FrameTypeOK
<1>2. /\ FRAME_ALLOC' = Spent(p) /\ UNCHANGED <<LOW32_ALLOC, RESV>>
      /\ USABLE' = IF Open(p) # {} THEN USABLE ELSE Fallen
      /\ given' = IF r = None THEN given ELSE Append(given, r)
  BY DEF TakeFrame, Gives
<1>3. \A q \in Pools : Sub(q, q)
  BY DEF Sub, Pools
<1>4. \A i \in 1 .. Len(USABLE) : USABLE[i] \in Pools
  BY <1>1
<1>5. FRAME_ALLOC' \in Pools /\ Sub(FRAME_ALLOC', FRAME_ALLOC)
  BY <1>1, <1>2, SpentPart
<1>6. Shrinks
  <2>1. CASE Open(p) # {}
    BY <1>1, <1>2, <1>3, <1>4, <1>5, <2>1 DEF Shrinks
  <2>2. CASE Open(p) = {}
    <3>1. USABLE' = Fallen
      BY <1>2, <2>2
    <3>2. /\ Fallen \in Seq(Pools) /\ Len(Fallen) <= Len(USABLE)
          /\ \A j \in 1 .. Len(Fallen) : Sub(Fallen[j], USABLE[j])
      BY <1>1, FallenShape
    <3> QED  BY <1>1, <1>2, <1>3, <1>5, <3>1, <3>2 DEF Shrinks
  <2> QED  BY <2>1, <2>2
<1>7. CASE Open(p) # {}
  <2>0. r = allocate_frame(p) /\ USABLE' = USABLE
    BY <1>2, <1>7 DEF NextFrame
  <2>1. /\ r \in 0 .. TOP /\ r # None /\ Sub(FrameRange(r), p) /\ ~is_reserved_page(r)
        /\ Apart(FrameRange(r), Spent(p))
    BY <1>1, <1>7, <2>0, FrameTaken
  <2> HIDE DEF r, p
  <2>2. given' = Append(given, r)
    BY <1>2, <2>1
  <2>3. /\ \A q, s \in Pools : Apart(p, q) /\ Sub(s, q) => Apart(FrameRange(r), s)
        /\ \A g \in 0 .. TOP : Apart(FrameRange(g), p) => Apart(FrameRange(g), FrameRange(r))
    BY <1>1, <2>1, InPool
  <2>4. /\ Apart(p, LOW32_ALLOC)
        /\ \A i \in DOMAIN USABLE : Apart(p, USABLE[i])
        /\ \A k \in DOMAIN given : Apart(FrameRange(given[k]), p)
    BY ApartSym DEF FrameIInv, NothingReturns, PoolsApart, FrameRange, p
  <2>5. Apart(FrameRange(r), LOW32_ALLOC')
    BY <1>1, <1>2, <1>3, <2>3, <2>4
  <2>6. \A i \in DOMAIN USABLE' : Apart(FrameRange(r), USABLE'[i])
    BY <1>1, <1>3, <1>4, <2>0, <2>3, <2>4
  <2>7. \A k \in DOMAIN given : Apart(FrameRange(given[k]), FrameRange(r))
    BY <1>1, <2>3, <2>4
  <2> QED  BY <1>2, <1>6, <2>1, <2>2, <2>5, <2>6, <2>7, TakeInv
<1>8. CASE Open(p) = {} /\ OpenRanges = {}
  <2>1. r = None
    BY <1>1, <1>8, FallenShape DEF NextFrame
  <2> QED  BY <1>2, <1>6, <2>1, NoneInv
<1>9. CASE Open(p) = {} /\ OpenRanges # {}
  <2> DEFINE k == Max(OpenRanges)
             u == USABLE[k]
  <2>0. /\ k \in 1 .. Len(USABLE) /\ u \in Pools /\ Open(u) # {}
        /\ fallback_take_frame = allocate_frame(u)
        /\ \A j \in 1 .. Len(Fallen) : j # k \/ Fallen[j] = Spent(u)
        /\ Fallen \in Seq(Pools) /\ Len(Fallen) <= Len(USABLE)
        /\ \A j \in 1 .. Len(Fallen) : Sub(Fallen[j], USABLE[j])
    BY <1>1, <1>9, FallenShape
  <2> HIDE DEF k
  <2>00. r = allocate_frame(u) /\ USABLE' = Fallen
    BY <1>2, <1>9, <2>0 DEF NextFrame
  <2>1. /\ r \in 0 .. TOP /\ r # None /\ Sub(FrameRange(r), u) /\ ~is_reserved_page(r)
        /\ Apart(FrameRange(r), Spent(u))
    BY <2>0, <2>00, FrameTaken
  <2>4. /\ Apart(u, LOW32_ALLOC) /\ Apart(u, FRAME_ALLOC)
        /\ \A i \in DOMAIN USABLE : i # k => Apart(u, USABLE[i])
        /\ \A g \in DOMAIN given : Apart(FrameRange(given[g]), u)
    <3>1. k \in DOMAIN USABLE
      BY <1>1, <2>0
    <3> QED  BY <3>1 DEF FrameIInv, NothingReturns, PoolsApart, FrameRange
  <2> HIDE DEF r, p, u
  <2>2. given' = Append(given, r)
    BY <1>2, <2>1
  <2>3. /\ \A q, s \in Pools : Apart(u, q) /\ Sub(s, q) => Apart(FrameRange(r), s)
        /\ \A g \in 0 .. TOP : Apart(FrameRange(g), u) => Apart(FrameRange(g), FrameRange(r))
    BY <2>0, <2>1, InPool
  <2>5. Apart(FrameRange(r), LOW32_ALLOC') /\ Apart(FrameRange(r), FRAME_ALLOC')
    BY <1>1, <1>2, <1>3, <1>5, <2>3, <2>4 DEF p
  <2>6. \A i \in DOMAIN USABLE' : Apart(FrameRange(r), USABLE'[i])
    <3> TAKE i \in DOMAIN USABLE'
    <3>1. /\ i \in 1 .. Len(Fallen) /\ i \in 1 .. Len(USABLE) /\ i \in DOMAIN USABLE
          /\ Fallen[i] \in Pools /\ USABLE[i] \in Pools
      BY <1>1, <2>0, <2>00
    <3>2. CASE i = k
      BY <2>0, <2>00, <2>1, <3>1, <3>2
    <3>3. CASE i # k
      BY <2>0, <2>00, <2>3, <2>4, <3>1, <3>3
    <3> QED  BY <3>2, <3>3
  <2>7. \A g \in DOMAIN given : Apart(FrameRange(given[g]), FrameRange(r))
    BY <1>1, <2>3, <2>4
  <2> QED  BY <1>2, <1>6, <2>1, <2>2, <2>5, <2>6, <2>7, TakeInv
<1> QED  BY <1>7, <1>8, <1>9

-----------------------------------------------------------------------------
(* What a caller of the allocators may rely on *)

\* A frame that is handed out was not handed out before.
LEMMA TakesFresh ==
  ASSUME FrameIInv, FrameIInv', NEW r, given' = Append(given, r)
  PROVE  r \in 0 .. TOP /\ r \notin Given /\ Given' = Given \cup {r}
<1>1. given \in Seq(0 .. TOP) /\ given' \in Seq(0 .. TOP)
  BY DEF FrameIInv, FrameTypeOK
<1> DEFINE n == Len(given) + 1
<1>2. given \in Seq(0 .. TOP \cup {r})
  BY <1>1
<1>3. /\ n \in DOMAIN given' /\ given'[n] = r /\ DOMAIN given' = DOMAIN given \cup {n}
      /\ \A k \in DOMAIN given : k # n /\ given'[k] = given[k] /\ given[k] \in 0 .. TOP
  BY <1>1, <1>2
<1> HIDE DEF n
<1>4. r \in 0 .. TOP
  BY <1>1, <1>3
<1>5. \A k \in DOMAIN given : given[k] + PAGE <= r \/ r + PAGE <= given[k]
  BY <1>3 DEF FrameIInv, NoFrameTwice
<1>6. r \notin Given
  BY <1>3, <1>4, <1>5 DEF Given
<1>7. Given' = Given \cup {r}
  BY <1>3 DEF Given
<1> QED  BY <1>4, <1>6, <1>7

\* A scan that found no frame to return has stepped through all of them: the
\* pool is used up for good (TinyBump::allocate_frame advances next as it goes).
LEMMA SpentDry ==
  ASSUME NEW pool \in Pools, Open(pool) = {}
  PROVE  Frames(Spent(pool)) = {}
<1>0. pool.next \in 0 .. TOP /\ pool.end \in 0 .. TOP
  BY DEF Pools
<1>1. CASE Frames(pool) = {}
  BY <1>1 DEF Spent
<1>2. CASE Frames(pool) # {}
  <2> DEFINE m == Max(Frames(pool))
  <2>1. Frames(pool) \in SUBSET (0 .. TOP)
    BY <1>0 DEF Frames
  <2>2. m \in Frames(pool) /\ \A y \in Frames(pool) : y <= m
    BY <1>2, <2>1, MaxIn, ZenonT(60)
  <2>3. Spent(pool) = [next |-> m + PAGE, end |-> pool.end]
    BY <1>2 DEF Spent
  <2> HIDE DEF m
  <2>4. m \in pool.next .. pool.end
    BY <2>2 DEF Frames
  <2>5. (m - pool.next) % PAGE = 0
    BY <2>2 DEF Frames
  <2>6. ASSUME NEW p \in Frames(Spent(pool)) PROVE FALSE
    <3>1. p \in (m + PAGE) .. pool.end /\ p + PAGE <= pool.end
      BY <2>3 DEF Frames
    <3>2. (p - (m + PAGE)) % PAGE = 0
      BY <2>3 DEF Frames
    <3> DEFINE a == p - (m + PAGE)
               b == m - pool.next
               c == a + b
    <3>3. /\ a \in Int /\ b \in Int /\ c \in Int /\ PAGE \in Int /\ PAGE \in Nat \ {0}
          /\ p - pool.next = c + PAGE
      BY <1>0, <2>4, <3>1
    <3>4. (PAGE * 1) % PAGE = 0 /\ PAGE * 1 = PAGE
      BY Multiple
    <3>5. a % PAGE = 0 /\ b % PAGE = 0
      BY <2>5, <3>2
    <3> HIDE DEF a, b
    <3>6. c % PAGE = 0
      BY <3>3, <3>5, ModSum, ZenonT(60)
    <3> HIDE DEF c
    <3>7. PAGE % PAGE = 0
      BY <3>4, ZenonT(60)
    <3>8. (c + PAGE) % PAGE = 0
      BY <3>3, <3>6, <3>7, ModSum, ZenonT(60)
    <3>9. p \in pool.next .. pool.end
      BY <1>0, <2>4, <3>1
    <3>10. p \in Frames(pool)
      BY <3>1, <3>3, <3>8, <3>9 DEF Frames
    <3> QED  BY <2>2, <2>4, <1>0, <3>1, <3>10
  <2> QED  BY <2>6
<1> QED  BY <1>1, <1>2

\* An allocator that returns None returns None ever after.
LEMMA FrameDry ==
  ASSUME FrameIInv, TakeFrame, NextFrame = None
  PROVE  NextFrame' = None /\ given' = given
<1>1. FRAME_ALLOC \in Pools /\ USABLE \in Seq(Pools)
  BY DEF FrameIInv, FrameTypeOK
<1>2. Open(FRAME_ALLOC) = {}
  <2> SUFFICES ASSUME Open(FRAME_ALLOC) # {} PROVE FALSE
    OBVIOUS
  <2>1. allocate_frame(FRAME_ALLOC) # None
    BY <1>1, FrameTaken
  <2> QED  BY <2>1 DEF NextFrame
<1>3. OpenRanges = {}
  <2> SUFFICES ASSUME OpenRanges # {} PROVE FALSE
    OBVIOUS
  <2> DEFINE u == USABLE[Max(OpenRanges)]
  <2>1. u \in Pools /\ Open(u) # {} /\ fallback_take_frame = allocate_frame(u)
    BY <1>1, FallenShape
  <2> HIDE DEF u
  <2>2. allocate_frame(u) # None
    BY <2>1, FrameTaken
  <2> QED  BY <1>2, <2>1, <2>2 DEF NextFrame
<1>4. FRAME_ALLOC' = Spent(FRAME_ALLOC) /\ USABLE' = << >> /\ given' = given
  BY <1>2, <1>3 DEF TakeFrame, Gives, Fallen
<1>5. Frames(FRAME_ALLOC') = {}
  BY <1>1, <1>2, <1>4, SpentDry
<1>6. Open(FRAME_ALLOC)' = {} /\ OpenRanges' = {}
  BY <1>4, <1>5 DEF Open, OpenRanges
<1> QED  BY <1>4, <1>6 DEF NextFrame, fallback_take_frame

\* The low pool likewise.
LEMMA Low32Dry ==
  ASSUME FrameIInv, TakeLow32, allocate_frame(LOW32_ALLOC) = None
  PROVE  allocate_frame(LOW32_ALLOC)' = None /\ given' = given
<1>1. LOW32_ALLOC \in Pools
  BY DEF FrameIInv, FrameTypeOK
<1>2. Open(LOW32_ALLOC) = {}
  BY <1>1, FrameTaken
<1>3. LOW32_ALLOC' = Spent(LOW32_ALLOC) /\ given' = given
  BY DEF TakeLow32, Gives
<1>4. Frames(LOW32_ALLOC') = {}
  BY <1>1, <1>2, <1>3, SpentDry
<1>5. Open(LOW32_ALLOC)' = {}
  BY <1>4 DEF Open
<1> QED  BY <1>3, <1>5 DEF allocate_frame

-----------------------------------------------------------------------------
(* Where the frames come from *)

Whence(r) ==
  \/ Sub(FrameRange(r), FRAME_ALLOC) \/ Sub(FrameRange(r), LOW32_ALLOC)
  \/ \E i \in 1 .. Len(USABLE) : Sub(FrameRange(r), USABLE[i])

\* Every allocation only shrinks the pools, and what it hands out was in one of
\* them (TinyBump::allocate_frame, fallback_take_frame).
LEMMA FromPool ==
  ASSUME FrameIInv, FrameNext
  PROVE  /\ Shrinks
         /\ given' = given \/ \E r \in 0 .. TOP : given' = Append(given, r) /\ Whence(r)
<1>1. /\ FRAME_ALLOC \in Pools /\ LOW32_ALLOC \in Pools /\ USABLE \in Seq(Pools)
  BY DEF FrameIInv, FrameTypeOK
<1>2. \A q \in Pools : Sub(q, q)
  BY DEF Sub, Pools
<1>3. \A i \in 1 .. Len(USABLE) : USABLE[i] \in Pools
  BY <1>1
<1>4. CASE TakeLow32
  <2> DEFINE r == allocate_frame(LOW32_ALLOC)
  <2>1. /\ LOW32_ALLOC' = Spent(LOW32_ALLOC) /\ UNCHANGED <<FRAME_ALLOC, USABLE, RESV>>
        /\ given' = IF r = None THEN given ELSE Append(given, r)
    BY <1>4 DEF TakeLow32, Gives
  <2>2. Shrinks
    <3>1. LOW32_ALLOC' \in Pools /\ Sub(LOW32_ALLOC', LOW32_ALLOC)
      BY <1>1, <2>1, SpentPart
    <3> QED  BY <1>1, <1>2, <1>3, <2>1, <3>1 DEF Shrinks
  <2>3. r = None \/ (r \in 0 .. TOP /\ Sub(FrameRange(r), LOW32_ALLOC))
    <3>1. CASE Open(LOW32_ALLOC) = {}
      BY <3>1 DEF allocate_frame
    <3>2. CASE Open(LOW32_ALLOC) # {}
      BY <1>1, <3>2, FrameTaken
    <3> QED  BY <3>1, <3>2
  <2> HIDE DEF r
  <2> QED  BY <2>1, <2>2, <2>3 DEF Whence
<1>5. CASE TakeFrame
  <2> DEFINE r == NextFrame
  <2>1. /\ FRAME_ALLOC' = Spent(FRAME_ALLOC) /\ UNCHANGED <<LOW32_ALLOC, RESV>>
        /\ USABLE' = IF Open(FRAME_ALLOC) # {} THEN USABLE ELSE Fallen
        /\ given' = IF r = None THEN given ELSE Append(given, r)
    BY <1>5 DEF TakeFrame, Gives
  <2>2. FRAME_ALLOC' \in Pools /\ Sub(FRAME_ALLOC', FRAME_ALLOC)
    BY <1>1, <2>1, SpentPart
  <2>3. Shrinks
    <3>1. CASE Open(FRAME_ALLOC) # {}
      BY <1>1, <1>2, <1>3, <2>1, <2>2, <3>1 DEF Shrinks
    <3>2. CASE Open(FRAME_ALLOC) = {}
      <4>1. USABLE' = Fallen
        BY <2>1, <3>2
      <4>2. /\ Fallen \in Seq(Pools) /\ Len(Fallen) <= Len(USABLE)
            /\ \A j \in 1 .. Len(Fallen) : Sub(Fallen[j], USABLE[j])
        BY <1>1, FallenShape
      <4> QED  BY <1>1, <1>2, <2>1, <2>2, <4>1, <4>2 DEF Shrinks
    <3> QED  BY <3>1, <3>2
  <2>4. r = None \/ (r \in 0 .. TOP /\ Whence(r))
    <3>1. CASE Open(FRAME_ALLOC) # {}
      <4>1. r = allocate_frame(FRAME_ALLOC)
        BY <3>1 DEF NextFrame
      <4>2. r \in 0 .. TOP /\ Sub(FrameRange(r), FRAME_ALLOC)
        BY <1>1, <3>1, <4>1, FrameTaken
      <4> QED  BY <4>2 DEF Whence
    <3>2. CASE Open(FRAME_ALLOC) = {} /\ OpenRanges = {}
      BY <1>1, <3>2, FallenShape DEF NextFrame
    <3>3. CASE Open(FRAME_ALLOC) = {} /\ OpenRanges # {}
      <4> DEFINE k == Max(OpenRanges)
      <4>1. /\ k \in 1 .. Len(USABLE) /\ USABLE[k] \in Pools /\ Open(USABLE[k]) # {}
            /\ fallback_take_frame = allocate_frame(USABLE[k])
        BY <1>1, <3>3, FallenShape
      <4> HIDE DEF k
      <4>2. r = allocate_frame(USABLE[k])
        BY <3>3, <4>1 DEF NextFrame
      <4>3. r \in 0 .. TOP /\ Sub(FrameRange(r), USABLE[k])
        BY <4>1, <4>2, FrameTaken
      <4> QED  BY <4>1, <4>3 DEF Whence
    <3> QED  BY <3>1, <3>2, <3>3
  <2> HIDE DEF r
  <2> QED  BY <2>1, <2>3, <2>4
<1> QED  BY <1>4, <1>5 DEF FrameNext

\* What the pools hold and what was handed out lies in A.
Covers(p, x) == p.next <= x /\ x < p.end
InPools(A) ==
  /\ \A x \in 0 .. TOP : Covers(FRAME_ALLOC, x) \/ Covers(LOW32_ALLOC, x) => x \in A
  /\ \A x \in 0 .. TOP, i \in 1 .. Len(USABLE) : Covers(USABLE[i], x) => x \in A
  /\ Given \subseteq A

\* No allocation leaves the memory that the pools had to begin with.
LEMMA StayIn ==
  ASSUME NEW A, FrameIInv, FrameIInv', InPools(A), FrameNext
  PROVE  InPools(A)'
<1>1. /\ FRAME_ALLOC \in Pools /\ LOW32_ALLOC \in Pools /\ USABLE \in Seq(Pools)
  BY DEF FrameIInv, FrameTypeOK
<1>2. /\ Shrinks
      /\ given' = given \/ \E r \in 0 .. TOP : given' = Append(given, r) /\ Whence(r)
  BY FromPool
<1>3. \A p, q \in Pools, x \in 0 .. TOP : Sub(q, p) /\ Covers(q, x) => Covers(p, x)
  BY DEF Sub, Covers, Pools
<1>4. \A x \in 0 .. TOP : Covers(FRAME_ALLOC', x) \/ Covers(LOW32_ALLOC', x) => x \in A
  BY <1>1, <1>2, <1>3 DEF Shrinks, InPools
<1>5. \A x \in 0 .. TOP, i \in 1 .. Len(USABLE') : Covers(USABLE'[i], x) => x \in A
  <2> TAKE x \in 0 .. TOP, i \in 1 .. Len(USABLE')
  <2>1. /\ i \in 1 .. Len(USABLE) /\ USABLE[i] \in Pools /\ USABLE'[i] \in Pools
        /\ Sub(USABLE'[i], USABLE[i])
    BY <1>1, <1>2 DEF Shrinks
  <2> QED  BY <1>3, <2>1 DEF InPools
<1>6. Given' \subseteq A
  <2>1. CASE given' = given
    BY <2>1 DEF Given, InPools
  <2>2. CASE \E r \in 0 .. TOP : given' = Append(given, r) /\ Whence(r)
    <3>1. PICK r \in 0 .. TOP : given' = Append(given, r) /\ Whence(r)
      BY <2>2
    <3>2. Given' = Given \cup {r}
      BY <3>1, TakesFresh
    <3>3. \A p \in Pools : Sub(FrameRange(r), p) => Covers(p, r)
      BY DEF Sub, Covers, Pools, FrameRange
    <3>4. r \in A
      <4>1. CASE Sub(FrameRange(r), FRAME_ALLOC) \/ Sub(FrameRange(r), LOW32_ALLOC)
        BY <1>1, <3>3, <4>1 DEF InPools
      <4>2. CASE \E i \in 1 .. Len(USABLE) : Sub(FrameRange(r), USABLE[i])
        BY <1>1, <3>3, <4>2 DEF InPools
      <4> QED  BY <3>1, <4>1, <4>2 DEF Whence
    <3> QED  BY <3>2, <3>4 DEF InPools
  <2> QED  BY <1>2, <2>1, <2>2
<1> QED  BY <1>4, <1>5, <1>6 DEF InPools

-----------------------------------------------------------------------------

\* Whatever the pools and the reserved ranges are, as long as the pools share no
\* byte when the kernel starts: no frame is handed out twice, none is reserved,
\* and nothing handed out is ever in a pool again (simple_alloc.rs,
\* fallback_take_frame).
THEOREM FramesSafe ==
  FrameSpec => [](FrameTypeOK /\ NoFrameTwice /\ NothingReturns /\ NeverReserved)
<1>1. FrameInit => FrameIInv
  <2> SUFFICES ASSUME FrameInit PROVE FrameIInv
    OBVIOUS
  <2>1. given = << >> /\ DOMAIN given = {}
    BY DEF FrameInit
  <2> QED
    BY <2>1 DEF FrameInit, Seeded, FrameIInv, FrameTypeOK, NoFrameTwice, NothingReturns,
                NeverReserved
<1>2. FrameIInv /\ [FrameNext]_fvars => FrameIInv'
  <2>1. ASSUME FrameIInv, UNCHANGED fvars PROVE FrameIInv'
    BY <2>1 DEF fvars, FrameIInv, FrameTypeOK, NoFrameTwice, NothingReturns,
                PoolsApart, NeverReserved
  <2> QED  BY <2>1, FrameInv, Low32Inv DEF FrameNext
<1> QED  BY <1>1, <1>2, PTL DEF FrameSpec, FrameIInv

\* What was handed out never comes back into a pool (simple_alloc.rs,
\* fallback_take_frame).
THEOREM FramesSpent == FrameSpec => []NothingReturns
BY FramesSafe, PTL

\* No frame that is handed out touches a reserved range (reserved.rs
\* is_reserved_range).
THEOREM ReservedKept == FrameSpec => []NeverReserved
BY FramesSafe, PTL
=============================================================================
