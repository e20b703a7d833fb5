------------------------------ MODULE FrameAlloc ------------------------------
(***************************************************************************)
(* The physical frame allocators of the kernel (mem/simple_alloc.rs,       *)
(* mem/reserved.rs, and USABLE with fallback_take_frame in mem/mod.rs):    *)
(* two bump allocators, a stack of usable ranges behind the first, and the *)
(* table of reserved ranges that all of them skip.  Nothing is ever freed. *)
(* Each operation runs under the lock of the allocator it changes.         *)
(*                                                                         *)
(* A pool is a range [next, end) that has not been handed out.  The state  *)
(* in which the pools start is made by BootMemory.                         *)
(***************************************************************************)
EXTENDS MinMax, Sequences

CONSTANTS
  PAGE,        \* bytes of a frame (0x1000)
  TOP          \* physical addresses are below this one

ASSUME FrameConstants == PAGE \in Nat \ {0} /\ TOP \in Nat

VARIABLES
  FRAME_ALLOC, LOW32_ALLOC,   \* the two TinyBumps
  USABLE,                     \* the stack of usable ranges
  RESV,                       \* the reserved ranges, [start, end)
  given                       \* history: the frames handed out, in order

fvars == <<FRAME_ALLOC, LOW32_ALLOC, USABLE, RESV, given>>

None  == -1
Pools == [next : 0 .. TOP, end : 0 .. TOP]
Resv  == [start : Nat, end : Nat]

align_down(x) == x - (x % PAGE)
align_up(x)   == align_down(x + PAGE - 1)

\* Mutant: a range that ends inside the page is not seen.
is_reserved_range_touching(phys, len) ==
  len # 0 /\ \E i \in DOMAIN RESV :
    align_down(phys) > RESV[i].start /\ align_up(phys + len) <= RESV[i].end

is_reserved_range(phys, len) ==
  len # 0 /\ \E i \in DOMAIN RESV :
    align_down(phys) < RESV[i].end /\ align_up(phys + len) > RESV[i].start

is_reserved_page(phys) == is_reserved_range(phys, PAGE)

-----------------------------------------------------------------------------
(* One frame from a pool *)

\* The frames a scan of the pool steps through, and those it may return.
Frames(pool) == {p \in pool.next .. pool.end :
                   p + PAGE <= pool.end /\ (p - pool.next) % PAGE = 0}
Open(pool)   == {p \in Frames(pool) : ~is_reserved_page(p)}

\* Mutant: the scan does not move past the frame it returns.
Spent_stays(pool) ==
  IF Open(pool) # {} THEN [next |-> Min(Open(pool)), end |-> pool.end]
  ELSE IF Frames(pool) # {} THEN [next |-> Max(Frames(pool)) + PAGE, end |-> pool.end]
  ELSE pool

\* What TinyBump::allocate_frame returns, and what it leaves.
allocate_frame(pool) == IF Open(pool) = {} THEN None ELSE Min(Open(pool))
Spent(pool) ==
  IF Open(pool) # {} THEN [next |-> Min(Open(pool)) + PAGE, end |-> pool.end]
  ELSE IF Frames(pool) # {} THEN [next |-> Max(Frames(pool)) + PAGE, end |-> pool.end]
  ELSE pool

\* The topmost range of USABLE with a frame to give; the ones above it are
\* popped for good.
OpenRanges == {i \in DOMAIN USABLE : Open(USABLE[i]) # {}}

fallback_take_frame ==
  IF OpenRanges = {} THEN None ELSE allocate_frame(USABLE[Max(OpenRanges)])

\* USABLE after it: the rest of that range is pushed back unless it is empty.
Fallen ==
  IF OpenRanges = {} THEN << >>
  ELSE LET i    == Max(OpenRanges)
           rest == Spent(USABLE[i])
       IN  IF rest.next < rest.end THEN Append(SubSeq(USABLE, 1, i - 1), rest)
           ELSE SubSeq(USABLE, 1, i - 1)

-----------------------------------------------------------------------------
(* The operations *)

Gives(r) == given' = IF r = None THEN given ELSE Append(given, r)

\* What TinyAllocGuard::allocate_frame returns: a frame of the bump, or else one
\* of the usable ranges.
NextFrame == IF Open(FRAME_ALLOC) # {} THEN allocate_frame(FRAME_ALLOC)
             ELSE fallback_take_frame

TakeFrame ==
  /\ FRAME_ALLOC' = Spent(FRAME_ALLOC)
  /\ USABLE' = IF Open(FRAME_ALLOC) # {} THEN USABLE ELSE Fallen
  /\ Gives(NextFrame)
  /\ UNCHANGED <<LOW32_ALLOC, RESV>>

\* The allocation in alloc_one_phys_page_hhdm.
TakeLow32 ==
  /\ LOW32_ALLOC' = Spent(LOW32_ALLOC)
  /\ Gives(allocate_frame(LOW32_ALLOC))
  /\ UNCHANGED <<FRAME_ALLOC, USABLE, RESV>>

FrameNext == TakeFrame \/ TakeLow32

\* What the boot code hands over: pools that share no byte.
Apart(p, q) == p.end <= q.next \/ q.end <= p.next

PoolsApart ==
  /\ Apart(FRAME_ALLOC, LOW32_ALLOC)
  /\ \A i \in DOMAIN USABLE :
       Apart(USABLE[i], FRAME_ALLOC) /\ Apart(USABLE[i], LOW32_ALLOC)
  /\ \A i, j \in DOMAIN USABLE : i # j => Apart(USABLE[i], USABLE[j])

Seeded ==
  /\ FRAME_ALLOC \in Pools /\ LOW32_ALLOC \in Pools
  /\ USABLE \in Seq(Pools) /\ RESV \in Seq(Resv)
  /\ PoolsApart

FrameInit == Seeded /\ given = << >>
FrameSpec == FrameInit /\ [][FrameNext]_fvars

-----------------------------------------------------------------------------
(* Properties *)

\* Every variable has its type.
FrameTypeOK ==
  /\ FRAME_ALLOC \in Pools /\ LOW32_ALLOC \in Pools
  /\ USABLE \in Seq(Pools) /\ RESV \in Seq(Resv)
  /\ given \in Seq(0 .. TOP)

\* No byte is handed out twice: the frames given so far share none, whichever
\* of the three allocators they came from and in whatever order.
NoFrameTwice ==
  \A i, j \in DOMAIN given :
    i # j => given[i] + PAGE <= given[j] \/ given[j] + PAGE <= given[i]

\* What is still to be handed out was not handed out: every pool lies apart
\* from every frame given and from the other pools, so a range popped from
\* USABLE and pushed back in part cannot come back in full.
NothingReturns ==
  /\ PoolsApart
  /\ \A k \in DOMAIN given :
       LET f == [next |-> given[k], end |-> given[k] + PAGE]
       IN  /\ Apart(f, FRAME_ALLOC) /\ Apart(f, LOW32_ALLOC)
           /\ \A i \in DOMAIN USABLE : Apart(f, USABLE[i])

\* A frame handed out has no byte in a reserved range, though the ranges of
\* USABLE and the pools themselves overlap reserved ones.
NeverReserved ==
  \A k \in DOMAIN given, i \in DOMAIN RESV :
    given[k] + PAGE <= RESV[i].start \/ RESV[i].end <= given[k]

\* All of it together, which every allocation keeps, and the frames handed out so
\* far as a set.
FrameIInv == FrameTypeOK /\ NoFrameTwice /\ NothingReturns /\ NeverReserved
Given     == {given[k] : k \in DOMAIN given}
=============================================================================
