-------------------------- MODULE KernelMemoryProofs --------------------------
(***************************************************************************)
(* The kernel's memory, for any number of threads, any sizes of the        *)
(* windows and of the requests, and any pools that share no byte: the      *)
(* inductive invariant, that each step of an operation keeps it, and what  *)
(* it implies.                                                             *)
(***************************************************************************)
EXTENDS KernelMemory, FrameAllocProofs, TLAPS

USE FrameConstants, ZenonT(60)

Op  == {"idle", "init_heap", "vmap", "mmio", "ident", "fit", "grow"}
Job == [op : Op, win : Window, at : Nat, end : Nat, frame : None .. TOP,
        size : Nat, old : [start : Nat, end : Nat]]
Heap == {"fit", "grow"}

-----------------------------------------------------------------------------
(* The inductive invariant *)

Types == MemTypeOK /\ job \in [Thread -> Job] /\ blocks \subseteq [start : Nat, end : Nat]

\* What a job is, and that it stays inside its window.
JobShape ==
  \A t \in Thread :
    /\ job[t].op = "idle" => job[t] = Idle
    /\ job[t].op \in {"init_heap"} \cup Heap => job[t].win = "kheap"
    /\ job[t].op \in {"vmap", "mmio", "ident"} => job[t].win = job[t].op
    /\ job[t].op \in Heap => job[t].size \in Nat \ {0}
    /\ job[t].end <= WINDOW + 1
    /\ job[t].frame # None => fa_lock = t /\ OwnFrame(t) /\ job[t].at < job[t].end

\* Who holds which lock, and when.
LockShape ==
  \A t \in Thread :
    /\ pt_lock = t \/ fa_lock = t => job[t].op # "idle"
    /\ fa_lock = t /\ ~PerPage(t) => pt_lock = t
    /\ pt_lock = t /\ PerPage(t) => fa_lock = t /\ job[t].frame # None
    /\ job[t].op \in {"mmio", "ident"} => pt_lock = t

\* One operation on the heap at a time, and nothing before init_heap is through.
Alone ==
  /\ \A t, u \in Thread : job[t].op \in Heap /\ job[u].op \in Heap => t = u
  /\ \A t, u \in Thread : job[t].op = "init_heap" /\ t # u => job[u] = Idle
  /\ \A t \in Thread : job[t].op = "init_heap" =>
       ready # "yes" /\ fa_lock = t /\ job[t].end = KHEAP_PAGES
  /\ ready = "no" => \E t \in Thread : job[t].op = "init_heap"

\* The pages that a job has yet to map are not mapped, no other job has them,
\* and nothing is mapped past the end of a window.
ToMap ==
  \A t \in Thread : job[t].op \in {"init_heap", "vmap", "mmio"} =>
    \A i \in 0 .. WINDOW :
      job[t].at <= i /\ i < job[t].end => pt[<<job[t].win, i>>] = None

RangesApart ==
  \A t, u \in Thread : job[t].op = "vmap" /\ job[u].op = "vmap" /\ t # u =>
    job[t].end <= job[u].at \/ job[u].end <= job[t].at

RangesTaken ==
  \A t \in Thread : /\ job[t].op = "vmap" => job[t].end <= NEXT_VMAP
                    /\ job[t].op = "mmio" => job[t].end <= NEXT_MMIO_VA

NothingAbove ==
  /\ \A i \in 0 .. WINDOW : NEXT_VMAP <= i => pt[<<"vmap", i>>] = None
  /\ \A i \in 0 .. WINDOW : NEXT_MMIO_VA <= i => pt[<<"mmio", i>>] = None

\* ensure_mapped_span takes a frame only for a page that is not mapped.
FrameForHole ==
  \A t \in Thread : job[t].op \in Heap /\ job[t].frame # None => pt[Here(t)] = None

Fresh == ToMap /\ RangesApart /\ RangesTaken /\ NothingAbove /\ FrameForHole

\* The part of the heap that is mapped, also while it is being mapped.
Backed ==
  /\ HeapBacked
  /\ \A t \in Thread, i \in 0 .. WINDOW :
       /\ job[t].op = "init_heap" /\ i < job[t].at => pt[<<"kheap", i>>] # None
       /\ job[t].op = "grow" /\ mapped_end <= i /\ i < job[t].at => pt[<<"kheap", i>>] # None
  /\ \A t \in Thread : job[t].op = "grow" => job[t].end = mapped_end + GROW
  /\ ready = "no" => mapped_end = 0

\* FramesAccounted, pair by pair.
Accounted ==
  /\ \A x, y \in VPage : pt[x] >= 0 /\ pt[x] = pt[y] => x = y
  /\ \A x, y \in Table : tables[x] >= 0 /\ tables[x] = tables[y] => x = y
  /\ \A x \in VPage, y \in Table : pt[x] >= 0 => pt[x] # tables[y]
  /\ \A x \in VPage, t \in Thread : pt[x] >= 0 => pt[x] # job[t].frame
  /\ \A y \in Table, t \in Thread : tables[y] >= 0 => tables[y] # job[t].frame
  /\ \A f \in low32 : /\ \A x \in VPage : pt[x] # f
                      /\ \A y \in Table : tables[y] # f
                      /\ \A t \in Thread : job[t].frame # f
  /\ \A f \in Given : \/ \E x \in VPage : pt[x] = f
                      \/ \E y \in Table : tables[y] = f
                      \/ \E t \in Thread : job[t].frame = f
                      \/ f \in low32
  /\ \A x \in VPage : pt[x] >= 0 => pt[x] \in Given
  /\ \A y \in Table : tables[y] >= 0 => tables[y] \in Given
  /\ \A t \in Thread : job[t].frame >= 0 => job[t].frame \in Given
  /\ low32 \subseteq Given

IInv ==
  /\ Types /\ JobShape /\ LockShape /\ Alone /\ Fresh /\ Backed /\ Accounted
  /\ PanicOnlyWhenDry /\ FrameIInv

-----------------------------------------------------------------------------
(* Pages and jobs *)

\* The sizes of the windows and of the requests are numbers.
LEMMA WindowSizes ==
  /\ WINDOW \in Nat /\ KHEAP_PAGES \in 1 .. WINDOW /\ GROW \in Nat \ {0} /\ FAN \in Nat \ {0}
BY MemoryConstants

USE WindowSizes

\* The numbers a page number of a window, or the end of one, ranges over.
LEMMA UpToWindow ==
  ASSUME NEW n \in Nat, n <= WINDOW + 1
  PROVE  n \in 0 .. WINDOW + 1
  BY SMTT(60)

\* The job of a thread that has none.
LEMMA IdleJob ==
  /\ Idle \in Job /\ Idle.op = "idle" /\ Idle.frame = None /\ Idle.end = 0
BY SMTT(60) DEF Idle, Pages, Job, Op, Window, None, NoBlock

\* The fields of a job have their types.
LEMMA JobFields ==
  ASSUME NEW j \in Job
  PROVE  /\ j.op \in Op /\ j.win \in Window /\ j.at \in Nat /\ j.end \in Nat
         /\ j.frame \in None .. TOP /\ j.size \in Nat /\ j.old \in [start : Nat, end : Nat]
BY DEF Job

-----------------------------------------------------------------------------
(* Starting an operation *)

\* What the operations have in common when they start: vmap_alloc_pages,
\* map_mmio, map_identity_4k and alloc.
Starts(t, j) ==
  /\ Begins(t, j) /\ j.op \in Op \ {"idle", "init_heap"} /\ j.frame = None
  /\ j.end <= WINDOW + 1
  /\ j.op \in Heap => j.win = "kheap" /\ j.size # 0 /\ HeapFree
  /\ j.op \notin Heap => j.win = j.op
  /\ IF j.op \in {"mmio", "ident"} THEN pt_lock = Nobody /\ pt_lock' = t
     ELSE pt_lock' = pt_lock
  /\ IF j.op = "vmap" THEN j.at = NEXT_VMAP /\ NEXT_VMAP' = j.end /\ j.at <= j.end
     ELSE NEXT_VMAP' = NEXT_VMAP
  /\ IF j.op = "mmio" THEN j.at = NEXT_MMIO_VA /\ NEXT_MMIO_VA' = j.end /\ j.at <= j.end
     ELSE NEXT_MMIO_VA' = NEXT_MMIO_VA
  /\ j.op = "grow" => j.at = mapped_end /\ j.end = mapped_end + GROW
  /\ \A b \in blocks' : /\ b \in [start : Nat, end : Nat]
                         /\ b.start < b.end /\ b.end <= KHEAP_PAGES * PAGE
  /\ UNCHANGED <<pt, tables, mapped_end, low32, fa_lock, ready, fvars>>

\* Starting an operation keeps the invariant.
LEMMA StartInv ==
  ASSUME IInv, NEW t \in Thread, NEW j \in Job, Starts(t, j)
  PROVE  IInv'
<1>0. /\ Types /\ JobShape /\ LockShape /\ Alone /\ Fresh /\ Backed /\ Accounted
      /\ PanicOnlyWhenDry /\ FrameIInv
  BY DEF IInv
<1>1. /\ job' \in [Thread -> Job] /\ job'[t] = j
      /\ \A u \in Thread : u # t => job'[u] = job[u]
  <2>1. job' = [job EXCEPT ![t] = j]
    BY DEF Starts, Begins
  <2> QED  BY <1>0, <2>1 DEF Types
<1>2. job[t] = Idle /\ job[t].op = "idle" /\ job[t].frame = None /\ ready = "yes"
  BY IdleJob DEF Starts, Begins
<1>3. /\ pt' = pt /\ tables' = tables /\ mapped_end' = mapped_end /\ low32' = low32
      /\ fa_lock' = fa_lock /\ ready' = ready /\ Given' = Given
      /\ UNCHANGED fvars
  <2>1. /\ UNCHANGED <<pt, tables, mapped_end, low32, fa_lock, ready>>
        /\ UNCHANGED <<FRAME_ALLOC, LOW32_ALLOC, USABLE, RESV, given>>
    BY DEF Starts, fvars
  <2> QED  BY <2>1 DEF fvars, Given
<1>4. \A u \in Thread : job'[u].frame = job[u].frame
  BY <1>1, <1>2 DEF Starts
<1>5. j.at \in Nat /\ j.end \in Nat /\ j.op \in Op /\ j.size \in Nat
  BY JobFields
<1>6. fa_lock # t /\ pt_lock # t
  BY <1>0, <1>2 DEF LockShape
<1>7. \A u \in Thread : job[u].op # "init_heap"
  BY <1>0, <1>2 DEF Alone
<1>8. Types'
  <2>1. {NEXT_VMAP', NEXT_MMIO_VA', mapped_end'} \subseteq 0 .. WINDOW + 1
    BY <1>0, <1>3, <1>5, MemoryConstants, SMTT(60) DEF Types, MemTypeOK, Starts
  <2>2. pt_lock' \in Thread \cup {Nobody}
    BY <1>0 DEF Types, MemTypeOK, Starts
  <2>3. blocks' \subseteq [start : Nat, end : Nat]
        /\ \A b \in blocks' : 0 <= b.start /\ b.start < b.end /\ b.end <= KHEAP_PAGES * PAGE
    BY SMTT(60) DEF Starts
  <2> QED  BY <1>0, <1>1, <1>3, <2>1, <2>2, <2>3 DEF Types, MemTypeOK
<1>9. JobShape'
  BY <1>0, <1>1, <1>3, <1>4, <1>5, <1>6, SMTT(60) DEF JobShape, OwnFrame, Starts, Heap, Op
<1>10. LockShape'
  BY <1>0, <1>1, <1>3, <1>4, <1>6, NobodyIsNoThread, SMTT(60) DEF LockShape, PerPage, Starts, Heap, Op
<1>11. Alone'
  <2>1. j.op \in Heap => \A u \in Thread : job[u].op \notin Heap
    BY DEF Starts, HeapFree, Heap
  <2> QED  BY <1>0, <1>1, <1>2, <1>3, <1>7, <2>1 DEF Alone, Starts
<1>12. Fresh'
  <2>1. ToMap'
    <3>1. j.op \in {"init_heap", "vmap", "mmio"} =>
            \A i \in 0 .. WINDOW : j.at <= i /\ i < j.end => pt[<<j.win, i>>] = None
      <4>1. /\ j.op = "vmap" => j.win = "vmap" /\ j.at = NEXT_VMAP
            /\ j.op = "mmio" => j.win = "mmio" /\ j.at = NEXT_MMIO_VA
            /\ j.op # "init_heap"
        BY DEF Starts, Heap
      <4> QED  BY <1>0, <1>5, <4>1 DEF Fresh, NothingAbove
    <3> QED  BY <1>0, <1>1, <1>3, <3>1 DEF Fresh, ToMap
  <2>2. RangesApart'
    BY <1>0, <1>1, <1>5, SMTT(60) DEF Fresh, RangesApart, RangesTaken, Starts
  <2>3. RangesTaken' /\ NothingAbove'
    <3>1. /\ NEXT_VMAP \in Nat /\ NEXT_VMAP' \in Nat /\ NEXT_VMAP <= NEXT_VMAP'
          /\ NEXT_MMIO_VA \in Nat /\ NEXT_MMIO_VA' \in Nat /\ NEXT_MMIO_VA <= NEXT_MMIO_VA'
      BY <1>0, <1>5, SMTT(60) DEF Starts, Types, MemTypeOK
    <3>2. RangesTaken'
      BY <1>0, <1>1, <1>5, <3>1, JobFields, SMTT(60) DEF Fresh, RangesTaken, Starts, Types
    <3> QED  BY <1>0, <1>3, <3>1, <3>2, SMTT(60) DEF Fresh, NothingAbove
  <2>4. FrameForHole'
    BY <1>0, <1>1, <1>3, <1>4 DEF Fresh, FrameForHole, Starts, Here
  <2> QED  BY <2>1, <2>2, <2>3, <2>4 DEF Fresh
<1>13. Backed'
  BY <1>0, <1>1, <1>2, <1>3, <1>5, <1>7 DEF Backed, HeapBacked, Starts
<1>14. Accounted'
  BY <1>0, <1>3, <1>4, SMTT(60) DEF Accounted
<1>15. PanicOnlyWhenDry' /\ FrameIInv'
  BY <1>0, <1>2, <1>3 DEF PanicOnlyWhenDry, fvars, FrameIInv, FrameTypeOK, NoFrameTwice,
     NothingReturns, PoolsApart, NeverReserved
<1> QED  BY <1>8, <1>9, <1>10, <1>11, <1>12, <1>13, <1>14, <1>15 DEF IInv

\* vmap_alloc_pages keeps the invariant.
LEMMA VmapInv ==
  ASSUME IInv, NEW t \in Thread, NEW n \in VMAP_PAGES, vmap_alloc_pages(t, n)
  PROVE  IInv'
<1> DEFINE j == Pages("vmap", "vmap", NEXT_VMAP, n)
<1>1. Types
  BY DEF IInv
<1>2. n \in Nat /\ NEXT_VMAP \in Nat
  BY <1>1, MemoryConstants, SMTT(60) DEF Types, MemTypeOK
<1>3. j = [op |-> "vmap", win |-> "vmap", at |-> NEXT_VMAP, end |-> NEXT_VMAP + n,
           frame |-> None, size |-> 0, old |-> NoBlock]
  BY DEF Pages
<1>4. j \in Job
  BY <1>2, <1>3, SMTT(60) DEF Job, Op, Window, None, NoBlock
<1>5. Begins(t, j) /\ NEXT_VMAP' = NEXT_VMAP + n /\ NEXT_VMAP + n <= WINDOW + 1
      /\ UNCHANGED <<pt, tables, NEXT_MMIO_VA, mapped_end, blocks, low32, locks, ready, fvars>>
  BY DEF vmap_alloc_pages
<1> HIDE DEF j
<1>6. Starts(t, j)
  BY <1>1, <1>2, <1>3, <1>5, SMTT(60) DEF Starts, Types, MemTypeOK, Op, Heap, locks
<1> QED  BY <1>4, <1>6, StartInv

\* map_mmio keeps the invariant.
LEMMA MmioInv ==
  ASSUME IInv, NEW t \in Thread, NEW n \in MMIO_PAGES, map_mmio(t, n)
  PROVE  IInv'
<1> DEFINE j == Pages("mmio", "mmio", NEXT_MMIO_VA, n)
<1>1. Types
  BY DEF IInv
<1>2. n \in Nat /\ NEXT_MMIO_VA \in Nat
  BY <1>1, MemoryConstants, SMTT(60) DEF Types, MemTypeOK
<1>3. j = [op |-> "mmio", win |-> "mmio", at |-> NEXT_MMIO_VA, end |-> NEXT_MMIO_VA + n,
           frame |-> None, size |-> 0, old |-> NoBlock]
  BY DEF Pages
<1>4. j \in Job
  BY <1>2, <1>3, SMTT(60) DEF Job, Op, Window, None, NoBlock
<1>5. /\ Begins(t, j) /\ NEXT_MMIO_VA' = NEXT_MMIO_VA + n /\ NEXT_MMIO_VA + n <= WINDOW + 1
      /\ pt_lock = Nobody /\ pt_lock' = t
      /\ UNCHANGED <<pt, tables, NEXT_VMAP, mapped_end, blocks, low32, fa_lock, ready, fvars>>
  BY DEF map_mmio
<1> HIDE DEF j
<1>6. Starts(t, j)
  BY <1>1, <1>2, <1>3, <1>5, SMTT(60) DEF Starts, Types, MemTypeOK, Op, Heap
<1> QED  BY <1>4, <1>6, StartInv

\* map_identity_4k keeps the invariant.
LEMMA IdentInv ==
  ASSUME IInv, NEW t \in Thread, NEW i \in IDENT, map_identity_4k(t, i)
  PROVE  IInv'
<1> DEFINE j == Pages("ident", "ident", i, 1)
<1>1. Types
  BY DEF IInv
<1>2. i \in 0 .. WINDOW
  BY MemoryConstants
<1>3. j = [op |-> "ident", win |-> "ident", at |-> i, end |-> i + 1,
           frame |-> None, size |-> 0, old |-> NoBlock]
  BY DEF Pages
<1>4. j \in Job
  BY <1>2, <1>3, SMTT(60) DEF Job, Op, Window, None, NoBlock
<1>5. /\ Begins(t, j) /\ pt_lock = Nobody /\ pt_lock' = t
      /\ UNCHANGED <<pt, tables, next, blocks, low32, fa_lock, ready, fvars>>
  BY DEF map_identity_4k
<1> HIDE DEF j
<1>6. Starts(t, j)
  BY <1>1, <1>2, <1>3, <1>5, SMTT(60) DEF Starts, Types, MemTypeOK, Op, Heap, next
<1> QED  BY <1>4, <1>6, StartInv

-----------------------------------------------------------------------------
(* Steps that take no frame *)

\* The allocators are where they were.
LEMMA FramesSame ==
  ASSUME FrameIInv, UNCHANGED fvars
  PROVE  FrameIInv' /\ Given' = Given
<1>1. UNCHANGED <<FRAME_ALLOC, LOW32_ALLOC, USABLE, RESV, given>>
  BY DEF fvars
<1> QED  BY <1>1 DEF FrameIInv, FrameTypeOK, NoFrameTwice, NothingReturns, PoolsApart,
                     NeverReserved, Given

\* The frame that comes next is a matter of the pools alone.
LEMMA FrameViews ==
  ASSUME UNCHANGED fvars
  PROVE  NextFrame' = NextFrame /\ allocate_frame(LOW32_ALLOC)' = allocate_frame(LOW32_ALLOC)
<1>1. /\ FRAME_ALLOC' = FRAME_ALLOC /\ LOW32_ALLOC' = LOW32_ALLOC /\ USABLE' = USABLE
      /\ RESV' = RESV
  BY DEF fvars
<1>2. Open(FRAME_ALLOC)' = Open(FRAME_ALLOC) /\ Open(LOW32_ALLOC)' = Open(LOW32_ALLOC)
  BY <1>1 DEF Open, Frames, is_reserved_page, is_reserved_range
<1>3. fallback_take_frame' = fallback_take_frame
  BY <1>1, SMTT(60) DEF fallback_take_frame, OpenRanges, allocate_frame, Open, Frames, is_reserved_page,
              is_reserved_range
<1> QED  BY <1>2, <1>3 DEF NextFrame, allocate_frame

\* The locks change hands and nothing else.
LEMMA LocksInv ==
  ASSUME IInv, UNCHANGED <<pt, tables, next, blocks, low32, job, ready, fvars>>,
         ready # "panic",
         pt_lock' \in Thread \cup {Nobody}, fa_lock' \in Thread \cup {Nobody},
         JobShape', LockShape', fa_lock \in Thread => fa_lock' = fa_lock
  PROVE  IInv'
<1>0. /\ Types /\ Alone /\ Fresh /\ Backed /\ Accounted /\ FrameIInv
  BY DEF IInv
<1>1. /\ pt' = pt /\ tables' = tables /\ NEXT_VMAP' = NEXT_VMAP /\ NEXT_MMIO_VA' = NEXT_MMIO_VA
      /\ mapped_end' = mapped_end /\ blocks' = blocks /\ low32' = low32 /\ job' = job
      /\ ready' = ready /\ UNCHANGED fvars
  BY DEF next
<1>2. FrameIInv' /\ Given' = Given
  BY <1>0, <1>1, FramesSame
<1>3. Types'
  BY <1>0, <1>1 DEF Types, MemTypeOK
<1>4. Alone'
  BY <1>0, <1>1 DEF Alone
<1>5. Fresh'
  BY <1>0, <1>1 DEF Fresh, ToMap, RangesApart, RangesTaken, NothingAbove, FrameForHole, Here
<1>6. Backed'
  BY <1>0, <1>1 DEF Backed, HeapBacked
<1>7. Accounted'
  BY <1>0, <1>1, <1>2 DEF Accounted
<1>8. PanicOnlyWhenDry'
  BY <1>1 DEF PanicOnlyWhenDry
<1> QED  BY <1>2, <1>3, <1>4, <1>5, <1>6, <1>7, <1>8 DEF IInv

\* Taking PT_LOCK keeps the invariant.
LEMMA PtLockedInv ==
  ASSUME IInv, NEW t \in Thread, pt_locked(t)
  PROVE  IInv'
<1>0. Types /\ JobShape /\ LockShape
  BY DEF IInv
<1>1. /\ ready # "panic" /\ pt_lock = Nobody /\ pt_lock' = t /\ fa_lock' = fa_lock /\ job' = job
      /\ UNCHANGED <<pt, tables, next, blocks, low32, job, ready, fvars>>
      /\ job[t].op \in Heap \/ (fa_lock = t /\ PerPage(t) /\ Framed(t))
  BY DEF pt_locked, Working, Heap
<1>2. JobShape'
  BY <1>0, <1>1 DEF JobShape, OwnFrame
<1>3. LockShape'
  BY <1>0, <1>1, NobodyIsNoThread DEF LockShape, PerPage, Framed, OwnFrame, Heap
<1>4. fa_lock' \in Thread \cup {Nobody}
  BY <1>0, <1>1 DEF Types, MemTypeOK
<1> QED  BY <1>1, <1>2, <1>3, <1>4, LocksInv

\* Taking FRAME_ALLOC keeps the invariant.
LEMMA GuardInv ==
  ASSUME IInv, NEW t \in Thread, TinyAllocGuard(t)
  PROVE  IInv'
<1>0. Types /\ JobShape /\ LockShape
  BY DEF IInv
<1>1. /\ ready = "yes" /\ fa_lock = Nobody /\ fa_lock' = t /\ pt_lock' = pt_lock /\ job' = job
      /\ UNCHANGED <<pt, tables, next, blocks, low32, job, ready, fvars>>
      /\ job[t] # Idle /\ (PerPage(t) \/ pt_lock = t)
  BY DEF TinyAllocGuard
<1>2. JobShape'
  BY <1>0, <1>1, NobodyIsNoThread DEF JobShape, OwnFrame
<1>3. LockShape'
  BY <1>0, <1>1, NobodyIsNoThread DEF LockShape, JobShape, PerPage
<1>4. pt_lock' \in Thread \cup {Nobody} /\ fa_lock \notin Thread /\ ready # "panic"
  BY <1>0, <1>1, NobodyIsNoThread DEF Types, MemTypeOK
<1> QED  BY <1>1, <1>2, <1>3, <1>4, LocksInv

\* dealloc keeps the invariant.
LEMMA DeallocInv ==
  ASSUME IInv, NEW t \in Thread, NEW b \in blocks, dealloc(t, b)
  PROVE  IInv'
<1>0. /\ Types /\ JobShape /\ LockShape /\ Alone /\ Fresh /\ Backed /\ Accounted
      /\ FrameIInv
  BY DEF IInv
<1>1. /\ pt' = pt /\ tables' = tables /\ NEXT_VMAP' = NEXT_VMAP /\ NEXT_MMIO_VA' = NEXT_MMIO_VA
      /\ mapped_end' = mapped_end /\ low32' = low32 /\ job' = job
      /\ ready' = ready /\ UNCHANGED fvars /\ pt_lock' = pt_lock /\ fa_lock' = fa_lock
      /\ blocks' = blocks \ {b} /\ ready = "yes"
  BY DEF dealloc, next, locks
<1>2. FrameIInv' /\ Given' = Given
  BY <1>0, <1>1, FramesSame
<1>3. Types'
  BY <1>0, <1>1 DEF Types, MemTypeOK
<1>4. JobShape' /\ LockShape' /\ Alone'
  BY <1>0, <1>1 DEF JobShape, LockShape, Alone, OwnFrame, PerPage
<1>5. Fresh'
  BY <1>0, <1>1 DEF Fresh, ToMap, RangesApart, RangesTaken, NothingAbove, FrameForHole, Here
<1>6. Backed'
  BY <1>0, <1>1 DEF Backed, HeapBacked
<1>7. Accounted'
  BY <1>0, <1>1, <1>2 DEF Accounted
<1>8. PanicOnlyWhenDry'
  BY <1>1 DEF PanicOnlyWhenDry
<1> QED  BY <1>2, <1>3, <1>4, <1>5, <1>6, <1>7, <1>8 DEF IInv

-----------------------------------------------------------------------------
(* A page is behind *)

\* The page that an operation is at lies in its window.
LEMMA HereInWindow ==
  ASSUME IInv, NEW t \in Thread, Working(t)
  PROVE  /\ Here(t) \in VPage /\ Here(t) = <<job[t].win, job[t].at>>
         /\ job[t] \in Job /\ job[t].op # "idle" /\ job[t].at \in 0 .. WINDOW
<1>1. Types /\ JobShape /\ LockShape
  BY DEF IInv
<1>2. job[t] \in Job
  BY <1>1 DEF Types
<1>3. job[t].win \in Window /\ job[t].at \in Nat /\ job[t].end \in Nat
  BY <1>2, JobFields
<1>4. job[t].at < job[t].end /\ fa_lock = t
  BY DEF Working
<1>5. job[t].end <= WINDOW + 1
  BY <1>1 DEF JobShape
<1>6. job[t].op # "idle"
  BY <1>1, <1>4 DEF LockShape
<1> QED  BY <1>2, <1>3, <1>4, <1>5, <1>6, SMTT(60) DEF Here, VPage

\* The job after a page.
LEMMA StepJob ==
  ASSUME Types, NEW t \in Thread
  PROVE  /\ Step(t) \in Job
         /\ Step(t).op = job[t].op /\ Step(t).win = job[t].win
         /\ Step(t).at = job[t].at + 1 /\ Step(t).end = job[t].end
         /\ Step(t).frame = None /\ Step(t).size = job[t].size /\ Step(t).old = job[t].old
<1> DEFINE j == job[t]
           k == [j EXCEPT !.at = j.at + 1, !.frame = None]
<1>1. j \in Job
  BY DEF Types
<1>2. Step(t) = k
  BY DEF Step
<1> HIDE DEF j
<1>3. /\ k.op = j.op /\ k.win = j.win /\ k.at = j.at + 1 /\ k.end = j.end
      /\ k.frame = None /\ k.size = j.size /\ k.old = j.old
  BY <1>1 DEF Job
<1>4. k \in Job
  <2>1. j.at + 1 \in Nat /\ None \in None .. TOP
    BY <1>1, JobFields, SMTT(60) DEF None
  <2> QED  BY <1>1, <2>1 DEF Job
<1> QED  BY <1>2, <1>3, <1>4 DEF j

\* The page is mapped now, whether it was before or not.
Advances(t) ==
  /\ Working(t) /\ pt_lock = t
  /\ job' = [job EXCEPT ![t] = Step(t)]
  /\ pt' \in [VPage -> -2 .. TOP] /\ pt'[Here(t)] # None
  /\ \A v \in VPage : v # Here(t) => pt'[v] = pt[v]
  /\ pt_lock' = IF PerPage(t) THEN Nobody ELSE pt_lock
  /\ UNCHANGED <<tables, next, blocks, low32, fa_lock, ready, fvars>>

\* Going on to the next page keeps the invariant, as far as it is not about
\* frames.
LEMMA AdvanceInv ==
  ASSUME IInv, NEW t \in Thread, Advances(t)
  PROVE  /\ Types' /\ JobShape' /\ LockShape' /\ Alone' /\ Fresh' /\ Backed'
         /\ PanicOnlyWhenDry' /\ FrameIInv'
<1>0. /\ Types /\ JobShape /\ LockShape /\ Alone /\ Fresh /\ Backed /\ FrameIInv
  BY DEF IInv
<1>1. /\ Working(t) /\ pt_lock = t /\ fa_lock = t /\ ready # "panic"
      /\ pt' \in [VPage -> -2 .. TOP] /\ pt'[Here(t)] # None
      /\ \A v \in VPage : v # Here(t) => pt'[v] = pt[v]
      /\ pt_lock' = IF PerPage(t) THEN Nobody ELSE pt_lock
  BY DEF Advances, Working
<1>2. /\ tables' = tables /\ NEXT_VMAP' = NEXT_VMAP /\ NEXT_MMIO_VA' = NEXT_MMIO_VA
      /\ mapped_end' = mapped_end /\ blocks' = blocks /\ low32' = low32
      /\ fa_lock' = fa_lock /\ ready' = ready /\ UNCHANGED fvars
  BY DEF Advances, next
<1>3. /\ Here(t) \in VPage /\ Here(t) = <<job[t].win, job[t].at>>
      /\ job[t] \in Job /\ job[t].op # "idle" /\ job[t].at \in 0 .. WINDOW
  BY <1>1, HereInWindow
<1>4. /\ Step(t) \in Job /\ Step(t).op = job[t].op /\ Step(t).win = job[t].win
      /\ Step(t).at = job[t].at + 1 /\ Step(t).end = job[t].end
      /\ Step(t).frame = None /\ Step(t).size = job[t].size
  BY <1>0, StepJob
<1>5. /\ job' \in [Thread -> Job] /\ job'[t] = Step(t)
      /\ \A u \in Thread : u # t => job'[u] = job[u]
  BY <1>0, <1>4 DEF Types, Advances
<1>6. \A u \in Thread : /\ job'[u].op = job[u].op /\ job'[u].win = job[u].win
                        /\ job'[u].end = job[u].end /\ job'[u].size = job[u].size
                        /\ u # t => job'[u].at = job[u].at /\ job'[u].frame = job[u].frame
  BY <1>4, <1>5
<1>7. job'[t].at = job[t].at + 1 /\ job'[t].frame = None
  BY <1>4, <1>5
<1>8. \A u \in Thread : job[u] \in Job /\ job[u].at \in Nat /\ job[u].end \in Nat
  BY <1>0, JobFields DEF Types
<1>9. \A u \in Thread : job[u].frame # None => u = t
  BY <1>0, <1>1 DEF JobShape
<1>10. job[t].at < job[t].end /\ job[t].end <= WINDOW + 1
  BY <1>0, <1>1 DEF Working, JobShape
<1>11. Types'
  <2>1. pt_lock' \in Thread \cup {Nobody}
    BY <1>1
  <2> QED  BY <1>0, <1>1, <1>2, <1>5, <2>1 DEF Types, MemTypeOK
<1>12. JobShape'
  <2>1. \A u \in Thread : job'[u].op = "idle" => job'[u] = Idle
    BY <1>0, <1>3, <1>5, <1>6 DEF JobShape
  <2>2. \A u \in Thread : job'[u].frame # None => u # t /\ job[u].frame # None
    BY <1>6, <1>7
  <2> QED  BY <1>0, <1>1, <1>2, <1>6, <1>9, <2>1, <2>2, SMTT(60) DEF JobShape
<1>13. LockShape'
  BY <1>0, <1>1, <1>2, <1>6, <1>9, NobodyIsNoThread DEF LockShape, PerPage
<1>14. Alone'
  <2>1. \A u \in Thread : job[u] = Idle => job'[u] = Idle
    BY <1>3, <1>5, IdleJob
  <2> QED  BY <1>0, <1>2, <1>6, <2>1, SMTT(60) DEF Alone
<1>15. Fresh'
  <2>1. ToMap'
    <3> SUFFICES ASSUME NEW u \in Thread, job[u].op \in {"init_heap", "vmap", "mmio"},
                        NEW i \in 0 .. WINDOW, job'[u].at <= i, i < job[u].end
                 PROVE  pt'[<<job[u].win, i>>] = None
      BY <1>6 DEF ToMap
    <3>1. job[u].win \in Window /\ <<job[u].win, i>> \in VPage
      BY <1>8, JobFields DEF VPage
    <3>2. job[u].at <= i /\ (u = t => job[u].at + 1 <= i)
      BY <1>6, <1>7, <1>8, SMTT(60)
    <3>3. pt[<<job[u].win, i>>] = None
      BY <1>0, <3>2 DEF Fresh, ToMap
    <3>4. <<job[u].win, i>> # Here(t)
      <4>1. CASE u = t
        BY <1>3, <1>8, <3>2, <4>1, SMTT(60)
      <4>2. CASE u # t
        <5>1. job[t].op # "init_heap" /\ job[u].op = "vmap"
          BY <1>0, <1>1, <1>3, <4>2, IdleJob DEF Alone, LockShape
        <5>2. CASE job[t].op = "vmap"
          BY <1>0, <1>3, <1>8, <1>10, <3>2, <4>2, <5>1, <5>2, SMTT(60) DEF Fresh, RangesApart
        <5>3. CASE job[t].op # "vmap"
          <6>1. job[t].win # "vmap" /\ job[u].win = "vmap"
            BY <1>0, <1>3, <5>1, <5>3, JobFields DEF JobShape, Op, Heap
          <6> QED  BY <1>3, <6>1, SMTT(60)
        <5> QED  BY <5>2, <5>3
      <4> QED  BY <4>1, <4>2
    <3> QED  BY <1>1, <3>1, <3>3, <3>4
  <2>2. RangesApart'
    BY <1>0, <1>6, <1>7, <1>8, SMTT(60) DEF Fresh, RangesApart
  <2>3. RangesTaken'
    BY <1>0, <1>2, <1>6 DEF Fresh, RangesTaken
  <2>4. NothingAbove'
    <3>1. NEXT_VMAP \in Nat /\ NEXT_MMIO_VA \in Nat
      BY <1>0, SMTT(60) DEF Types, MemTypeOK
    <3>2. /\ job[t].win = "vmap" => job[t].at < NEXT_VMAP
          /\ job[t].win = "mmio" => job[t].at < NEXT_MMIO_VA
      <4>1. /\ job[t].win = "vmap" => job[t].op = "vmap"
            /\ job[t].win = "mmio" => job[t].op = "mmio"
        BY <1>0, <1>3, JobFields DEF JobShape, Op, Heap
      <4>2. /\ job[t].op = "vmap" => job[t].end <= NEXT_VMAP
            /\ job[t].op = "mmio" => job[t].end <= NEXT_MMIO_VA
        BY <1>0 DEF Fresh, RangesTaken
      <4> QED  BY <1>8, <1>10, <3>1, <4>1, <4>2, SMTT(60)
    <3>3. \A i \in 0 .. WINDOW : <<"vmap", i>> \in VPage /\ <<"mmio", i>> \in VPage
      BY DEF VPage, Window
    <3>4. NothingAbove
      BY <1>0 DEF Fresh
    <3>5. ASSUME NEW i \in 0 .. WINDOW, NEXT_VMAP <= i PROVE pt'[<<"vmap", i>>] = None
      <4>1. pt[<<"vmap", i>>] = None
        BY <3>4, <3>5 DEF NothingAbove
      <4>2. <<"vmap", i>> \in VPage
        BY <3>3
      <4>3. <<"vmap", i>> # Here(t)
        BY <1>3, <3>1, <3>2, <3>5, SMTT(60)
      <4> QED  BY <1>1, <4>1, <4>2, <4>3
    <3>6. ASSUME NEW i \in 0 .. WINDOW, NEXT_MMIO_VA <= i PROVE pt'[<<"mmio", i>>] = None
      <4>1. pt[<<"mmio", i>>] = None
        BY <3>4, <3>6 DEF NothingAbove
      <4>2. <<"mmio", i>> \in VPage
        BY <3>3
      <4>3. <<"mmio", i>> # Here(t)
        BY <1>3, <3>1, <3>2, <3>6, SMTT(60)
      <4> QED  BY <1>1, <4>1, <4>2, <4>3
    <3> QED  BY <1>2, <3>5, <3>6 DEF NothingAbove
  <2>5. FrameForHole'
    BY <1>6, <1>7, <1>9 DEF FrameForHole
  <2> QED  BY <2>1, <2>2, <2>3, <2>4, <2>5 DEF Fresh
<1>16. Backed'
  <2>1. \A i \in 0 .. WINDOW : pt[<<"kheap", i>>] # None => pt'[<<"kheap", i>>] # None
    <3>1. \A i \in 0 .. WINDOW : <<"kheap", i>> \in VPage
      BY DEF VPage, Window
    <3> QED  BY <1>1, <3>1
  <2>2. HeapBacked'
    BY <1>0, <1>2, <2>1 DEF Backed, HeapBacked
  <2>3. \A u \in Thread, i \in 0 .. WINDOW :
          job[u].op \in {"init_heap", "grow"} /\ i < job'[u].at =>
            i < job[u].at \/ <<"kheap", i>> = Here(t)
    <3>1. job[t].op \in {"init_heap", "grow"} => job[t].win = "kheap"
      BY <1>0 DEF JobShape, Heap
    <3> QED  BY <1>3, <1>6, <1>7, <1>8, <3>1, SMTT(60)
  <2>4. \A u \in Thread, i \in 0 .. WINDOW :
          /\ job[u].op = "init_heap" /\ i < job'[u].at => pt'[<<"kheap", i>>] # None
          /\ job[u].op = "grow" /\ mapped_end <= i /\ i < job'[u].at => pt'[<<"kheap", i>>] # None
    <3> TAKE u \in Thread, i \in 0 .. WINDOW
    <3>1. /\ job[u].op = "init_heap" /\ i < job[u].at => pt[<<"kheap", i>>] # None
          /\ job[u].op = "grow" /\ mapped_end <= i /\ i < job[u].at => pt[<<"kheap", i>>] # None
      BY <1>0 DEF Backed
    <3> QED  BY <1>1, <2>1, <2>3, <3>1
  <2> QED  BY <1>0, <1>2, <1>6, <2>2, <2>4, SMTT(60) DEF Backed
<1>17. PanicOnlyWhenDry' /\ FrameIInv'
  BY <1>0, <1>1, <1>2, FramesSame DEF PanicOnlyWhenDry
<1> QED  BY <1>11, <1>12, <1>13, <1>14, <1>15, <1>16, <1>17

\* ensure_mapped_span goes on past a page that translates.
LEMMA SkipInv ==
  ASSUME IInv, NEW t \in Thread, SkipMapped(t)
  PROVE  IInv'
<1>0. Types /\ JobShape /\ LockShape /\ Accounted /\ FrameIInv
  BY DEF IInv
<1>1. /\ Working(t) /\ job[t].op \in Heap /\ job[t].frame = None /\ pt[Here(t)] # None
      /\ job' = [job EXCEPT ![t] = Step(t)]
      /\ pt' = pt /\ tables' = tables /\ low32' = low32 /\ UNCHANGED fvars
      /\ pt_lock' = pt_lock
      /\ UNCHANGED <<tables, next, blocks, low32, fa_lock, ready, fvars>>
  BY DEF SkipMapped, Heap, locks
<1>2. pt_lock = t /\ ~PerPage(t)
  BY <1>0, <1>1 DEF LockShape, PerPage, Working, Heap
<1>3. Advances(t)
  BY <1>0, <1>1, <1>2 DEF Advances, Types, MemTypeOK
<1>4. \A u \in Thread : job'[u].frame = job[u].frame
  BY <1>0, <1>1, StepJob DEF Types
<1>5. Given' = Given
  BY <1>0, <1>1, FramesSame
<1>6. Accounted'
  BY <1>0, <1>1, <1>4, <1>5, SMTT(60) DEF Accounted
<1> QED  BY <1>3, <1>6, AdvanceInv DEF IInv

\* What is handed out are frames.
LEMMA GivenFrames ==
  ASSUME FrameIInv
  PROVE  \A g \in Given : g \in 0 .. TOP
<1>1. given \in Seq(0 .. TOP)
  BY DEF FrameIInv, FrameTypeOK
<1> QED  BY <1>1, SMTT(60) DEF Given

\* A frame on its way to a page arrives there.
LEMMA FrameMapped ==
  ASSUME IInv, NEW t \in Thread, NEW h \in VPage, pt[h] = None,
         NEW f \in -2 .. TOP, pt' = [pt EXCEPT ![h] = f],
         f >= 0 => f = job[t].frame, f < 0 => job[t].frame = None, f # None,
         job'[t].frame = None, \A u \in Thread : u # t => job'[u].frame = job[u].frame,
         tables' = tables, low32' = low32, Given' = Given
  PROVE  Accounted'
<1>0. Types /\ JobShape /\ Accounted
  BY DEF IInv
<1>1. /\ pt'[h] = f /\ \A v \in VPage : v # h => pt'[v] = pt[v]
      /\ \A v \in VPage : pt[v] \in -2 .. TOP
  BY <1>0 DEF Types, MemTypeOK
<1>2. \A u \in Thread : job[u].frame \in -1 .. TOP
  BY <1>0, JobFields DEF Types, None
<1>3. \A u \in Thread : u # t /\ job[u].frame >= 0 => job[t].frame # job[u].frame
  BY <1>0, <1>2, SMTT(60) DEF JobShape, None
<1>4. \A x, y \in VPage : pt'[x] >= 0 /\ pt'[x] = pt'[y] => x = y
  BY <1>0, <1>1, SMTT(60) DEF Accounted
<1>5. \A x \in VPage, y \in Table : pt'[x] >= 0 => pt'[x] # tables[y]
  <2>1. \A y \in Table : f >= 0 => f # tables[y]
    BY <1>0, SMTT(60) DEF Accounted
  <2> QED  BY <1>0, <1>1, <2>1, SMTT(60) DEF Accounted
<1>6. \A x \in VPage, u \in Thread : pt'[x] >= 0 => pt'[x] # job'[u].frame
  BY <1>0, <1>1, <1>2, <1>3, SMTT(60) DEF Accounted, None
<1>7. \A y \in Table, u \in Thread : tables[y] >= 0 => tables[y] # job'[u].frame
  BY <1>0, SMTT(60) DEF Accounted, None
<1>8. \A g \in low32 : /\ \A x \in VPage : pt'[x] # g
                       /\ \A y \in Table : tables[y] # g
                       /\ \A u \in Thread : job'[u].frame # g
  <2>1. \A g \in low32 : g >= 0
    BY <1>0, SMTT(60) DEF Types, MemTypeOK
  <2> QED  BY <1>0, <1>1, <2>1, SMTT(60) DEF Accounted, None
<1>9. \A g \in Given : \/ \E x \in VPage : pt'[x] = g
                       \/ \E y \in Table : tables[y] = g
                       \/ \E u \in Thread : job'[u].frame = g
                       \/ g \in low32
  <2> SUFFICES ASSUME NEW g \in Given
               PROVE  \/ \E x \in VPage : pt'[x] = g
                      \/ \E y \in Table : tables[y] = g
                      \/ \E u \in Thread : job'[u].frame = g
                      \/ g \in low32
    OBVIOUS
  <2>0. g >= 0
    BY GivenFrames, SMTT(60) DEF IInv
  <2>1. CASE \E x \in VPage : pt[x] = g
    BY <1>1, <2>0, <2>1 DEF None
  <2>2. CASE \E u \in Thread : job[u].frame = g
    BY <1>1, <2>0, <2>2, SMTT(60) DEF None
  <2> QED  BY <1>0, <2>1, <2>2 DEF Accounted
<1>10. \A x \in VPage : pt'[x] >= 0 => pt'[x] \in Given
  BY <1>0, <1>1, SMTT(60) DEF Accounted
<1>11. \A u \in Thread : job'[u].frame >= 0 => job'[u].frame \in Given
  BY <1>0 DEF Accounted, None
<1>12. /\ \A y \in Table : tables[y] >= 0 => tables[y] \in Given
       /\ low32 \subseteq Given
       /\ \A x, y \in Table : tables[x] >= 0 /\ tables[x] = tables[y] => x = y
  BY <1>0 DEF Accounted
<1> QED  BY <1>4, <1>5, <1>6, <1>7, <1>8, <1>9, <1>10, <1>11, <1>12, SMTT(60) DEF Accounted

\* map_to keeps the invariant: it never finds a page mapped that it must not.
LEMMA MapToInv ==
  ASSUME IInv, NEW t \in Thread, map_to(t)
  PROVE  IInv'
<1>0. Types /\ JobShape /\ LockShape /\ Fresh /\ Accounted /\ FrameIInv
  BY DEF IInv
<1>1. /\ Working(t) /\ pt_lock = t /\ Framed(t)
      /\ pt_lock' = IF PerPage(t) THEN Nobody ELSE pt_lock
      /\ tables' = tables /\ low32' = low32 /\ UNCHANGED fvars
      /\ UNCHANGED <<tables, next, blocks, low32, fa_lock, fvars>>
  BY DEF map_to
<1>2. /\ Here(t) \in VPage /\ Here(t) = <<job[t].win, job[t].at>>
      /\ job[t] \in Job /\ job[t].op # "idle" /\ job[t].at \in 0 .. WINDOW
  BY <1>1, HereInWindow
<1>3. job[t].op \in Op /\ job[t].frame \in -1 .. TOP /\ job[t].at \in Nat /\ job[t].end \in Nat
  BY <1>2, JobFields DEF None
<1>4. job[t].frame # None <=> OwnFrame(t)
  BY <1>0, <1>1 DEF JobShape, Framed
<1>5. job[t].op \notin {"ident"} => pt[Here(t)] = None
  <2>1. job[t].op \in {"init_heap", "vmap", "mmio"} => pt[Here(t)] = None
    <3>1. job[t].at < job[t].end
      BY <1>1 DEF Working
    <3> QED  BY <1>0, <1>2, <1>3, <3>1, SMTT(60) DEF Fresh, ToMap
  <2>2. job[t].op \in Heap => pt[Here(t)] = None
    BY <1>0, <1>4 DEF Fresh, FrameForHole, OwnFrame, Heap
  <2> QED  BY <1>2, <1>3, <2>1, <2>2 DEF Op, Heap
<1>6. Given' = Given
  BY <1>0, <1>1, FramesSame
<1>7. CASE pt[Here(t)] = None
  <2> DEFINE f == IF OwnFrame(t) THEN job[t].frame ELSE Device
  <2>1. /\ pt' = [pt EXCEPT ![Here(t)] = f]
        /\ job' = [job EXCEPT ![t] = Step(t)] /\ ready' = ready
    BY <1>7 DEF map_to
  <2>2. /\ f \in -2 .. TOP /\ f # None
        /\ f >= 0 => f = job[t].frame
        /\ f < 0 => job[t].frame = None
    BY <1>3, <1>4, SMTT(60) DEF Device, None
  <2> HIDE DEF f
  <2>3. Advances(t)
    BY <1>0, <1>1, <1>2, <2>1, <2>2 DEF Advances, Types, MemTypeOK
  <2>4. /\ job'[t].frame = None /\ \A u \in Thread : u # t => job'[u].frame = job[u].frame
    BY <1>0, <2>1, StepJob DEF Types
  <2>5. Accounted'
    BY <1>1, <1>2, <1>6, <1>7, <2>1, <2>2, <2>4, FrameMapped
  <2> QED  BY <2>3, <2>5, AdvanceInv DEF IInv
<1>8. CASE pt[Here(t)] # None
  <2>1. job[t].op = "ident"
    BY <1>5, <1>8
  <2>2. job' = [job EXCEPT ![t] = Step(t)] /\ pt' = pt /\ ready' = ready
    BY <1>8, <2>1 DEF map_to
  <2>3. Advances(t)
    BY <1>0, <1>1, <1>8, <2>2 DEF Advances, Types, MemTypeOK
  <2>4. \A u \in Thread : job'[u].frame = job[u].frame
    BY <1>0, <1>4, <2>1, <2>2, StepJob DEF Types, OwnFrame
  <2>5. Accounted'
    BY <1>0, <1>1, <1>6, <2>2, <2>4, SMTT(60) DEF Accounted
  <2> QED  BY <2>3, <2>5, AdvanceInv DEF IInv
<1> QED  BY <1>7, <1>8

-----------------------------------------------------------------------------
(* Where a frame goes *)

\* A step that takes a frame for a table or a low page, or panics for want of
\* one, keeps the rest of the invariant.
LEMMA TakenInv ==
  ASSUME IInv, UNCHANGED <<pt, next, blocks, job, locks>>,
         tables' \in [Table -> -2 .. TOP], low32' \subseteq 0 .. TOP,
         ready' \in {ready, "panic"}, Accounted', PanicOnlyWhenDry', FrameIInv'
  PROVE  IInv'
<1>0. Types /\ JobShape /\ LockShape /\ Alone /\ Fresh /\ Backed
  BY DEF IInv
<1>1. /\ pt' = pt /\ NEXT_VMAP' = NEXT_VMAP /\ NEXT_MMIO_VA' = NEXT_MMIO_VA
      /\ mapped_end' = mapped_end /\ blocks' = blocks /\ job' = job
      /\ pt_lock' = pt_lock /\ fa_lock' = fa_lock
  BY DEF next, locks
<1>2. Types'
  BY <1>0, <1>1 DEF Types, MemTypeOK
<1>3. JobShape'
  BY <1>0, <1>1 DEF JobShape, OwnFrame
<1>4. LockShape'
  BY <1>0, <1>1 DEF LockShape, PerPage
<1>5. Alone'
  BY <1>0, <1>1 DEF Alone
<1>6. Fresh'
  BY <1>0, <1>1 DEF Fresh, ToMap, RangesApart, RangesTaken, NothingAbove, FrameForHole, Here
<1>7. Backed'
  BY <1>0, <1>1 DEF Backed, HeapBacked
<1> QED  BY <1>2, <1>3, <1>4, <1>5, <1>6, <1>7 DEF IInv

\* A new frame becomes a page table.
LEMMA FrameTabled ==
  ASSUME IInv, NEW c \in Table, tables[c] = None, NEW r \in 0 .. TOP, r \notin Given,
         Given' = Given \cup {r}, tables' = [tables EXCEPT ![c] = r],
         pt' = pt, job' = job, low32' = low32
  PROVE  Accounted'
<1>0. Types /\ Accounted
  BY DEF IInv
<1>1. /\ tables'[c] = r /\ \A y \in Table : y # c => tables'[y] = tables[y]
      /\ \A y \in Table : tables[y] \in -2 .. TOP
  BY <1>0 DEF Types, MemTypeOK
<1>2. /\ \A x \in VPage : pt[x] # r
      /\ \A y \in Table : tables[y] # r
      /\ \A u \in Thread : job[u].frame # r
      /\ r \notin low32
  BY <1>0, SMTT(60) DEF Accounted
<1>3. \A x, y \in Table : tables'[x] >= 0 /\ tables'[x] = tables'[y] => x = y
  BY <1>0, <1>1, <1>2, SMTT(60) DEF Accounted
<1>4. \A x \in VPage, y \in Table : pt[x] >= 0 => pt[x] # tables'[y]
  BY <1>0, <1>1, <1>2, SMTT(60) DEF Accounted
<1>5. \A y \in Table, u \in Thread : tables'[y] >= 0 => tables'[y] # job[u].frame
  BY <1>0, <1>1, <1>2, SMTT(60) DEF Accounted
<1>6. \A f \in low32 : /\ \A x \in VPage : pt[x] # f
                       /\ \A y \in Table : tables'[y] # f
                       /\ \A u \in Thread : job[u].frame # f
  BY <1>0, <1>1, <1>2, SMTT(60) DEF Accounted
<1>7. \A f \in Given \cup {r} : \/ \E x \in VPage : pt[x] = f
                                \/ \E y \in Table : tables'[y] = f
                                \/ \E u \in Thread : job[u].frame = f
                                \/ f \in low32
  <2> SUFFICES ASSUME NEW f \in Given, NEW y \in Table, tables[y] = f
               PROVE  tables'[y] = f
    BY <1>0, <1>1 DEF Accounted
  <2>1. f >= 0
    BY GivenFrames, SMTT(60) DEF IInv
  <2> QED  BY <1>1, <2>1, SMTT(60) DEF None
<1>8. \A y \in Table : tables'[y] >= 0 => tables'[y] \in Given \cup {r}
  BY <1>0, <1>1 DEF Accounted
<1> QED  BY <1>0, <1>3, <1>4, <1>5, <1>6, <1>7, <1>8, SMTT(60) DEF Accounted

\* A frame that is new becomes the one that waits for its page.
LEMMA FrameKept ==
  ASSUME IInv, FrameIInv', NEW t \in Thread, Working(t), OwnFrame(t), job[t].frame = None,
         job[t].op \in Heap => pt[Here(t)] = None,
         NEW r \in 0 .. TOP, r \notin Given, Given' = Given \cup {r},
         job' = [job EXCEPT ![t].frame = r],
         UNCHANGED <<pt, tables, next, blocks, low32, locks, ready>>
  PROVE  IInv'
<1>0. /\ Types /\ JobShape /\ LockShape /\ Alone /\ Fresh /\ Backed /\ Accounted /\ FrameIInv
  BY DEF IInv
<1>1. ready # "panic" /\ fa_lock = t /\ job[t].at < job[t].end
  BY DEF Working
<1>2. /\ pt' = pt /\ tables' = tables /\ NEXT_VMAP' = NEXT_VMAP /\ NEXT_MMIO_VA' = NEXT_MMIO_VA
      /\ mapped_end' = mapped_end /\ blocks' = blocks /\ low32' = low32 /\ pt_lock' = pt_lock
      /\ fa_lock' = fa_lock /\ ready' = ready
  BY DEF next, locks
<1>3. job[t] \in Job /\ job[t].op \in Op
  BY <1>0, JobFields DEF Types
<1> DEFINE k == [job[t] EXCEPT !.frame = r]
<1>4. k \in Job
  <2>1. r \in None .. TOP
    BY SMTT(60) DEF None
  <2> QED  BY <1>3, <2>1 DEF Job
<1>5. /\ k.op = job[t].op /\ k.win = job[t].win /\ k.at = job[t].at /\ k.end = job[t].end
      /\ k.frame = r /\ k.size = job[t].size
  BY <1>3 DEF Job
<1>6. job' = [job EXCEPT ![t] = k]
  BY <1>2
<1> HIDE DEF k
<1>7. /\ job' \in [Thread -> Job] /\ job'[t] = k
      /\ \A u \in Thread : u # t => job'[u] = job[u]
  BY <1>0, <1>4, <1>6 DEF Types
<1>8. Types'
  BY <1>0, <1>2, <1>7 DEF Types, MemTypeOK
<1>9. JobShape'
  <2>1. job[t] # Idle /\ job[t].op # "idle"
    BY <1>1, <1>0, IdleJob DEF OwnFrame
  <2> QED  BY <1>0, <1>1, <1>2, <1>5, <1>7, <2>1, SMTT(60) DEF JobShape, OwnFrame
<1>10. LockShape'
  BY <1>0, <1>1, <1>2, <1>5, <1>7 DEF LockShape, PerPage
<1>11. Alone'
  <2>1. job[t] # Idle
    BY <1>1, IdleJob DEF OwnFrame
  <2> QED  BY <1>0, <1>2, <1>5, <1>7, <2>1, SMTT(60) DEF Alone
<1>12. Fresh'
  <2>1. ToMap'
    BY <1>0, <1>2, <1>5, <1>7, SMTT(60) DEF Fresh, ToMap
  <2>2. RangesApart'
    BY <1>0, <1>2, <1>5, <1>7, SMTT(60) DEF Fresh, RangesApart
  <2>3. RangesTaken'
    BY <1>0, <1>2, <1>5, <1>7 DEF Fresh, RangesTaken
  <2>4. NothingAbove'
    BY <1>0, <1>2 DEF Fresh, NothingAbove
  <2>5. FrameForHole'
    BY <1>0, <1>1, <1>2, <1>5, <1>7 DEF Fresh, FrameForHole, Here
  <2> QED  BY <2>1, <2>2, <2>3, <2>4, <2>5 DEF Fresh
<1>13. Backed'
  BY <1>0, <1>2, <1>5, <1>7, SMTT(60) DEF Backed, HeapBacked
<1>14. Accounted'
  <2>1. /\ \A x \in VPage : pt[x] # r
        /\ \A y \in Table : tables[y] # r
        /\ \A u \in Thread : job[u].frame # r
        /\ r \notin low32
    BY <1>0, SMTT(60) DEF Accounted
  <2>2. /\ \A u \in Thread : u # t => job'[u].frame = job[u].frame
        /\ job'[t].frame = r
    BY <1>5, <1>7
  <2>3. \A x \in VPage, u \in Thread : pt[x] >= 0 => pt[x] # job'[u].frame
    BY <1>0, <2>1, <2>2, SMTT(60) DEF Accounted
  <2>4. \A y \in Table, u \in Thread : tables[y] >= 0 => tables[y] # job'[u].frame
    BY <1>0, <2>1, <2>2, SMTT(60) DEF Accounted
  <2>5. \A f \in low32, u \in Thread : job'[u].frame # f
    BY <1>0, <2>1, <2>2, SMTT(60) DEF Accounted
  <2>6. \A f \in Given \cup {r} : \/ \E x \in VPage : pt[x] = f
                                  \/ \E y \in Table : tables[y] = f
                                  \/ \E u \in Thread : job'[u].frame = f
                                  \/ f \in low32
    <3> SUFFICES ASSUME NEW f \in Given, NEW u \in Thread, job[u].frame = f
                 PROVE  job'[u].frame = f
      BY <1>0, <2>2 DEF Accounted
    <3>1. f >= 0
      BY <1>0, GivenFrames, SMTT(60)
    <3> QED  BY <1>1, <2>2, <3>1, SMTT(60) DEF None
  <2>7. \A u \in Thread : job'[u].frame >= 0 => job'[u].frame \in Given \cup {r}
    BY <1>0, <2>2 DEF Accounted
  <2> QED  BY <1>0, <1>2, <2>3, <2>4, <2>5, <2>6, <2>7, SMTT(60) DEF Accounted
<1>15. PanicOnlyWhenDry'
  BY <1>1, <1>2 DEF PanicOnlyWhenDry
<1> QED  BY <1>8, <1>9, <1>10, <1>11, <1>12, <1>13, <1>14, <1>15 DEF IInv

\* vmap_alloc_pages gives up: it has no frame, and drops its locks.
LEMMA GivesUp ==
  ASSUME IInv, FrameIInv', NEW t \in Thread, Working(t), job[t].op = "vmap", job[t].frame = None,
         job' = [job EXCEPT ![t] = Idle], fa_lock' = Nobody, ready' = ready, Given' = Given,
         UNCHANGED <<pt, tables, next, blocks, low32, pt_lock>>
  PROVE  IInv'
<1>0. /\ Types /\ JobShape /\ LockShape /\ Alone /\ Fresh /\ Backed /\ Accounted
  BY DEF IInv
<1>1. ready # "panic" /\ fa_lock = t
  BY DEF Working
<1>2. /\ pt' = pt /\ tables' = tables /\ NEXT_VMAP' = NEXT_VMAP /\ NEXT_MMIO_VA' = NEXT_MMIO_VA
      /\ mapped_end' = mapped_end /\ blocks' = blocks /\ low32' = low32 /\ pt_lock' = pt_lock
  BY DEF next
<1>3. /\ job' \in [Thread -> Job] /\ job'[t] = Idle
      /\ \A u \in Thread : u # t => job'[u] = job[u]
  BY <1>0, <1>2, IdleJob DEF Types
<1>4. fa_lock' = Nobody /\ ready' = ready /\ Given' = Given
  BY <1>2
<1>5. pt_lock # t
  BY <1>0, <1>1 DEF LockShape, PerPage
<1>6. \A u \in Thread : u # t => job[u].frame = None /\ fa_lock # u
  BY <1>0, <1>1 DEF JobShape
<1>7. \A u \in Thread : job[u].op # "init_heap"
  BY <1>0, IdleJob DEF Alone
<1>8. Types'
  BY <1>0, <1>2, <1>3, <1>4 DEF Types, MemTypeOK
<1>9. JobShape'
  BY <1>0, <1>3, <1>6, IdleJob, SMTT(60) DEF JobShape, OwnFrame, Heap
<1>10. LockShape'
  BY <1>0, <1>2, <1>3, <1>4, <1>5, <1>6, IdleJob, NobodyIsNoThread DEF LockShape, PerPage
<1>11. Alone'
  BY <1>0, <1>3, <1>4, <1>7, IdleJob DEF Alone, Heap
<1>12. Fresh'
  <2>1. ToMap'
    BY <1>0, <1>2, <1>3, IdleJob, SMTT(60) DEF Fresh, ToMap
  <2>2. RangesApart'
    BY <1>0, <1>2, <1>3, IdleJob DEF Fresh, RangesApart
  <2>3. RangesTaken'
    BY <1>0, <1>2, <1>3, IdleJob DEF Fresh, RangesTaken
  <2>4. NothingAbove'
    BY <1>0, <1>2, SMTT(60) DEF Fresh, NothingAbove
  <2>5. FrameForHole'
    BY <1>3, <1>6, IdleJob DEF FrameForHole
  <2> QED  BY <2>1, <2>2, <2>3, <2>4, <2>5 DEF Fresh
<1>13. Backed'
  BY <1>0, <1>2, <1>3, <1>4, IdleJob DEF Backed, HeapBacked
<1>14. Accounted'
  <2>1. \A u \in Thread : job'[u].frame = job[u].frame
    BY <1>1, <1>3, IdleJob
  <2> QED  BY <1>0, <1>2, <1>4, <2>1, SMTT(60) DEF Accounted
<1>15. PanicOnlyWhenDry'
  BY <1>1, <1>4 DEF PanicOnlyWhenDry
<1> QED  BY <1>8, <1>9, <1>10, <1>11, <1>12, <1>13, <1>14, <1>15 DEF IInv

-----------------------------------------------------------------------------
(* The start *)

\* The initial states: nothing is handed out and init_heap has its pages to map.
LEMMA InitInv == Init => IInv
<1> SUFFICES ASSUME Init PROVE IInv
  OBVIOUS
<1> DEFINE h == Pages("init_heap", "kheap", 0, KHEAP_PAGES)
<1>1. /\ h \in Job /\ h.op = "init_heap" /\ h.win = "kheap" /\ h.at = 0 /\ h.end = KHEAP_PAGES
      /\ h.frame = None
  BY SMTT(60) DEF Pages, Job, Op, Window, None, NoBlock
<1>2. /\ job \in [Thread -> Job] /\ fa_lock \in Thread /\ job[fa_lock] = h
      /\ \A u \in Thread : u # fa_lock => job[u] = Idle
  BY <1>1, IdleJob DEF Init
<1> HIDE DEF h
<1>3. /\ pt \in [VPage -> -2 .. TOP] /\ \A v \in VPage : pt[v] < 0
      /\ \A v \in VPage : v[1] # "ident" => pt[v] = None
  BY SMTT(60) DEF Init, Device, None
<1>4. /\ tables \in [Table -> -2 .. TOP] /\ \A y \in Table : tables[y] < 0
  BY SMTT(60) DEF Init, Device, None
<1>5. /\ NEXT_VMAP = 0 /\ NEXT_MMIO_VA = 0 /\ mapped_end = 0 /\ blocks = {} /\ low32 = {}
      /\ pt_lock = Nobody /\ ready = "no"
  BY DEF Init
<1>6. Types
  BY <1>2, <1>3, <1>4, <1>5, SMTT(60) DEF Types, MemTypeOK
<1>7. JobShape
  BY <1>1, <1>2, IdleJob, SMTT(60) DEF JobShape, OwnFrame, Heap
<1>8. LockShape
  BY <1>1, <1>2, <1>5, IdleJob, NobodyIsNoThread DEF LockShape, PerPage
<1>9. Alone
  BY <1>1, <1>2, <1>5, IdleJob DEF Alone, Heap
<1>10. Fresh
  <2>1. \A w \in Window \ {"ident"}, i \in 0 .. WINDOW : pt[<<w, i>>] = None
    BY <1>3 DEF VPage
  <2>2. ToMap
    BY <1>1, <1>2, <2>1, IdleJob DEF ToMap, Window
  <2>3. RangesApart /\ RangesTaken
    BY <1>1, <1>2, IdleJob DEF RangesApart, RangesTaken
  <2>4. NothingAbove
    BY <2>1 DEF NothingAbove, Window
  <2>5. FrameForHole
    BY <1>1, <1>2, IdleJob DEF FrameForHole
  <2> QED  BY <2>2, <2>3, <2>4, <2>5 DEF Fresh
<1>11. Backed
  BY <1>1, <1>2, <1>5, IdleJob, SMTT(60) DEF Backed, HeapBacked
<1>12. Given = {}
  BY SMTT(60) DEF Init, Given
<1>13. Accounted
  <2>1. \A u \in Thread : job[u].frame = None
    BY <1>1, <1>2, IdleJob
  <2>2. \A x \in VPage : ~(pt[x] >= 0)
    BY <1>3, SMTT(60)
  <2>3. \A y \in Table : ~(tables[y] >= 0)
    BY <1>4, SMTT(60)
  <2> QED  BY <1>5, <1>12, <2>1, <2>2, <2>3, SMTT(60) DEF Accounted, None
<1>14. PanicOnlyWhenDry
  BY <1>5 DEF PanicOnlyWhenDry
<1>15. FrameIInv
  <2>1. /\ FRAME_ALLOC = Pools0.frame /\ LOW32_ALLOC = Pools0.low32
        /\ USABLE = Pools0.usable /\ RESV = Pools0.resv /\ given = << >> /\ DOMAIN given = {}
    BY SMTT(60) DEF Init
  <2>2. FrameTypeOK
    BY <2>1, MemoryConstants, SMTT(60) DEF FrameTypeOK
  <2>3. PoolsApart
    BY <2>1, PoolsHandedOver DEF PoolsApart
  <2> QED  BY <2>1, <2>2, <2>3 DEF FrameIInv, NoFrameTwice, NothingReturns, NeverReserved
<1> QED
  BY <1>6, <1>7, <1>8, <1>9, <1>10, <1>11, <1>13, <1>14, <1>15 DEF IInv

-----------------------------------------------------------------------------
(* What the invariant says *)

\* Pair by pair or place by place, the frames are accounted for.
LEMMA AccountedFor == IInv => FramesAccounted
<1> SUFFICES ASSUME IInv PROVE FramesAccounted
  OBVIOUS
<1>0. Types /\ JobShape /\ Accounted /\ FrameIInv
  BY DEF IInv
<1>1. \A t \in Thread : job[t].frame >= 0 => fa_lock = t
  BY <1>0, SMTT(60) DEF JobShape, None
<1>2. /\ \A v \in VPage : FrameAt(<<"page", v>>) = pt[v]
      /\ \A y \in Table : FrameAt(<<"table", y>>) = tables[y]
      /\ \A t \in Thread : FrameAt(<<"pending", t>>) = job[t].frame
      /\ \A f \in low32 : FrameAt(<<"low32", f>>) = f
  BY DEF FrameAt
<1>3. ASSUME NEW p \in Places
      PROVE  \/ \E v \in VPage : p = <<"page", v>> /\ pt[v] >= 0
             \/ \E y \in Table : p = <<"table", y>> /\ tables[y] >= 0
             \/ \E t \in Thread : p = <<"pending", t>> /\ job[t].frame >= 0
             \/ \E f \in low32 : p = <<"low32", f>>
  BY DEF Places
<1>4. /\ \A v \in VPage : pt[v] >= 0 => <<"page", v>> \in Places
      /\ \A y \in Table : tables[y] >= 0 => <<"table", y>> \in Places
      /\ \A t \in Thread : job[t].frame >= 0 => <<"pending", t>> \in Places
      /\ \A f \in low32 : <<"low32", f>> \in Places
  BY DEF Places
<1>5. ASSUME NEW p \in Places, NEW q \in Places, FrameAt(p) = FrameAt(q)
      PROVE  p = q
  <2>1. CASE \E v \in VPage : p = <<"page", v>> /\ pt[v] >= 0
    BY <1>0, <1>2, <1>3, <1>5, <2>1, SMTT(60) DEF Accounted
  <2>2. CASE \E y \in Table : p = <<"table", y>> /\ tables[y] >= 0
    BY <1>0, <1>2, <1>3, <1>5, <2>2, SMTT(60) DEF Accounted
  <2>3. CASE \E t \in Thread : p = <<"pending", t>> /\ job[t].frame >= 0
    BY <1>0, <1>1, <1>2, <1>3, <1>5, <2>3, SMTT(60) DEF Accounted
  <2>4. CASE \E f \in low32 : p = <<"low32", f>>
    BY <1>0, <1>2, <1>3, <1>5, <2>4, SMTT(60) DEF Accounted
  <2> QED  BY <1>3, <2>1, <2>2, <2>3, <2>4
<1>6. ASSUME NEW p \in Places PROVE FrameAt(p) \in Given
  BY <1>0, <1>2, <1>3, SMTT(60) DEF Accounted
<1>7. ASSUME NEW g \in Given PROVE \E p \in Places : FrameAt(p) = g
  <2>1. g >= 0
    BY <1>0, GivenFrames, SMTT(60)
  <2>2. CASE \E x \in VPage : pt[x] = g
    BY <1>2, <1>4, <2>1, <2>2
  <2>3. CASE \E y \in Table : tables[y] = g
    BY <1>2, <1>4, <2>1, <2>3
  <2>4. CASE \E t \in Thread : job[t].frame = g
    BY <1>2, <1>4, <2>1, <2>4
  <2>5. CASE g \in low32
    BY <1>2, <1>4, <2>5
  <2> QED  BY <1>0, <2>2, <2>3, <2>4, <2>5 DEF Accounted
<1>8. {FrameAt(p) : p \in Places} = Given
  BY <1>6, <1>7
<1> QED  BY <1>5, <1>8 DEF FramesAccounted, Given

\* Of two threads that wait for each other, the one with FRAME_ALLOC is in
\* vmap_alloc_pages: init_heap runs alone, and the others have PT_LOCK first.
LEMMA CycleIsVmap == IInv => CycleNeedsVmap
<1> SUFFICES ASSUME IInv, NEW t \in Thread, NEW u \in Thread,
                    fa_lock = t, WaitsPt(t), pt_lock = u, WaitsFa(u)
             PROVE  job[t].op = "vmap"
  BY DEF CycleNeedsVmap
<1>0. LockShape /\ Alone
  BY DEF IInv
<1>1. PerPage(t)
  BY <1>0 DEF LockShape, WaitsPt
<1>2. t # u /\ job[u] # Idle
  BY DEF WaitsFa
<1>3. job[t].op # "init_heap"
  BY <1>0, <1>2 DEF Alone
<1> QED  BY <1>1, <1>3 DEF PerPage


-----------------------------------------------------------------------------
(* Pages, and the start of an operation on the heap *)

\* An address rounded down is the start of its page; the page after the end of a
\* span that lies below n pages is at most page n.
LEMMA PageOfAddress ==
  ASSUME NEW x \in Nat, NEW n \in Nat
  PROVE  /\ align_down(x) \div PAGE = x \div PAGE /\ x \div PAGE \in Nat
         /\ align_up(x) \div PAGE \in Nat
         /\ x <= n * PAGE => align_up(x) \div PAGE <= n
<1>1. \A y \in Nat : /\ align_down(y) \div PAGE = y \div PAGE /\ y \div PAGE \in Nat
                      /\ PAGE * (y \div PAGE) <= y
  <2> TAKE y \in Nat
  <2> DEFINE q == y \div PAGE
             r == y % PAGE
  <2>1. q \in Int /\ r \in 0 .. (PAGE - 1) /\ y = PAGE * q + r
    BY DivMod, SMTT(60)
  <2>2. align_down(y) = y - r
    BY DEF align_down
  <2> HIDE DEF q, r
  <2>3. align_down(y) = PAGE * q /\ PAGE * q <= y
    BY <2>1, <2>2, SMTT(60)
  <2>4. (PAGE * q) \div PAGE = q
    BY <2>1, Multiple
  <2>5. q >= 0
    <3>1. PAGE * q > -PAGE
      BY <2>1, SMTT(60)
    <3>2. \A k \in Int : PAGE * k > -PAGE => k >= 0
      BY SMTT(60)
    <3> QED  BY <2>1, <3>1, <3>2
  <2> QED  BY <2>1, <2>3, <2>4, <2>5, SMTT(60) DEF q
<1> DEFINE z == x + PAGE - 1
           d == z \div PAGE
<1>2. z \in Nat
  BY SMTT(60)
<1>3. align_up(x) = align_down(z)
  BY DEF align_up
<1> HIDE DEF z
<1>4. align_up(x) \div PAGE = d /\ d \in Nat /\ PAGE * d <= z
  BY <1>1, <1>2, <1>3
<1>5. ASSUME x <= n * PAGE PROVE d <= n
  <2>1. PAGE * d < PAGE * (n + 1)
    <3>1. n * PAGE + PAGE = PAGE * (n + 1)
      BY SMTT(60)
    <3> HIDE DEF d
    <3>2. z < n * PAGE + PAGE
      BY <1>5, SMTT(60) DEF z
    <3> QED  BY <1>2, <1>4, <3>1, <3>2, SMTT(60)
  <2>2. \A k, l \in Int : PAGE * k < PAGE * l => k < l
    BY SMTT(60)
  <2> HIDE DEF d
  <2> QED  BY <1>4, <2>1, <2>2, SMTT(60)
<1> HIDE DEF d
<1> QED  BY <1>1, <1>4, <1>5

\* The start of page n is its own rounding, both ways.
LEMMA PageStart ==
  ASSUME NEW n \in Nat
  PROVE  align_down(n * PAGE) \div PAGE = n /\ align_up(n * PAGE) \div PAGE = n
<1> DEFINE x == n * PAGE
<1>1. x \in Nat /\ x = PAGE * n /\ x <= n * PAGE
  BY SMTT(60)
<1>2. x \div PAGE = n
  BY <1>1, Multiple, SMTT(60)
<1> HIDE DEF x
<1>3. /\ align_down(x) \div PAGE = x \div PAGE /\ align_up(x) \div PAGE \in Nat
      /\ align_up(x) \div PAGE <= n
  BY <1>1, PageOfAddress
<1>4. n <= align_up(x) \div PAGE
  <2> DEFINE z == x + PAGE - 1
             d == z \div PAGE
  <2>1. z \in Nat /\ align_up(x) = align_down(z) /\ z = x + PAGE - 1
    BY <1>1, SMTT(60) DEF align_up
  <2> HIDE DEF z
  <2>2. d \in Int /\ z % PAGE \in 0 .. (PAGE - 1) /\ z = PAGE * d + (z % PAGE)
    <3>1. z \in Int
      BY <2>1, SMTT(60)
    <3> QED  BY <3>1, DivMod
  <2>3. align_up(x) \div PAGE = d
    BY <2>1, PageOfAddress
  <2> HIDE DEF d
  <2>4. PAGE * n < PAGE * (d + 1)
    <3>1. PAGE * (d + 1) = PAGE * d + PAGE
      BY <2>2, SMTT(60)
    <3> QED  BY <1>1, <2>1, <2>2, <3>1, SMTT(60)
  <2>5. \A k, l \in Int : PAGE * k < PAGE * l => k < l
    BY SMTT(60)
  <2> QED  BY <2>2, <2>3, <2>4, <2>5, SMTT(60)
<1> QED  BY <1>2, <1>3, <1>4, SMTT(60) DEF x

\* The pages of a block lie in the window of the heap (ensure_mapped_span).
LEMMA SpanInHeap ==
  ASSUME NEW a \in Nat, NEW size \in Nat, a + size <= KHEAP_PAGES * PAGE
  PROVE  /\ align_down(a) \div PAGE \in Nat /\ align_up(a + size) \div PAGE \in Nat
         /\ align_up(a + size) \div PAGE <= KHEAP_PAGES
<1>1. KHEAP_PAGES \in Nat /\ a + size \in Nat
  BY MemoryConstants, SMTT(60)
<1>2. align_down(a) \div PAGE \in Nat
  BY PageOfAddress
<1> QED  BY <1>1, <1>2, PageOfAddress

\* The hole that a search finds lies in the window of the heap.
LEMMA HoleInHeap ==
  ASSUME NEW size \in Nat, Holes(size) # {}
  PROVE  /\ Min(Holes(size)) \in Nat /\ Min(Holes(size)) + size <= KHEAP_PAGES * PAGE
<1>1. KHEAP_PAGES * PAGE \in Nat
  BY SMTT(60)
<1>2. Holes(size) \in SUBSET Nat
  BY <1>1, SMTT(60) DEF Holes
<1>3. Min(Holes(size)) \in Holes(size)
  BY <1>2, MinIn
<1> QED  BY <1>1, <1>3, SMTT(60) DEF Holes

\* What a first fit of size bytes yields: a job for the pages under the hole it
\* takes, and a block inside the heap.
Fits(size, old) ==
  LET a == Min(Holes(size))
      j == ensure_mapped_span("fit", a, a + size, size, old)
  IN  /\ j \in Job /\ j.op = "fit" /\ j.win = "kheap" /\ j.frame = None
      /\ j.size = size /\ j.end <= WINDOW + 1
      /\ Block(a, size) \in [start : Nat, end : Nat]
      /\ Block(a, size).start < Block(a, size).end
      /\ Block(a, size).end <= KHEAP_PAGES * PAGE

\* The job that maps the span of a block (ensure_mapped_span).
LEMMA FitJob ==
  ASSUME NEW size \in Nat \ {0}, Holes(size) # {}, NEW old \in [start : Nat, end : Nat]
  PROVE  Fits(size, old)
<1> DEFINE a == Min(Holes(size))
           lo == align_down(a) \div PAGE
           hi == align_up(a + size) \div PAGE
<1>0. size \in Nat
  OBVIOUS
<1>1. a \in Nat /\ a + size <= KHEAP_PAGES * PAGE
  BY HoleInHeap
<1> HIDE DEF a
<1>2. lo \in Nat /\ hi \in Nat /\ hi <= KHEAP_PAGES
  BY <1>0, <1>1, SpanInHeap
<1> HIDE DEF lo, hi
<1>3. ensure_mapped_span("fit", a, a + size, size, old)
        = [op |-> "fit", win |-> "kheap", at |-> lo, end |-> hi, frame |-> None,
           size |-> size, old |-> old]
  BY DEF ensure_mapped_span, lo, hi
<1>4. ensure_mapped_span("fit", a, a + size, size, old) \in Job
  BY <1>2, <1>3, SMTT(60) DEF Job, Op, Window, None
<1> QED  BY <1>1, <1>2, <1>3, <1>4, SMTT(60) DEF Block, a, Fits

\* alloc keeps the invariant.
LEMMA AllocInv ==
  ASSUME IInv, NEW t \in Thread, NEW size \in Sizes, NEW old \in blocks \cup {NoBlock},
         alloc(t, size, old)
  PROVE  IInv'
<1>1. Types
  BY DEF IInv
<1>2. size \in Nat \ {0} /\ old \in [start : Nat, end : Nat] /\ mapped_end \in Nat
  BY <1>1, MemoryConstants, SMTT(60) DEF Types, MemTypeOK, NoBlock
<1>3. HeapFree /\ UNCHANGED <<pt, tables, next, low32, locks, ready, fvars>>
  BY DEF alloc
<1>4. CASE Holes(size) # {}
  <2> DEFINE a == Min(Holes(size))
             j == ensure_mapped_span("fit", a, a + size, size, old)
  <2>1. Begins(t, j) /\ blocks' = blocks \cup {Block(a, size)}
    BY <1>4 DEF alloc
  <2>2. /\ j \in Job /\ j.op = "fit" /\ j.win = "kheap" /\ j.frame = None
        /\ j.size = size /\ j.end <= WINDOW + 1
        /\ Block(a, size) \in [start : Nat, end : Nat]
        /\ Block(a, size).start < Block(a, size).end
        /\ Block(a, size).end <= KHEAP_PAGES * PAGE
    <3>1. Fits(size, old)
      BY <1>2, <1>4, FitJob
    <3> QED  BY <3>1 DEF Fits
  <2> HIDE DEF j, a
  <2>3. Starts(t, j)
    BY <1>1, <1>2, <1>3, <2>1, <2>2 DEF Starts, Types, MemTypeOK, Op, Heap, locks, next
  <2> QED  BY <2>2, <2>3, StartInv
<1>5. CASE Holes(size) = {}
  <2> DEFINE j == ensure_mapped_span("grow", mapped_end * PAGE, (mapped_end + GROW) * PAGE, size, old)
  <2>1. Begins(t, j) /\ UNCHANGED blocks /\ mapped_end + GROW <= WINDOW + 1
    BY <1>5 DEF alloc
  <2>2. mapped_end + GROW \in Nat
    BY <1>2, SMTT(60)
  <2>3. /\ align_down(mapped_end * PAGE) \div PAGE = mapped_end
        /\ align_up((mapped_end + GROW) * PAGE) \div PAGE = mapped_end + GROW
    BY <1>2, <2>2, PageStart
  <2>4. j = [op |-> "grow", win |-> "kheap", at |-> mapped_end, end |-> mapped_end + GROW,
             frame |-> None, size |-> size, old |-> old]
    BY <2>3 DEF ensure_mapped_span
  <2>5. j \in Job
    BY <1>2, <2>2, <2>4, SMTT(60) DEF Job, Op, Window, None
  <2> HIDE DEF j
  <2>6. Starts(t, j)
    BY <1>1, <1>2, <1>3, <2>1, <2>4 DEF Starts, Types, MemTypeOK, Op, Heap, locks, next
  <2> QED  BY <2>5, <2>6, StartInv
<1> QED  BY <1>4, <1>5

-----------------------------------------------------------------------------
(* Taking a frame *)

\* An allocation that gives a frame gives a new one.
LEMMA FrameGiven ==
  ASSUME FrameIInv, FrameIInv', NEW r, Gives(r)
  PROVE  /\ r # None => r \in 0 .. TOP /\ r \notin Given /\ Given' = Given \cup {r}
         /\ r = None => given' = given /\ Given' = Given
<1>1. CASE r # None
  <2>1. given' = Append(given, r)
    BY <1>1 DEF Gives
  <2> QED  BY <1>1, <2>1, TakesFresh
<1>2. CASE r = None
  BY <1>2 DEF Gives, Given
<1> QED  BY <1>1, <1>2

\* alloc_one_phys_page_hhdm keeps the invariant.
LEMMA LowPageInv ==
  ASSUME IInv, NEW t \in Thread, alloc_one_phys_page_hhdm(t)
  PROVE  IInv'
<1> DEFINE f == allocate_frame(LOW32_ALLOC)
<1>0. Types /\ Accounted /\ FrameIInv
  BY DEF IInv
<1>1. /\ TakeLow32 /\ Gives(f) /\ pt' = pt /\ tables' = tables /\ job' = job
      /\ UNCHANGED <<pt, next, blocks, job, locks>>
      /\ ready = "yes"
      /\ f = None => ready' = "panic" /\ low32' = low32
      /\ f # None => low32' = low32 \cup {f} /\ ready' = ready
  BY DEF alloc_one_phys_page_hhdm, TakeLow32
<1>2. FrameIInv'
  BY <1>0, <1>1, Low32Inv
<1>3. f = None => allocate_frame(LOW32_ALLOC)' = None
  BY <1>0, <1>1, Low32Dry
<1> HIDE DEF f
<1>4. /\ f # None => f \in 0 .. TOP /\ f \notin Given /\ Given' = Given \cup {f}
      /\ f = None => Given' = Given
  BY <1>0, <1>1, <1>2, FrameGiven
<1>5. tables' \in [Table -> -2 .. TOP] /\ low32' \subseteq 0 .. TOP
  <2>1. tables \in [Table -> -2 .. TOP] /\ low32 \subseteq 0 .. TOP
    BY <1>0 DEF Types, MemTypeOK
  <2>2. low32' = low32 \/ (f \in 0 .. TOP /\ low32' = low32 \cup {f})
    BY <1>1, <1>4
  <2>3. low32' \subseteq 0 .. TOP
    <3>1. CASE low32' = low32
      BY <2>1, <3>1
    <3>2. CASE f \in 0 .. TOP /\ low32' = low32 \cup {f}
      BY <2>1, <3>2
    <3> QED  BY <2>2, <3>1, <3>2
  <2> QED  BY <1>1, <2>1, <2>3
<1>6. Accounted'
  <2>1. CASE f = None
    BY <1>0, <1>1, <1>4, <2>1 DEF Accounted
  <2>2. CASE f # None
    <3>1. /\ \A x \in VPage : pt[x] # f
          /\ \A y \in Table : tables[y] # f
          /\ \A u \in Thread : job[u].frame # f
      BY <1>0, <1>4, <2>2, SMTT(60) DEF Accounted
    <3> QED  BY <1>0, <1>1, <1>4, <2>2, <3>1 DEF Accounted
  <2> QED  BY <2>1, <2>2
<1>7. PanicOnlyWhenDry'
  BY <1>1, <1>3 DEF PanicOnlyWhenDry
<1> QED  BY <1>1, <1>2, <1>5, <1>6, <1>7, TakenInv

\* The tables above a page are tables.
LEMMA ChainInWindow ==
  ASSUME NEW v \in VPage
  PROVE  \A k \in 1 .. 2 : Chain(v)[k] \in Table
<1>1. v[1] \in Window /\ v[2] \in 0 .. WINDOW /\ v[2] \in Int
  BY SMTT(60) DEF VPage
<1> DEFINE n == v[2]
           q == n \div FAN
<1>2. q \in Int /\ (n % FAN) \in 0 .. (FAN - 1) /\ n = FAN * q + (n % FAN)
  <2>1. n \in Int
    BY <1>1
  <2> HIDE DEF n
  <2> QED  BY <2>1, DivMod
<1>3. q \in 0 .. WINDOW
  <2> HIDE DEF q
  <2>1. FAN * q > -FAN /\ FAN * q <= WINDOW
    BY <1>1, <1>2, SMTT(60)
  <2>2. q >= 0
    <3>1. \A k \in Int : FAN * k > -FAN => k >= 0
      BY SMTT(60)
    <3> QED  BY <1>2, <2>1, <3>1
  <2>3. q <= FAN * q
    <3>1. \A k \in Nat : k <= FAN * k
      BY SMTT(60)
    <3> QED  BY <1>2, <2>2, <3>1, SMTT(60)
  <2> QED  BY <1>2, <2>1, <2>2, <2>3, SMTT(60)
<1> HIDE DEF q, n
<1>4. <<v[1], -1>> \in Table /\ <<v[1], q>> \in Table
  BY <1>1, <1>3 DEF Table
<1>5. Chain(v) = << <<v[1], -1>>, <<v[1], q>> >>
  BY DEF Chain, q, n
<1> QED  BY <1>4, <1>5, SMTT(60)

\* A frame for a table keeps the invariant.
LEMMA TableFrameInv ==
  ASSUME IInv, NEW t \in Thread, TakeTableFrame(t)
  PROVE  IInv'
<1> DEFINE m == Missing(Here(t))
           c == Chain(Here(t))[Min(m)]
           r == NextFrame
<1>0. Types /\ Accounted /\ FrameIInv
  BY DEF IInv
<1>1. /\ Working(t) /\ m # {} /\ TakeFrame /\ Gives(r) /\ pt' = pt /\ job' = job /\ low32' = low32
      /\ UNCHANGED <<pt, next, blocks, job, locks>>
      /\ ready # "panic"
      /\ r = None => ready' = "panic" /\ tables' = tables
      /\ r # None => tables' = [tables EXCEPT ![c] = r] /\ ready' = ready
  BY DEF TakeTableFrame, TakeFrame, Panic, Working
<1>2. FrameIInv'
  BY <1>0, <1>1, FrameInv
<1>3. r = None => NextFrame' = None
  BY <1>0, <1>1, FrameDry
<1>4. Here(t) \in VPage
  BY <1>1, HereInWindow
<1>5. c \in Table /\ tables[c] = None
  <2>1. m \in SUBSET Nat
    BY SMTT(60) DEF Missing
  <2>2. Min(m) \in m
    BY <1>1, <2>1, MinIn
  <2> QED  BY <1>4, <2>2, ChainInWindow DEF Missing
<1> HIDE DEF c, r, m
<1>6. /\ r # None => r \in 0 .. TOP /\ r \notin Given /\ Given' = Given \cup {r}
      /\ r = None => Given' = Given
  BY <1>0, <1>1, <1>2, FrameGiven
<1>7. tables' \in [Table -> -2 .. TOP] /\ low32' \subseteq 0 .. TOP
  BY <1>0, <1>1, <1>6, SMTT(60) DEF Types, MemTypeOK
<1>8. Accounted'
  <2>1. CASE r = None
    BY <1>0, <1>1, <1>6, <2>1 DEF Accounted
  <2>2. CASE r # None
    BY <1>1, <1>5, <1>6, <2>2, FrameTabled
  <2> QED  BY <2>1, <2>2
<1>9. PanicOnlyWhenDry'
  BY <1>1, <1>3 DEF PanicOnlyWhenDry
<1>10. ready' \in {ready, "panic"}
  BY <1>1
<1> QED  BY <1>1, <1>2, <1>7, <1>8, <1>9, <1>10, TakenInv

\* A frame for a page, or giving up for want of one, keeps the invariant.
LEMMA DataFrameInv ==
  ASSUME IInv, NEW t \in Thread, TakeDataFrame(t)
  PROVE  IInv'
<1> DEFINE r == NextFrame
<1>0. /\ Types /\ JobShape /\ LockShape /\ Alone /\ Fresh /\ Backed /\ Accounted /\ FrameIInv
  BY DEF IInv
<1>1. /\ Working(t) /\ TakeFrame /\ Gives(r)
      /\ ready # "panic" /\ fa_lock = t /\ job[t].at < job[t].end
      /\ OwnFrame(t) /\ job[t].frame = None
      /\ job[t].op \in Heap => pt[Here(t)] = None
  BY DEF TakeDataFrame, TakeFrame, Working, Needs, Heap
<1>2. /\ pt' = pt /\ tables' = tables /\ NEXT_VMAP' = NEXT_VMAP /\ NEXT_MMIO_VA' = NEXT_MMIO_VA
      /\ mapped_end' = mapped_end /\ blocks' = blocks /\ low32' = low32 /\ pt_lock' = pt_lock
  BY DEF TakeDataFrame, next
<1>3. FrameIInv'
  BY <1>0, <1>1, FrameInv
<1>4. r = None => NextFrame' = None
  BY <1>0, <1>1, FrameDry
<1>5. /\ r # None => job' = [job EXCEPT ![t].frame = r] /\ fa_lock' = fa_lock /\ ready' = ready
      /\ r = None /\ job[t].op = "vmap" =>
           job' = [job EXCEPT ![t] = Idle] /\ fa_lock' = Nobody /\ ready' = ready
      /\ r = None /\ job[t].op # "vmap" => job' = job /\ fa_lock' = fa_lock /\ ready' = "panic"
  BY DEF TakeDataFrame, Panic
<1> HIDE DEF r
<1>6. /\ r # None => r \in 0 .. TOP /\ r \notin Given /\ Given' = Given \cup {r}
      /\ r = None => Given' = Given
  BY <1>0, <1>1, <1>3, FrameGiven
<1>7. job[t] \in Job /\ job[t].op \in Op
  BY <1>0, JobFields DEF Types
<1>8. CASE r # None
  BY <1>1, <1>2, <1>3, <1>5, <1>6, <1>8, FrameKept DEF next, locks
<1>9. CASE r = None /\ job[t].op = "vmap"
  BY <1>1, <1>2, <1>3, <1>5, <1>6, <1>9, GivesUp DEF next
<1>10. CASE r = None /\ job[t].op # "vmap"
  <2>1. /\ job' = job /\ fa_lock' = fa_lock /\ ready' = "panic" /\ Given' = Given
    BY <1>5, <1>6, <1>10
  <2>2. Accounted'
    BY <1>0, <1>2, <2>1 DEF Accounted
  <2>3. PanicOnlyWhenDry'
    BY <1>4, <1>10 DEF PanicOnlyWhenDry
  <2>4. tables' \in [Table -> -2 .. TOP] /\ low32' \subseteq 0 .. TOP
    BY <1>0, <1>2 DEF Types, MemTypeOK
  <2>5. UNCHANGED <<pt, next, blocks, job, locks>> /\ ready' \in {ready, "panic"}
    BY <1>2, <2>1 DEF next, locks
  <2> QED  BY <1>3, <2>2, <2>3, <2>4, <2>5, TakenInv
<1> QED  BY <1>8, <1>9, <1>10

-----------------------------------------------------------------------------
(* The end of an operation *)

\* The second half of an allocation that has grown the heap.
After(t, j) ==
  /\ job[t].op = "grow" /\ j.op = "fit" /\ j.win = "kheap" /\ j.size # 0
  /\ j.end <= WINDOW + 1

\* An operation that ends leaves what it had to map mapped, and no frame behind.
LEMMA FinishInv ==
  ASSUME IInv, NEW t \in Thread, Finish(t)
  PROVE  IInv'
<1>0. /\ Types /\ JobShape /\ LockShape /\ Alone /\ Fresh /\ Backed /\ Accounted /\ FrameIInv
  BY DEF IInv
<1>1. /\ ready # "panic" /\ fa_lock = t /\ job[t] # Idle /\ job[t].at >= job[t].end
      /\ fa_lock' = Nobody /\ pt_lock' = (IF pt_lock = t THEN Nobody ELSE pt_lock)
      /\ ready' = "yes" /\ mapped_end' = Grown(t)
      /\ pt' = pt /\ tables' = tables /\ low32' = low32
      /\ NEXT_VMAP' = NEXT_VMAP /\ NEXT_MMIO_VA' = NEXT_MMIO_VA /\ UNCHANGED fvars
  BY DEF Finish
<1>2. FrameIInv' /\ Given' = Given
  BY <1>0, <1>1, FramesSame
<1>3. /\ job[t] \in Job /\ job[t].op \in Op /\ job[t].at \in Nat /\ job[t].end \in Nat
      /\ job[t].size \in Nat /\ job[t].old \in [start : Nat, end : Nat]
  BY <1>0, JobFields DEF Types
<1> DEFINE s    == job[t].size
           o    == job[t].old
           a    == Min(Holes(s))
           more == job[t].op = "grow" /\ Holes(s) # {}
           k    == ensure_mapped_span("fit", a, a + s, s, o)
           j    == IF more THEN k ELSE Idle
<1>4. ASSUME more
      PROVE  /\ s \in Nat \ {0}
             /\ k \in Job /\ k.op = "fit" /\ k.win = "kheap" /\ k.frame = None
             /\ k.size = s /\ k.end <= WINDOW + 1
             /\ Block(a, s) \in [start : Nat, end : Nat]
             /\ Block(a, s).start < Block(a, s).end
             /\ Block(a, s).end <= KHEAP_PAGES * PAGE
  <2>1. s \in Nat \ {0}
    BY <1>0, <1>4 DEF JobShape, Heap
  <2>2. Holes(s) # {} /\ o \in [start : Nat, end : Nat]
    BY <1>3, <1>4
  <2> HIDE DEF s, o
  <2>3. Fits(s, o)
    BY <2>1, <2>2, FitJob
  <2> QED  BY <2>1, <2>3 DEF Fits
<1>4b. \A b \in blocks' : /\ b \in [start : Nat, end : Nat]
                          /\ 0 <= b.start /\ b.start < b.end /\ b.end <= KHEAP_PAGES * PAGE
  <2> TAKE b \in blocks'
  <2>1. \/ b \in blocks
        \/ more /\ b = Block(a, s)
    BY DEF Finish
  <2> HIDE DEF more, a, s
  <2>2. CASE b \in blocks
    BY <1>0, <2>2 DEF Types, MemTypeOK
  <2>3. CASE more /\ b = Block(a, s)
    BY <1>4, <2>3, SMTT(60)
  <2> QED  BY <2>1, <2>2, <2>3
<1>4j. /\ job' = [job EXCEPT ![t] = j] /\ j \in Job /\ j.frame = None
       /\ j = Idle \/ After(t, j)
  <2>1. job' = [job EXCEPT ![t] = j]
    BY DEF Finish
  <2>2. CASE more
    <3> HIDE DEF k, a, s
    <3>1. j = k
      BY <2>2
    <3>2. After(t, k)
      BY <1>4, <2>2 DEF After
    <3> HIDE DEF j
    <3> QED  BY <1>4, <2>1, <2>2, <3>1, <3>2
  <2>3. CASE ~more
    BY <2>1, <2>3, IdleJob
  <2> QED  BY <2>2, <2>3
<1> HIDE DEF j, k, more, a, s
<1>5. /\ job' \in [Thread -> Job] /\ job'[t] = j
      /\ \A u \in Thread : u # t => job'[u] = job[u]
  BY <1>0, <1>4j DEF Types
<1>6. job[t].frame = None /\ job[t].op # "idle"
  BY <1>0, <1>1, <1>3, SMTT(60) DEF JobShape
<1>7. \A u \in Thread : u # t => job[u].frame = None /\ fa_lock # u
  BY <1>0, <1>1 DEF JobShape
<1>8. \A u \in Thread : u # t => job[u].op # "init_heap"
  BY <1>0, <1>1 DEF Alone
<1>9. mapped_end \in 0 .. WINDOW + 1 /\ mapped_end' \in 0 .. WINDOW + 1
  <2>1. mapped_end \in 0 .. WINDOW + 1
    BY <1>0 DEF Types, MemTypeOK
  <2>2. job[t].op = "grow" => mapped_end + GROW = job[t].end /\ job[t].end <= WINDOW + 1
    BY <1>0 DEF Backed, JobShape
  <2>3. CASE job[t].op = "grow"
    <3>1. mapped_end' = job[t].end
      BY <1>1, <2>2, <2>3 DEF Grown
    <3> QED  BY <1>3, <2>1, <2>2, <2>3, <3>1, UpToWindow
  <2>4. CASE job[t].op # "grow"
    BY <1>1, <2>1, <2>4 DEF Grown
  <2> QED  BY <2>3, <2>4
<1>10. Types'
  BY <1>0, <1>1, <1>4b, <1>4j, <1>5, <1>9 DEF Types, MemTypeOK
<1>11. JobShape'
  <2> SUFFICES ASSUME NEW u \in Thread
               PROVE  /\ job'[u].op = "idle" => job'[u] = Idle
                      /\ job'[u].op \in {"init_heap"} \cup Heap => job'[u].win = "kheap"
                      /\ job'[u].op \in {"vmap", "mmio", "ident"} => job'[u].win = job'[u].op
                      /\ job'[u].op \in Heap => job'[u].size \in Nat \ {0}
                      /\ job'[u].end <= WINDOW + 1
                      /\ job'[u].frame = None
    BY DEF JobShape
  <2>1. CASE u # t
    BY <1>0, <1>5, <1>7, <2>1 DEF JobShape
  <2>2. CASE u = t /\ j = Idle
    <3>1. 0 <= WINDOW + 1
      BY FrameConstants, SMTT(60)
    <3> QED  BY <1>5, <2>2, <3>1, IdleJob DEF Heap
  <2>3. CASE u = t /\ After(t, j)
    <3>1. j.size \in Nat
      BY <1>4j, JobFields
    <3> QED  BY <1>4j, <1>5, <2>3, <3>1 DEF After, Heap
  <2> QED  BY <1>4j, <2>1, <2>2, <2>3
<1>12. LockShape'
  BY <1>0, <1>1, <1>4j, <1>5, <1>7, IdleJob, NobodyIsNoThread DEF After, LockShape, PerPage
<1>13. Alone'
  BY <1>0, <1>1, <1>4j, <1>5, <1>8, IdleJob DEF After, Alone, Heap
<1>14. Fresh'
  <2>1. ToMap'
    BY <1>0, <1>1, <1>4j, <1>5, IdleJob DEF After, Fresh, ToMap
  <2>2. RangesApart'
    BY <1>0, <1>1, <1>4j, <1>5, IdleJob DEF After, Fresh, RangesApart
  <2>3. RangesTaken'
    BY <1>0, <1>1, <1>4j, <1>5, IdleJob DEF After, Fresh, RangesTaken
  <2>4. NothingAbove'
    BY <1>0, <1>1 DEF Fresh, NothingAbove
  <2>5. FrameForHole'
    BY <1>4j, <1>5, <1>7 DEF FrameForHole
  <2> QED  BY <2>1, <2>2, <2>3, <2>4, <2>5 DEF Fresh
<1>15. Backed'
  <2>1. ASSUME NEW i \in 0 .. WINDOW, i < KHEAP_PAGES \/ i < mapped_end'
        PROVE  pt[<<"kheap", i>>] # None
    <3>1. CASE job[t].op = "init_heap"
      <4>1. job[t].end = KHEAP_PAGES /\ ready = "no" /\ mapped_end = 0
        BY <1>0, <1>1, <3>1 DEF Alone, Backed, Types, MemTypeOK
      <4>2. i < job[t].at
        <5>1. mapped_end' = 0
          BY <1>1, <3>1, <4>1 DEF Grown
        <5>2. i < KHEAP_PAGES /\ KHEAP_PAGES \in Nat /\ job[t].at >= KHEAP_PAGES /\ job[t].at \in Nat
          <6>1. ~(i < 0)
            BY SMTT(60)
          <6> QED  BY <1>1, <1>3, <2>1, <4>1, <5>1, <6>1
        <5> QED  BY <5>2, SMTT(60)
      <4> QED  BY <1>0, <3>1, <4>2 DEF Backed
    <3>2. CASE job[t].op # "init_heap"
      <4>1. ready = "yes"
        <5>1. ready # "no"
          BY <1>0, <1>8, <3>2 DEF Alone
        <5> QED  BY <1>0, <1>1, <5>1 DEF Types, MemTypeOK
      <4>2. CASE i < KHEAP_PAGES \/ i < mapped_end
        BY <1>0, <4>1, <4>2 DEF Backed, HeapBacked
      <4>3. CASE job[t].op = "grow" /\ mapped_end <= i /\ i < mapped_end'
        <5>1. mapped_end' = job[t].end
          BY <1>0, <1>1, <4>3 DEF Grown, Backed
        <5>2. i < job[t].at
          BY <1>1, <1>3, <4>3, <5>1, SMTT(60)
        <5> QED  BY <1>0, <4>3, <5>2 DEF Backed
      <4>4. i < mapped_end \/ mapped_end <= i
        BY <1>9, SMTT(60)
      <4>5. job[t].op # "grow" => mapped_end' = mapped_end
        BY <1>1 DEF Grown
      <4> QED  BY <2>1, <4>2, <4>3, <4>4, <4>5
    <3> QED  BY <3>1, <3>2
  <2>2. HeapBacked'
    BY <1>1, <2>1 DEF HeapBacked
  <2>3. \A u \in Thread : job'[u].op # "init_heap"
    BY <1>4j, <1>5, <1>8, IdleJob DEF After
  <2>4. \A u \in Thread : job'[u].op = "grow" =>
          job'[u] = job[u] /\ job[u].op = "grow" /\ mapped_end' = mapped_end
    <3>1. \A u \in Thread : job'[u].op = "grow" => u # t
      BY <1>4j, <1>5, IdleJob DEF After
    <3>2. \A u \in Thread : u # t /\ job[u].op = "grow" => job[t].op # "grow"
      BY <1>0 DEF Alone, Heap
    <3> QED  BY <1>1, <1>5, <3>1, <3>2 DEF Grown
  <2> QED  BY <1>0, <1>1, <2>2, <2>3, <2>4 DEF Backed
<1>16. Accounted'
  <2>1. \A u \in Thread : job'[u].frame = job[u].frame
    BY <1>4j, <1>5, <1>6
  <2>2. /\ pt' = pt /\ tables' = tables /\ low32' = low32 /\ Given' = Given /\ Accounted
    BY <1>0, <1>1, <1>2
  <2>3. ASSUME NEW u \in Thread
        PROVE  /\ \A x \in VPage : pt'[x] >= 0 => pt'[x] # job'[u].frame
               /\ \A y \in Table : tables'[y] >= 0 => tables'[y] # job'[u].frame
               /\ \A f \in low32' : job'[u].frame # f
               /\ job'[u].frame >= 0 => job'[u].frame \in Given'
    <3>1. job'[u].frame = job[u].frame
      BY <2>1
    <3>2. /\ \A x \in VPage : pt[x] >= 0 => pt[x] # job[u].frame
          /\ \A y \in Table : tables[y] >= 0 => tables[y] # job[u].frame
          /\ \A f \in low32 : job[u].frame # f
          /\ job[u].frame >= 0 => job[u].frame \in Given
      BY <2>2 DEF Accounted
    <3> QED  BY <2>2, <3>1, <3>2
  <2>4. ASSUME NEW f \in Given'
        PROVE  \/ \E x \in VPage : pt'[x] = f
               \/ \E y \in Table : tables'[y] = f
               \/ \E u \in Thread : job'[u].frame = f
               \/ f \in low32'
    BY <2>1, <2>2 DEF Accounted
  <2>5. /\ \A x, y \in VPage : pt'[x] >= 0 /\ pt'[x] = pt'[y] => x = y
        /\ \A x, y \in Table : tables'[x] >= 0 /\ tables'[x] = tables'[y] => x = y
        /\ \A x \in VPage, y \in Table : pt'[x] >= 0 => pt'[x] # tables'[y]
        /\ \A f \in low32' : (\A x \in VPage : pt'[x] # f) /\ (\A y \in Table : tables'[y] # f)
        /\ \A x \in VPage : pt'[x] >= 0 => pt'[x] \in Given'
        /\ \A y \in Table : tables'[y] >= 0 => tables'[y] \in Given'
        /\ low32' \subseteq Given'
    BY <2>2 DEF Accounted
  <2> QED  BY <2>3, <2>4, <2>5 DEF Accounted
<1>17. PanicOnlyWhenDry'
  BY <1>1 DEF PanicOnlyWhenDry
<1> QED
  BY <1>2, <1>10, <1>11, <1>12, <1>13, <1>14, <1>15, <1>16, <1>17 DEF IInv

\* Every step keeps the invariant.
LEMMA NextInv == IInv /\ [Next]_vars => IInv'
<1> SUFFICES ASSUME IInv, [Next]_vars PROVE IInv'
  OBVIOUS
<1>1. CASE UNCHANGED vars
  <2>1. /\ UNCHANGED <<pt, next, blocks, job, locks>> /\ UNCHANGED fvars
        /\ pt' = pt /\ job' = job /\ tables' = tables /\ low32' = low32 /\ ready' = ready
    BY <1>1 DEF vars
  <2>2. FrameIInv' /\ Given' = Given
    BY <2>1, FramesSame DEF IInv
  <2>3. Accounted'
    BY <2>1, <2>2 DEF IInv, Accounted
  <2>4. PanicOnlyWhenDry'
    <3>1. NextFrame' = NextFrame /\ allocate_frame(LOW32_ALLOC)' = allocate_frame(LOW32_ALLOC)
      BY <2>1, FrameViews
    <3> QED  BY <2>1, <3>1 DEF IInv, PanicOnlyWhenDry
  <2>5. tables' \in [Table -> -2 .. TOP] /\ low32' \subseteq 0 .. TOP
    BY <2>1 DEF IInv, Types, MemTypeOK
  <2> QED  BY <2>1, <2>2, <2>3, <2>4, <2>5, TakenInv
<1>2. CASE Next
  <2>1. PICK t \in Thread :
          \/ \E n \in VMAP_PAGES : vmap_alloc_pages(t, n)
          \/ \E n \in MMIO_PAGES : map_mmio(t, n)
          \/ \E i \in IDENT : map_identity_4k(t, i)
          \/ \E s \in Sizes, old \in blocks \cup {NoBlock} : alloc(t, s, old)
          \/ \E b \in blocks : dealloc(t, b)
          \/ alloc_one_phys_page_hhdm(t)
          \/ pt_locked(t) \/ TinyAllocGuard(t) \/ SkipMapped(t) \/ TakeDataFrame(t)
          \/ TakeTableFrame(t) \/ map_to(t) \/ Finish(t)
    BY <1>2 DEF Next
  <2> QED
    BY <2>1, VmapInv, MmioInv, IdentInv, AllocInv, DeallocInv, LowPageInv, PtLockedInv, GuardInv,
       SkipInv, DataFrameInv, TableFrameInv, MapToInv, FinishInv
<1> QED  BY <1>1, <1>2

-----------------------------------------------------------------------------
(* What the kernel may rely on *)

\* Nothing the threads do breaks the invariant.
LEMMA MemoryInv == Spec => []IInv
<1>1. Init => IInv
  BY InitInv
<1>2. IInv /\ [Next]_vars => IInv'
  BY NextInv
<1> QED  BY <1>1, <1>2, PTL DEF Spec

\* Whatever the threads do and however they interleave, every frame ever handed
\* out has exactly one place (mapper.rs, simple_alloc.rs): behind one page, as one
\* page table, on its way to a page, or as one low page.
THEOREM FramesHaveOnePlace == Spec => []FramesAccounted
BY MemoryInv, AccountedFor, PTL

\* Once HEAP_READY is set, every page below KHEAP_START + KHEAP_SIZE and below
\* mapped_end is mapped (heap.rs init_heap, ensure_mapped_span).
THEOREM HeapIsBacked == Spec => []HeapBacked
<1>1. IInv => HeapBacked
  BY DEF IInv, Backed
<1> QED  BY <1>1, MemoryInv, PTL

\* A panic in the mapping code means that a pool was empty: the unwraps of
\* map_to never see a page that is mapped already.
THEOREM PanicsOnlyDry == Spec => []PanicOnlyWhenDry
<1>1. IInv => PanicOnlyWhenDry
  BY DEF IInv
<1> QED  BY <1>1, MemoryInv, PTL

\* PT_LOCK and FRAME_ALLOC, taken in both orders, can close a cycle only through
\* vmap_alloc_pages (mapper.rs).
THEOREM LockCycles == Spec => []CycleNeedsVmap
BY MemoryInv, CycleIsVmap, PTL

\* The frames that these operations take keep all that FrameAlloc promises: none
\* twice, none back in a pool, none reserved.
THEOREM KernelFramesSafe == Spec => [](NoFrameTwice /\ NothingReturns /\ NeverReserved)
<1>1. IInv => NoFrameTwice /\ NothingReturns /\ NeverReserved
  BY DEF IInv, FrameIInv
<1> QED  BY <1>1, MemoryInv, PTL
=============================================================================
