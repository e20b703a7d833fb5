-------------------------- MODULE KernelLocksProofs --------------------------
(***************************************************************************)
(* The spin locks, for any number of threads and any mix of operations.    *)
(* A discipline says at which points of an operation a lock may be taken   *)
(* and interrupts disabled or enabled; each operation keeps it, by the way *)
(* it is put together from Held and without_interrupts; and threads that   *)
(* keep it, switched wherever interrupts are enabled, have the properties. *)
(* An exception may end this at any instruction; from then on its handler  *)
(* is all that runs.                                                       *)
(***************************************************************************)
EXTENDS KernelLocks, SequenceTheorems, TLAPS

USE SMTT(60)

-----------------------------------------------------------------------------
(* The discipline *)

\* Locks that are held only with interrupts disabled.
Guarded == {"RQ", "PT_LOCK", "LLHEAP"}

\* Locks that are taken only with interrupts enabled.
Open == {"LOW32_ALLOC", "QUEUE", "TABLES", "TEMP_SEL"}

Instr == ({"lock", "unlock"} \X Lock) \cup {<<"cli", "IF">>, <<"sti", "IF">>}

\* What a thread holds and how many sections without interrupts it is in.  The
\* usable ranges are only looked at under a lock of the frames.
Stage ==
  {a \in [held : SUBSET Lock, masked : 0 .. 3] :
     /\ a.masked = 0 => a.held \cap Guarded = {}
     /\ "USABLE" \in a.held => "FRAME_ALLOC" \in a.held}

CanLock(a, l) ==
  /\ l \in Lock \ a.held
  /\ l \in Guarded => a.masked > 0
  /\ l \in Open => a.masked = 0
  /\ l = "USABLE" => "FRAME_ALLOC" \in a.held

With(a, l)    == [held |-> a.held \cup {l}, masked |-> a.masked]
Without(a, l) == [held |-> a.held \ {l}, masked |-> a.masked]
Masked(a, m)  == [held |-> a.held, masked |-> m]

\* One instruction that keeps the discipline.
Step(a, i, b) ==
  \/ \E l \in Lock : i = <<"lock", l>> /\ CanLock(a, l) /\ b = With(a, l)
  \/ \E l \in Lock : i = <<"unlock", l>> /\ l \in a.held /\ b = Without(a, l)
  \/ i = <<"cli", "IF">> /\ b = Masked(a, a.masked + 1)
  \/ i = <<"sti", "IF">> /\ b = Masked(a, a.masked - 1)

\* The instructions p lead from stage a to stage b, each keeping the discipline.
Runs(a, p, b) ==
  /\ p \in Seq(Instr)
  /\ \E s \in [0 .. Len(p) -> Stage] :
       /\ s[0] = a /\ s[Len(p)] = b
       /\ \A i \in 1 .. Len(p) : Step(s[i - 1], p[i], s[i])

-----------------------------------------------------------------------------
(* Operations are put together *)

\* No instruction leaves the stage as it is.
LEMMA RunsNothing ==
  ASSUME NEW a \in Stage
  PROVE  Runs(a, << >>, a)
<1>1. << >> \in Seq(Instr) /\ Len(<< >>) = 0
  OBVIOUS
<1> DEFINE s == [i \in 0 .. 0 |-> a]
<1>2. s \in [0 .. Len(<< >>) -> Stage] /\ s[0] = a
  BY <1>1
<1> HIDE DEF s
<1>3. \A i \in 1 .. Len(<< >>) : Step(s[i - 1], << >>[i], s[i])
  BY <1>1
<1>4. s[Len(<< >>)] = a
  BY <1>1, <1>2
<1> QED
  BY <1>1, <1>2, <1>3, <1>4, Zenon DEF Runs

\* One instruction that keeps the discipline.
LEMMA RunsOne ==
  ASSUME NEW a \in Stage, NEW b \in Stage, NEW i \in Instr, Step(a, i, b)
  PROVE  Runs(a, <<i>>, b)
<1> DEFINE s == [n \in 0 .. 1 |-> IF n = 0 THEN a ELSE b]
<1>1. <<i>> \in Seq(Instr) /\ Len(<<i>>) = 1 /\ <<i>>[1] = i
  OBVIOUS
<1>2. s \in [0 .. Len(<<i>>) -> Stage] /\ s[0] = a /\ s[1] = b
  BY <1>1
<1>3. \A n \in 1 .. Len(<<i>>) : Step(s[n - 1], <<i>>[n], s[n])
  <2> SUFFICES ASSUME NEW n \in 1 .. Len(<<i>>) PROVE Step(s[n - 1], <<i>>[n], s[n])
    OBVIOUS
  <2>1. n = 1 /\ n - 1 = 0
    BY <1>1
  <2> HIDE DEF s
  <2> QED
    BY <1>1, <1>2, <2>1
<1> HIDE DEF s
<1> QED
  BY <1>1, <1>2, <1>3 DEF Runs

\* One sequence of instructions after another.
LEMMA RunsBoth ==
  ASSUME NEW a, NEW b, NEW c, NEW p, NEW q, Runs(a, p, b), Runs(b, q, c)
  PROVE  Runs(a, p \o q, c)
<1>1. p \in Seq(Instr) /\ q \in Seq(Instr) /\ Len(p) \in Nat /\ Len(q) \in Nat
  BY LenProperties DEF Runs
<1>2. PICK s \in [0 .. Len(p) -> Stage] :
        s[0] = a /\ s[Len(p)] = b /\ \A i \in 1 .. Len(p) : Step(s[i - 1], p[i], s[i])
  BY DEF Runs
<1>3. PICK u \in [0 .. Len(q) -> Stage] :
        u[0] = b /\ u[Len(q)] = c /\ \A i \in 1 .. Len(q) : Step(u[i - 1], q[i], u[i])
  BY DEF Runs
<1>4. /\ p \o q \in Seq(Instr) /\ Len(p \o q) = Len(p) + Len(q)
      /\ \A i \in 1 .. (Len(p) + Len(q)) :
           (p \o q)[i] = IF i <= Len(p) THEN p[i] ELSE q[i - Len(p)]
  BY <1>1, ConcatProperties
<1> DEFINE w == [i \in 0 .. (Len(p) + Len(q)) |-> IF i <= Len(p) THEN s[i] ELSE u[i - Len(p)]]
<1>5. w \in [0 .. Len(p \o q) -> Stage]
  <2> SUFFICES ASSUME NEW i \in 0 .. (Len(p) + Len(q))
               PROVE  (IF i <= Len(p) THEN s[i] ELSE u[i - Len(p)]) \in Stage
    BY <1>4, Zenon
  <2>1. CASE i <= Len(p)
    BY <1>1, <2>1
  <2>2. CASE ~(i <= Len(p))
    <3>1. i - Len(p) \in 0 .. Len(q)
      BY <1>1, <2>2
    <3> QED
      BY <2>2, <3>1
  <2> QED
    BY <2>1, <2>2
<1>6. /\ \A i \in 0 .. Len(p) : w[i] = s[i]
      /\ \A i \in 0 .. Len(q) : w[Len(p) + i] = u[i]
  BY <1>1, <1>2, <1>3
<1> HIDE DEF w
<1>7. w[0] = a /\ w[Len(p \o q)] = c
  BY <1>1, <1>2, <1>3, <1>4, <1>6
<1>8. \A i \in 1 .. Len(p \o q) : Step(w[i - 1], (p \o q)[i], w[i])
  <2> SUFFICES ASSUME NEW i \in 1 .. Len(p \o q) PROVE Step(w[i - 1], (p \o q)[i], w[i])
    OBVIOUS
  <2>1. CASE i <= Len(p)
    <3>1. i \in 1 .. Len(p) /\ w[i - 1] = s[i - 1] /\ w[i] = s[i] /\ (p \o q)[i] = p[i]
      BY <1>1, <1>4, <1>6, <2>1
    <3> QED
      BY <1>2, <3>1, Zenon
  <2>2. CASE ~(i <= Len(p))
    <3> DEFINE j == i - Len(p)
    <3>1. /\ j \in 1 .. Len(q) /\ j - 1 \in 0 .. Len(q) /\ j \in 0 .. Len(q)
          /\ i = Len(p) + j /\ i - 1 = Len(p) + (j - 1)
          /\ (p \o q)[i] = q[j]
      BY <1>1, <1>4, <2>2
    <3> HIDE DEF j
    <3>2. w[i - 1] = u[j - 1] /\ w[i] = u[j]
      BY <1>6, <3>1, Zenon
    <3> QED
      BY <1>3, <3>1, <3>2, Zenon
  <2> QED
    BY <2>1, <2>2
<1> QED
  BY <1>4, <1>5, <1>7, <1>8, Zenon DEF Runs

\* The first instruction is a step, and the rest lead on from there.
LEMMA RunsFirst ==
  ASSUME NEW a, NEW b, NEW p, Runs(a, p, b), p # << >>
  PROVE  \E c \in Stage : Step(a, Head(p), c) /\ Runs(c, Tail(p), b)
<1>1. p \in Seq(Instr) /\ Len(p) \in Nat /\ Len(p) > 0
  BY LenProperties, EmptySeq DEF Runs
<1>2. PICK s \in [0 .. Len(p) -> Stage] :
        s[0] = a /\ s[Len(p)] = b /\ \A i \in 1 .. Len(p) : Step(s[i - 1], p[i], s[i])
  BY DEF Runs
<1>3. /\ Tail(p) \in Seq(Instr) /\ Len(Tail(p)) = Len(p) - 1 /\ Head(p) = p[1]
      /\ \A i \in 1 .. (Len(p) - 1) : Tail(p)[i] = p[i + 1]
  BY <1>1, HeadTailProperties
<1> DEFINE u == [i \in 0 .. (Len(p) - 1) |-> s[i + 1]]
<1>4. s[1] \in Stage /\ Step(a, Head(p), s[1])
  <2>1. 1 \in 0 .. Len(p) /\ 1 \in 1 .. Len(p) /\ 1 - 1 = 0
    BY <1>1
  <2> QED
    BY <1>2, <1>3, <2>1
<1>5. u \in [0 .. Len(Tail(p)) -> Stage] /\ u[0] = s[1] /\ u[Len(Tail(p))] = b
  BY <1>1, <1>2, <1>3
<1>6. \A i \in 1 .. Len(Tail(p)) : Step(u[i - 1], Tail(p)[i], u[i])
  <2> SUFFICES ASSUME NEW i \in 1 .. Len(Tail(p)) PROVE Step(u[i - 1], Tail(p)[i], u[i])
    BY Zenon
  <2> DEFINE j == i + 1
  <2>1. /\ j \in 1 .. Len(p) /\ j - 1 = i
        /\ u[i - 1] = s[i] /\ u[i] = s[j] /\ Tail(p)[i] = p[j]
    BY <1>1, <1>3
  <2> HIDE DEF u, j
  <2> QED
    BY <1>2, <2>1, Zenon
<1> HIDE DEF u
<1>7. Runs(s[1], Tail(p), b)
  BY <1>3, <1>5, <1>6, Zenon DEF Runs
<1> QED
  BY <1>4, <1>7, Zenon
-----------------------------------------------------------------------------
(* Sections *)

\* Taking a lock that may be taken is a step, and releasing it leads back.
LEMMA LockSteps ==
  ASSUME NEW a \in Stage, NEW l, CanLock(a, l)
  PROVE  /\ <<"lock", l>> \in Instr /\ <<"unlock", l>> \in Instr /\ With(a, l) \in Stage
         /\ Step(a, <<"lock", l>>, With(a, l)) /\ Step(With(a, l), <<"unlock", l>>, a)
<1>1. l \in Lock /\ l \notin a.held /\ a.held \in SUBSET Lock /\ a.masked \in 0 .. 3
  BY DEF CanLock, Stage
<1>2. <<"lock", l>> \in Instr /\ <<"unlock", l>> \in Instr
  BY <1>1, Zenon DEF Instr
<1>3. With(a, l) \in Stage
  <2>1. With(a, l) \in [held : SUBSET Lock, masked : 0 .. 3]
    BY <1>1 DEF With
  <2>2. a.masked = 0 => With(a, l).held \cap Guarded = {}
    BY <1>1 DEF With, CanLock, Stage
  <2>3. "USABLE" \in With(a, l).held => "FRAME_ALLOC" \in With(a, l).held
    BY DEF With, CanLock, Stage
  <2> QED
    BY <2>1, <2>2, <2>3 DEF Stage, With
<1>4. Step(a, <<"lock", l>>, With(a, l))
  BY <1>1, Zenon DEF Step
<1>5. Without(With(a, l), l) = a
  <2>1. a = [held |-> a.held, masked |-> a.masked]
    BY DEF Stage
  <2>2. (a.held \cup {l}) \ {l} = a.held
    BY <1>1, Zenon
  <2> QED
    BY <2>1, <2>2 DEF Without, With
<1>6. l \in With(a, l).held
  BY DEF With
<1>7. Step(With(a, l), <<"unlock", l>>, a)
  BY <1>1, <1>5, <1>6, Zenon DEF Step
<1> QED
  BY <1>2, <1>3, <1>4, <1>7, Zenon

\* A lock may be held over instructions that keep the discipline with it.
LEMMA HeldRuns ==
  ASSUME NEW a \in Stage, NEW l, NEW body, CanLock(a, l),
         Runs(With(a, l), body, With(a, l))
  PROVE  Runs(a, Held(l, body), a)
<1>1. Runs(a, << <<"lock", l>> >>, With(a, l)) /\ Runs(With(a, l), << <<"unlock", l>> >>, a)
  BY LockSteps, RunsOne, Zenon
<1>2. Runs(a, << <<"lock", l>> >> \o body, With(a, l))
  BY <1>1, RunsBoth, Zenon
<1> QED
  BY <1>1, <1>2, RunsBoth, Zenon DEF Held

\* Interrupts may be disabled anywhere, the third section without them being the
\* innermost.
LEMMA MaskSteps ==
  ASSUME NEW a \in Stage, a.masked < 3
  PROVE  LET b == Masked(a, a.masked + 1) IN
         /\ b \in Stage /\ <<"cli", "IF">> \in Instr /\ <<"sti", "IF">> \in Instr
         /\ Step(a, <<"cli", "IF">>, b) /\ Step(b, <<"sti", "IF">>, a)
<1> DEFINE b == Masked(a, a.masked + 1)
<1>1. a.held \in SUBSET Lock /\ a.masked \in 0 .. 2
  BY DEF Stage
<1>2. b \in Stage
  BY <1>1 DEF Stage, Masked
<1>3. <<"cli", "IF">> \in Instr /\ <<"sti", "IF">> \in Instr
  BY Zenon DEF Instr
<1>4. Step(a, <<"cli", "IF">>, b)
  BY Zenon DEF Step
<1>5. Masked(b, b.masked - 1) = a
  <2>1. a = [held |-> a.held, masked |-> a.masked]
    BY DEF Stage
  <2>2. b.held = a.held /\ b.masked - 1 = a.masked
    BY <1>1 DEF Masked
  <2> QED
    BY <2>1, <2>2, Zenon DEF Masked
<1>6. Step(b, <<"sti", "IF">>, a)
  BY <1>5, Zenon DEF Step
<1> QED
  BY <1>2, <1>3, <1>4, <1>6, Zenon

\* without_interrupts may be entered around instructions that keep the discipline
\* with interrupts disabled.
LEMMA without_interruptsRuns ==
  ASSUME NEW a \in Stage, a.masked < 3, NEW body,
         Runs(Masked(a, a.masked + 1), body, Masked(a, a.masked + 1))
  PROVE  Runs(a, without_interrupts(body), a)
<1> DEFINE b == Masked(a, a.masked + 1)
<1>1. Runs(a, Cli, b) /\ Runs(b, Sti, a)
  BY MaskSteps, RunsOne, Zenon DEF Cli, Sti
<1>2. Runs(a, Cli \o body, b)
  BY <1>1, RunsBoth, Zenon
<1> QED
  BY <1>1, <1>2, RunsBoth, Zenon DEF without_interrupts
-----------------------------------------------------------------------------
(* The operations keep the discipline *)

\* The locks under which an operation with one of them runs.
FrameLocks == {"FRAME_ALLOC", "RESV", "USABLE"}
HeapLocks  == {"HEAP", "LLHEAP", "PT_LOCK"} \cup FrameLocks

\* A lock that is taken and released at once.
LEMMA HeldAlone ==
  ASSUME NEW a \in Stage, NEW l, CanLock(a, l)
  PROVE  Runs(a, Held(l, << >>), a)
BY LockSteps, RunsNothing, HeldRuns, Zenon

\* The frames are locked by whoever allocates one; the reservations and the usable
\* ranges are not.
LEMMA allocate_frameRuns ==
  ASSUME NEW a \in Stage, "FRAME_ALLOC" \in a.held, "RESV" \notin a.held, "USABLE" \notin a.held
  PROVE  Runs(a, allocate_frame, a)
<1> DEFINE b == With(a, "USABLE")
<1>1. CanLock(a, "RESV") /\ CanLock(a, "USABLE")
  BY DEF CanLock, Guarded, Open, Lock
<1>2. b \in Stage
  BY <1>1, LockSteps, Zenon
<1>3. CanLock(b, "RESV")
  BY DEF CanLock, Guarded, Open, Lock, With
<1>4. Runs(a, Held("RESV", << >>), a) /\ Runs(b, Held("RESV", << >>), b)
  BY <1>1, <1>2, <1>3, HeldAlone, Zenon
<1>5. Runs(a, Held("USABLE", Held("RESV", << >>)), a)
  BY <1>1, <1>4, HeldRuns, Zenon
<1> QED
  BY <1>4, <1>5, RunsBoth, Zenon DEF allocate_frame

\* The frames are locked for one allocation.
LEMMA FrameRuns ==
  ASSUME NEW a \in Stage, a.held \cap FrameLocks = {}
  PROVE  Runs(a, Held("FRAME_ALLOC", allocate_frame), a)
<1> DEFINE b == With(a, "FRAME_ALLOC")
<1>1. CanLock(a, "FRAME_ALLOC")
  BY DEF CanLock, Guarded, Open, Lock, FrameLocks
<1>2. b \in Stage
  BY <1>1, LockSteps, Zenon
<1>3. "FRAME_ALLOC" \in b.held /\ "RESV" \notin b.held /\ "USABLE" \notin b.held
  BY DEF With, FrameLocks
<1>4. Runs(b, allocate_frame, b)
  BY <1>2, <1>3, allocate_frameRuns, Zenon
<1> QED
  BY <1>1, <1>4, HeldRuns, Zenon

\* Guarded locks are taken in a section without interrupts of their own.
LEMMA GuardedRuns ==
  ASSUME NEW a \in Stage, a.masked < 3, NEW l \in Guarded, l \notin a.held, NEW body,
         \A b \in Stage : b.held = a.held \cup {l} /\ b.masked = a.masked + 1 => Runs(b, body, b)
  PROVE  Runs(a, without_interrupts(Held(l, body)), a)
<1> DEFINE c == Masked(a, a.masked + 1)
           b == With(c, l)
<1>1. c \in Stage
  BY MaskSteps, Zenon
<1>2. c.held = a.held /\ c.masked = a.masked + 1 /\ a.masked \in Nat
  BY DEF Masked, Stage
<1>3. CanLock(c, l)
  BY <1>2 DEF CanLock, Guarded, Open, Lock
<1>4. b \in Stage
  BY <1>1, <1>3, LockSteps, Zenon
<1>5. b.held = a.held \cup {l} /\ b.masked = a.masked + 1
  BY <1>2 DEF With
<1>6. Runs(b, body, b)
  BY <1>4, <1>5, Zenon
<1>7. Runs(c, Held(l, body), c)
  BY <1>1, <1>3, <1>6, HeldRuns, Zenon
<1> QED
  BY <1>7, without_interruptsRuns, Zenon

\* ensure_mapped_span and map_identity_4k: the page tables, then the frames.
LEMMA ensure_mapped_spanRuns ==
  ASSUME NEW a \in Stage, a.masked < 3, a.held \cap ({"PT_LOCK"} \cup FrameLocks) = {}
  PROVE  Runs(a, ensure_mapped_span, a)
<1>1. "PT_LOCK" \in Guarded /\ "PT_LOCK" \notin a.held
  BY DEF Guarded
<1>2. ASSUME NEW b \in Stage, b.held = a.held \cup {"PT_LOCK"}
      PROVE  Runs(b, Held("FRAME_ALLOC", allocate_frame), b)
  <2>1. b.held \cap FrameLocks = {}
    BY <1>2 DEF FrameLocks
  <2> QED
    BY <2>1, FrameRuns, Zenon
<1> QED
  BY <1>1, <1>2, GuardedRuns, Zenon DEF ensure_mapped_span, pt_locked

\* The outer and the inner lock of the heap, around what grows it.
LEMMA HeapRuns ==
  ASSUME NEW a \in Stage, a.masked < 2, a.held \cap HeapLocks = {}
  PROVE  Runs(a, alloc, a) /\ Runs(a, alloc_full, a) /\ Runs(a, dealloc, a)
<1> DEFINE c == With(a, "HEAP")
<1>1. CanLock(a, "HEAP")
  BY DEF CanLock, Guarded, Open, Lock, HeapLocks
<1>2. c \in Stage
  BY <1>1, LockSteps, Zenon
<1>3. c.held = a.held \cup {"HEAP"} /\ c.masked = a.masked /\ c.masked < 3 /\ a.masked \in Nat
  BY DEF With, Stage
<1>4. "LLHEAP" \in Guarded /\ "LLHEAP" \notin c.held
  BY <1>3 DEF Guarded, HeapLocks
<1>5. ASSUME NEW b \in Stage, b.held = c.held \cup {"LLHEAP"}, b.masked = c.masked + 1
      PROVE  Runs(b, ensure_mapped_span, b) /\ Runs(b, << >>, b)
  <2>1. b.masked < 3 /\ b.held \cap ({"PT_LOCK"} \cup FrameLocks) = {}
    BY <1>3, <1>5 DEF HeapLocks, FrameLocks
  <2> QED
    BY <2>1, ensure_mapped_spanRuns, RunsNothing, Zenon
<1> HIDE DEF c
<1>6. /\ Runs(c, without_interrupts(Held("LLHEAP", ensure_mapped_span)), c)
      /\ Runs(c, without_interrupts(Held("LLHEAP", << >>)), c)
  BY <1>2, <1>3, <1>4, <1>5, GuardedRuns, Zenon
<1>7. Runs(c, without_interrupts(Held("LLHEAP", << >>) \o ensure_mapped_span
                                   \o Held("LLHEAP", ensure_mapped_span)), c)
  <2> DEFINE d == Masked(c, c.masked + 1)
             once == Held("LLHEAP", << >>)
             over == Held("LLHEAP", ensure_mapped_span)
  <2>1. d \in Stage
    BY <1>2, <1>3, MaskSteps, Zenon
  <2>2. d.held = c.held /\ d.masked = c.masked + 1 /\ d.masked > 0 /\ d.masked < 3
    BY <1>3 DEF Masked
  <2>3. CanLock(d, "LLHEAP")
    BY <1>4, <2>2 DEF CanLock, Guarded, Open, Lock
  <2>4. d.held \cap ({"PT_LOCK"} \cup FrameLocks) = {}
    BY <1>3, <2>2 DEF HeapLocks, FrameLocks
  <2>5. With(d, "LLHEAP") \in Stage
    BY <2>1, <2>3, LockSteps, Zenon
  <2>6. With(d, "LLHEAP").held = c.held \cup {"LLHEAP"} /\ With(d, "LLHEAP").masked = c.masked + 1
    BY <2>2 DEF With
  <2>7. Runs(With(d, "LLHEAP"), ensure_mapped_span, With(d, "LLHEAP"))
    BY <1>5, <2>5, <2>6, Zenon
  <2>8. Runs(d, over, d) /\ Runs(d, once, d)
    BY <2>1, <2>3, <2>7, HeldRuns, HeldAlone, Zenon
  <2>9. Runs(d, ensure_mapped_span, d)
    BY <2>1, <2>2, <2>4, ensure_mapped_spanRuns, Zenon
  <2> HIDE DEF once, over
  <2>10. Runs(d, once \o ensure_mapped_span, d)
    BY <2>8, <2>9, RunsBoth, Zenon
  <2>11. Runs(d, once \o ensure_mapped_span \o over, d)
    BY <2>8, <2>10, RunsBoth, Zenon
  <2> QED
    BY <1>2, <1>3, <2>11, without_interruptsRuns, Zenon DEF once, over
<1> QED
  BY <1>1, <1>6, <1>7, HeldRuns, Zenon DEF alloc, alloc_full, dealloc, c

\* vmap_alloc_pages keeps the frames locked over the locks of the page tables.
LEMMA vmap_alloc_pagesRuns ==
  ASSUME NEW a \in Stage, a.masked < 3, a.held \cap ({"PT_LOCK"} \cup FrameLocks) = {}
  PROVE  Runs(a, vmap_alloc_pages, a)
<1> DEFINE c == With(a, "FRAME_ALLOC")
<1>1. CanLock(a, "FRAME_ALLOC")
  BY DEF CanLock, Guarded, Open, Lock, FrameLocks
<1>2. c \in Stage
  BY <1>1, LockSteps, Zenon
<1>3. /\ c.held = a.held \cup {"FRAME_ALLOC"} /\ c.masked < 3
      /\ "FRAME_ALLOC" \in c.held /\ "RESV" \notin c.held /\ "USABLE" \notin c.held
      /\ "PT_LOCK" \notin c.held /\ "PT_LOCK" \in Guarded
  BY DEF With, FrameLocks, Guarded
<1>4. ASSUME NEW b \in Stage, b.held = c.held \cup {"PT_LOCK"}
      PROVE  Runs(b, allocate_frame, b)
  <2>1. "FRAME_ALLOC" \in b.held /\ "RESV" \notin b.held /\ "USABLE" \notin b.held
    BY <1>3, <1>4
  <2> QED
    BY <2>1, allocate_frameRuns, Zenon
<1> HIDE DEF c
<1>5. Runs(c, allocate_frame, c)
  BY <1>2, <1>3, allocate_frameRuns, Zenon
<1>6. Runs(c, pt_locked(allocate_frame), c)
  BY <1>2, <1>3, <1>4, GuardedRuns, Zenon DEF pt_locked
<1>7. Runs(c, allocate_frame \o pt_locked(allocate_frame), c)
  BY <1>5, <1>6, RunsBoth, Zenon
<1> QED
  BY <1>1, <1>7, HeldRuns, Zenon DEF vmap_alloc_pages, c

\* The console is locked twice, one time after the other.
LEMMA kprintRuns ==
  ASSUME NEW a \in Stage, "COM1" \notin a.held
  PROVE  Runs(a, kprint, a)
<1>1. CanLock(a, "COM1")
  BY DEF CanLock, Guarded, Open, Lock
<1> QED
  BY <1>1, HeldAlone, RunsBoth, Zenon DEF kprint

\* The low memory is locked, with interrupts enabled, over the reservations.
LEMMA low32Runs ==
  ASSUME NEW a \in Stage, a.masked = 0, "LOW32_ALLOC" \notin a.held, "RESV" \notin a.held
  PROVE  Runs(a, alloc_one_phys_page_hhdm, a)
<1> DEFINE b == With(a, "LOW32_ALLOC")
<1>1. CanLock(a, "LOW32_ALLOC")
  BY DEF CanLock, Guarded, Lock
<1>2. b \in Stage
  BY <1>1, LockSteps, Zenon
<1>3. CanLock(b, "RESV")
  BY DEF CanLock, Guarded, Open, Lock, With
<1>4. Runs(b, Held("RESV", << >>), b)
  BY <1>2, <1>3, HeldAlone, Zenon
<1> QED
  BY <1>1, <1>4, HeldRuns, Zenon DEF alloc_one_phys_page_hhdm

\* What runs under the run queue may use the heap.
LEMMA RunQueueRuns ==
  ASSUME NEW a \in Stage, a.masked < 2, "RQ" \notin a.held
  PROVE  /\ Runs(a, exit_current, a)
         /\ a.masked = 0 /\ a.held \cap HeapLocks = {} =>
              Runs(a, with_rq_locked(alloc), a) /\ Runs(a, reap, a)
<1>1. "RQ" \in Guarded /\ a.masked < 3 /\ a.masked \in Nat
  BY DEF Guarded, Stage
<1>2. Runs(a, exit_current, a)
  BY <1>1, RunsNothing, GuardedRuns, Zenon DEF exit_current, with_rq_locked
<1>3. ASSUME a.masked = 0, a.held \cap HeapLocks = {}
      PROVE  Runs(a, with_rq_locked(alloc), a) /\ Runs(a, reap, a)
  <2>1. ASSUME NEW b \in Stage, b.held = a.held \cup {"RQ"}, b.masked = a.masked + 1
        PROVE  Runs(b, alloc, b) /\ Runs(b, alloc \o dealloc, b)
    <3>1. b.masked < 2 /\ b.held \cap HeapLocks = {}
      BY <1>3, <2>1 DEF HeapLocks, FrameLocks
    <3>2. Runs(b, alloc, b) /\ Runs(b, dealloc, b)
      BY <3>1, HeapRuns, Zenon
    <3> QED
      BY <3>2, RunsBoth, Zenon
  <2> QED
    BY <1>1, <2>1, GuardedRuns, Zenon DEF with_rq_locked, reap
<1> QED
  BY <1>2, <1>3, Zenon

\* The stack, the selector and the insertion of a thread, with interrupts enabled.
LEMMA spawnRuns ==
  ASSUME NEW a \in Stage, a.masked = 0, a.held \cap (HeapLocks \cup {"RQ", "TEMP_SEL"}) = {}
  PROVE  Runs(a, spawn, a)
<1>1. /\ a.masked < 2 /\ a.held \cap HeapLocks = {} /\ "RQ" \notin a.held
      /\ CanLock(a, "TEMP_SEL")
  BY DEF CanLock, Guarded, Lock
<1>2. Runs(a, alloc, a) /\ Runs(a, Held("TEMP_SEL", << >>), a) /\ Runs(a, with_rq_locked(alloc), a)
  BY <1>1, HeapRuns, HeldAlone, RunQueueRuns, Zenon
<1>3. Runs(a, alloc \o Held("TEMP_SEL", << >>), a)
  BY <1>2, RunsBoth, Zenon
<1> QED
  BY <1>2, <1>3, RunsBoth, Zenon DEF spawn

\* The closures are run with their queue locked.
LEMMA server_mainRuns ==
  ASSUME NEW a \in Stage, a.masked = 0, a.held = {}
  PROVE  Runs(a, server_main, a)
<1> DEFINE b == With(a, "QUEUE")
<1>1. CanLock(a, "QUEUE")
  BY DEF CanLock, Guarded, Lock
<1>2. b \in Stage
  BY <1>1, LockSteps, Zenon
<1>3. b.masked = 0 /\ b.held \cap (HeapLocks \cup {"RQ", "TEMP_SEL"}) = {}
  BY DEF With, HeapLocks, FrameLocks
<1>4. Runs(b, spawn, b)
  BY <1>2, <1>3, spawnRuns, Zenon
<1> QED
  BY <1>1, <1>4, HeldRuns, Zenon DEF server_main

\* The interrupt tables are locked, one time over an allocation, with nothing else
\* held.
LEMMA closureRuns ==
  ASSUME NEW a \in Stage, a.masked = 0, a.held = {}
  PROVE  Runs(a, registrate \o generate, a)
<1> DEFINE b == With(a, "TABLES")
<1>1. /\ CanLock(a, "TABLES") /\ "COM1" \notin a.held
      /\ a.masked < 2 /\ a.held \cap HeapLocks = {}
  BY DEF CanLock, Guarded, Lock
<1>2. b \in Stage
  BY <1>1, LockSteps, Zenon
<1>3. b.masked < 2 /\ b.held \cap HeapLocks = {}
  BY DEF With, HeapLocks, FrameLocks
<1>4. Runs(b, alloc, b)
  BY <1>2, <1>3, HeapRuns, Zenon
<1>5. Runs(a, Held("TABLES", alloc), a)
  BY <1>1, <1>4, HeldRuns, Zenon
<1>6. Runs(a, Held("TABLES", << >>), a) /\ Runs(a, kprint, a) /\ Runs(a, alloc, a)
  BY <1>1, HeldAlone, kprintRuns, HeapRuns, Zenon
<1>7. Runs(a, access_mut(alloc), a) /\ Runs(a, access_mut(<< >>), a)
  BY <1>5, <1>6, RunsBoth, Zenon DEF access_mut
<1>8. Runs(a, registrate, a)
  BY <1>6, <1>7, RunsBoth, Zenon DEF registrate
<1>9. Runs(a, alloc \o access_mut(<< >>), a)
  BY <1>6, <1>7, RunsBoth, Zenon
<1>10. Runs(a, generate, a)
  BY <1>6, <1>9, RunsBoth, Zenon DEF generate
<1> QED
  BY <1>8, <1>10, RunsBoth, Zenon

\* Every operation leads from nothing held and interrupts enabled to nothing held.
LEMMA ProgramRuns ==
  ASSUME NEW op \in OPS, NEW a \in Stage, a.masked = 0, a.held = {}
  PROVE  \E b \in Stage : b.held = {} /\ Runs(a, Program(op), b)
<1>1. op \in Operation
  BY LockConstants
<1>2. /\ a.masked < 2 /\ a.masked < 3 /\ a.held \cap HeapLocks = {}
      /\ a.held \cap ({"PT_LOCK"} \cup FrameLocks) = {}
      /\ a.held \cap (HeapLocks \cup {"RQ", "TEMP_SEL"}) = {}
      /\ \A l \in Lock : l \notin a.held
      /\ "RQ" \in Lock /\ "COM1" \in Lock /\ "RESV" \in Lock /\ "LOW32_ALLOC" \in Lock
  BY DEF Lock
<1>3. CASE op \in {"alloc", "full", "dealloc"}
  BY <1>2, <1>3, HeapRuns, Zenon DEF Program
<1>4. CASE op = "vmap"
  BY <1>2, <1>4, vmap_alloc_pagesRuns, Zenon DEF Program
<1>5. CASE op = "ident"
  <2>1. map_identity_4k = ensure_mapped_span
    BY Zenon DEF map_identity_4k, ensure_mapped_span
  <2>2. Runs(a, map_identity_4k, a)
    BY <1>2, <2>1, ensure_mapped_spanRuns, Zenon
  <2> QED
    BY <1>5, <2>2, Zenon DEF Program
<1>6. CASE op = "low32"
  BY <1>2, <1>6, low32Runs, Zenon DEF Program
<1>7. CASE op = "print"
  BY <1>2, <1>7, kprintRuns, Zenon DEF Program
<1>8. CASE op = "spawn"
  BY <1>2, <1>8, spawnRuns, Zenon DEF Program
<1>9. CASE op \in {"exit", "reap"}
  BY <1>2, <1>9, RunQueueRuns, Zenon DEF Program
<1>10. CASE op = "server"
  BY <1>10, server_mainRuns, Zenon DEF Program
<1>11. CASE op = "closure"
  BY <1>11, closureRuns, Zenon DEF Program
<1> QED
  BY <1>1, <1>3, <1>4, <1>5, <1>6, <1>7, <1>8, <1>9, <1>10, <1>11, Zenon DEF Operation

-----------------------------------------------------------------------------
(* The inductive invariant *)

\* The locks a thread holds and the sections it is in.
StageOf(t) == [held |-> {l \in Lock : holder[l] = t}, masked |-> masked[t]]

\* What a thread has left of its operation leads from where it is to nothing held.
Disciplined(t) ==
  StageOf(t) \in Stage /\ \E b \in Stage : b.held = {} /\ Runs(StageOf(t), todo[t], b)

\* Every thread keeps the discipline, and the ones that do not run were left with
\* interrupts enabled.
Working ==
  /\ LockTypeOK /\ todo \in [Thread -> Seq(Instr)]
  /\ \A t \in Thread : Disciplined(t)
  /\ \A t \in Thread : t # cur => masked[t] = 0

\* What the handler of an exception locks, and instructions that name nothing else.
Spoken  == {"COM1", "RQ", "IF"}
Only(p) == \A i \in 1 .. Len(p) : p[i][2] \in Spoken

\* What is left of the handler keeps the discipline of a thread that has the page
\* tables locked all the time, which keeps interrupts disabled; what the thread
\* really holds is not known, but that no other thread holds a guarded lock.
InHandler ==
  /\ LockTypeOK /\ todo \in [Thread -> Seq(Instr)]
  /\ Only(todo[cur])
  /\ \E g, b \in Stage : /\ "PT_LOCK" \in g.held /\ masked[cur] = FAULT - 1 + g.masked
                         /\ Runs(g, todo[cur], b)
  /\ \A l \in Guarded : holder[l] \in {Nobody, cur}

LocksIInv == Working \/ InHandler

\* A step of the running thread that moves it along its operation and leaves the
\* others where they are.
LEMMA MovesOn ==
  ASSUME Working, LockTypeOK', cur' = cur,
         todo' = [todo EXCEPT ![cur] = Tail(@)], todo[cur] # << >>,
         \A c \in Stage : Step(StageOf(cur), Head(todo[cur]), c) => StageOf(cur)' = c,
         \A t \in Thread : t # cur => StageOf(t)' = StageOf(t) /\ masked'[t] = masked[t]
  PROVE  Working'
<1>1. cur \in Thread /\ todo \in [Thread -> Seq(Instr)] /\ Disciplined(cur)
  BY Zenon DEF Working, LockTypeOK
<1>2. PICK b \in Stage : b.held = {} /\ Runs(StageOf(cur), todo[cur], b)
  BY <1>1, Zenon DEF Disciplined
<1>3. PICK c \in Stage : Step(StageOf(cur), Head(todo[cur]), c) /\ Runs(c, Tail(todo[cur]), b)
  BY <1>2, RunsFirst, Zenon
<1>4. StageOf(cur)' = c
  BY <1>3, Zenon
<1>5. todo'[cur] = Tail(todo[cur]) /\ \A t \in Thread : t # cur => todo'[t] = todo[t]
  BY <1>1, Zenon
<1>6. Tail(todo[cur]) \in Seq(Instr)
  BY <1>3, Zenon DEF Runs
<1>7. todo' \in [Thread -> Seq(Instr)]
  BY <1>1, <1>6, Zenon
<1>8. \A t \in Thread : Disciplined(t)'
  <2> SUFFICES ASSUME NEW t \in Thread PROVE Disciplined(t)'
    OBVIOUS
  <2>1. CASE t = cur
    BY <1>2, <1>3, <1>4, <1>5, <2>1, Zenon DEF Disciplined
  <2>2. CASE t # cur
    <3>1. StageOf(t)' = StageOf(t) /\ todo'[t] = todo[t] /\ Disciplined(t)
      BY <1>5, <2>2, Zenon DEF Working
    <3> QED
      BY <3>1, Zenon DEF Disciplined
  <2> QED
    BY <2>1, <2>2, Zenon
<1>9. \A t \in Thread : t # cur' => masked'[t] = 0
  BY Zenon DEF Working
<1> QED
  BY <1>7, <1>8, <1>9, Zenon DEF Working

\* At first nothing is locked.
LEMMA InitLocks == Init => Working
<1> SUFFICES ASSUME Init PROVE Working
  OBVIOUS
<1>1. LockTypeOK /\ todo \in [Thread -> Seq(Instr)]
  BY DEF Init, LockTypeOK, FAULT
<1>2. ASSUME NEW t \in Thread PROVE Disciplined(t)
  <2>1. StageOf(t).held = {} /\ StageOf(t).masked = 0
    BY LockConstants DEF Init, StageOf
  <2>2. StageOf(t) \in Stage
    <3>1. StageOf(t) = [held |-> {}, masked |-> 0]
      BY <2>1 DEF StageOf
    <3>2. [held |-> {}, masked |-> 0] \in Stage
      BY DEF Stage
    <3> QED
      BY <3>1, <3>2, Zenon
  <2>3. todo[t] = << >>
    BY DEF Init
  <2> QED
    BY <2>1, <2>2, <2>3, RunsNothing, Zenon DEF Disciplined
<1>3. \A t \in Thread : masked[t] = 0
  BY Zenon DEF Init
<1> QED
  BY <1>1, <1>2, <1>3, Zenon DEF Working

\* A thread between two operations holds nothing.
LEMMA IdleHolds ==
  ASSUME Working, todo[cur] = << >>
  PROVE  StageOf(cur).held = {}
<1>1. PICK b \in Stage : b.held = {} /\ Runs(StageOf(cur), << >>, b)
  BY Zenon DEF Working, LockTypeOK, Disciplined
<1>2. Len(<< >>) = 0
  OBVIOUS
<1> QED
  BY <1>1, <1>2, Zenon DEF Runs

\* A thread begins an operation with nothing held, and the operation keeps the
\* discipline.
LEMMA BeginLocks ==
  ASSUME Working, Begin
  PROVE  Working'
<1>1. PICK op \in OPS : todo' = [todo EXCEPT ![cur] = Program(op)]
  BY Zenon DEF Begin
<1>2. /\ cur \in Thread /\ todo[cur] = << >> /\ masked[cur] = 0
      /\ holder' = holder /\ masked' = masked /\ cur' = cur
      /\ todo \in [Thread -> Seq(Instr)]
  BY Zenon DEF Begin, Working, LockTypeOK
<1>3. StageOf(cur) \in Stage /\ StageOf(cur).held = {} /\ StageOf(cur).masked = 0
  <2>1. StageOf(cur).masked = 0
    BY <1>2 DEF StageOf
  <2> QED
    BY <1>2, <2>1, IdleHolds, Zenon DEF Working, Disciplined
<1>4. PICK b \in Stage : b.held = {} /\ Runs(StageOf(cur), Program(op), b)
  BY <1>3, ProgramRuns, Zenon
<1>5. \A t \in Thread : StageOf(t)' = StageOf(t)
  BY <1>2, Zenon DEF StageOf
<1>6. todo' \in [Thread -> Seq(Instr)]
  BY <1>1, <1>2, <1>4, Zenon DEF Runs
<1>7. ASSUME NEW t \in Thread PROVE Disciplined(t)'
  <2>1. CASE t = cur
    BY <1>1, <1>2, <1>3, <1>4, <1>5, <2>1, Zenon DEF Disciplined
  <2>2. CASE t # cur
    <3>1. todo'[t] = todo[t] /\ StageOf(t)' = StageOf(t) /\ Disciplined(t)
      BY <1>1, <1>2, <1>5, <2>2, Zenon DEF Working
    <3> QED
      BY <3>1, Zenon DEF Disciplined
  <2> QED
    BY <2>1, <2>2, Zenon
<1> QED
  BY <1>2, <1>6, <1>7, Zenon DEF Working, LockTypeOK

\* The next instruction of the running thread keeps the discipline.
LEMMA NextStep ==
  ASSUME Working, todo[cur] # << >>
  PROVE  /\ Next1 \in Instr
         /\ \E c \in Stage : Step(StageOf(cur), Next1, c)
<1>1. cur \in Thread /\ Disciplined(cur)
  BY Zenon DEF Working, LockTypeOK
<1>2. PICK b \in Stage : Runs(StageOf(cur), todo[cur], b)
  BY <1>1, Zenon DEF Disciplined
<1>3. todo[cur] \in Seq(Instr)
  BY <1>2, Zenon DEF Runs
<1> QED
  BY <1>2, <1>3, RunsFirst, HeadTailProperties, Zenon DEF Next1

\* A lock is free when it is taken, so no other thread's stage changes.
LEMMA AcquireLocks ==
  ASSUME Working, Acquire
  PROVE  Working'
<1> DEFINE l == Next1[2]
<1>1. /\ todo[cur] # << >> /\ Next1[1] = "lock" /\ holder[l] = Nobody
      /\ holder' = [holder EXCEPT ![l] = cur] /\ masked' = masked /\ cur' = cur
      /\ todo' = [todo EXCEPT ![cur] = Tail(@)]
      /\ cur \in Thread /\ holder \in [Lock -> Thread \cup {Nobody}]
      /\ masked \in [Thread -> 0 .. (FAULT + 2)]
  BY Zenon DEF Acquire, Working, LockTypeOK
<1>2. Next1 = <<"lock", l>> /\ l \in Lock
  BY <1>1, NextStep, SMT DEF Instr
<1> HIDE DEF l
<1>3. LockTypeOK'
  BY <1>1, <1>2 DEF LockTypeOK
<1>4. StageOf(cur)' = With(StageOf(cur), l)
  <2>1. {k \in Lock : holder'[k] = cur} = {k \in Lock : holder[k] = cur} \cup {l}
    BY <1>1, <1>2
  <2>2. StageOf(cur)' = [held |-> {k \in Lock : holder'[k] = cur}, masked |-> masked[cur]]
    BY <1>1, Zenon DEF StageOf
  <2>3. StageOf(cur).held = {k \in Lock : holder[k] = cur} /\ StageOf(cur).masked = masked[cur]
    BY DEF StageOf
  <2> QED
    BY <2>1, <2>2, <2>3, Zenon DEF With
<1>5. ASSUME NEW c \in Stage, Step(StageOf(cur), Next1, c) PROVE c = With(StageOf(cur), l)
  BY <1>2, <1>5 DEF Step
<1>6. ASSUME NEW t \in Thread, t # cur PROVE StageOf(t)' = StageOf(t)
  <2>1. {k \in Lock : holder'[k] = t} = {k \in Lock : holder[k] = t}
    BY <1>1, <1>2, <1>6, LockConstants
  <2> QED
    BY <1>1, <2>1, Zenon DEF StageOf
<1> QED
  BY <1>1, <1>3, <1>4, <1>5, <1>6, MovesOn, Zenon DEF Next1

\* A lock that is released is the running thread's own.
LEMMA ReleaseLocks ==
  ASSUME Working, Release
  PROVE  Working'
<1> DEFINE l == Next1[2]
<1>1. /\ todo[cur] # << >> /\ Next1[1] = "unlock"
      /\ holder' = [holder EXCEPT ![l] = Nobody] /\ masked' = masked /\ cur' = cur
      /\ todo' = [todo EXCEPT ![cur] = Tail(@)]
      /\ cur \in Thread /\ holder \in [Lock -> Thread \cup {Nobody}]
      /\ masked \in [Thread -> 0 .. (FAULT + 2)]
  BY Zenon DEF Release, Working, LockTypeOK
<1>2. Next1 = <<"unlock", l>> /\ l \in Lock
  BY <1>1, NextStep, SMT DEF Instr
<1> HIDE DEF l
<1>3. LockTypeOK'
  BY <1>1, <1>2 DEF LockTypeOK
<1>4. holder[l] = cur
  <2>1. PICK c \in Stage : Step(StageOf(cur), Next1, c)
    BY <1>1, NextStep, Zenon
  <2>2. l \in StageOf(cur).held
    BY <1>2, <2>1 DEF Step
  <2> QED
    BY <2>2 DEF StageOf
<1>5. StageOf(cur)' = Without(StageOf(cur), l)
  <2>1. {k \in Lock : holder'[k] = cur} = {k \in Lock : holder[k] = cur} \ {l}
    BY <1>1, <1>2, LockConstants
  <2>2. StageOf(cur)' = [held |-> {k \in Lock : holder'[k] = cur}, masked |-> masked[cur]]
    BY <1>1, Zenon DEF StageOf
  <2>3. StageOf(cur).held = {k \in Lock : holder[k] = cur} /\ StageOf(cur).masked = masked[cur]
    BY DEF StageOf
  <2> QED
    BY <2>1, <2>2, <2>3, Zenon DEF Without
<1>6. ASSUME NEW c \in Stage, Step(StageOf(cur), Next1, c) PROVE c = Without(StageOf(cur), l)
  BY <1>2, <1>6 DEF Step
<1>7. ASSUME NEW t \in Thread, t # cur PROVE StageOf(t)' = StageOf(t)
  <2>1. {k \in Lock : holder'[k] = t} = {k \in Lock : holder[k] = t}
    BY <1>1, <1>2, <1>4, <1>7, LockConstants
  <2> QED
    BY <1>1, <2>1, Zenon DEF StageOf
<1> QED
  BY <1>1, <1>3, <1>5, <1>6, <1>7, MovesOn, Zenon DEF Next1

\* cli and sti count the sections of the running thread.
LEMMA MaskLocks ==
  ASSUME Working, Mask
  PROVE  Working'
<1> DEFINE m == IF Next1[1] = "cli" THEN masked[cur] + 1 ELSE masked[cur] - 1
<1>1. /\ todo[cur] # << >> /\ Next1[1] \in {"cli", "sti"}
      /\ masked' = [masked EXCEPT ![cur] = m] /\ holder' = holder /\ cur' = cur
      /\ todo' = [todo EXCEPT ![cur] = Tail(@)]
      /\ cur \in Thread /\ holder \in [Lock -> Thread \cup {Nobody}]
      /\ masked \in [Thread -> 0 .. (FAULT + 2)]
  BY Zenon DEF Mask, Working, LockTypeOK
<1>2. StageOf(cur).masked = masked[cur] /\ StageOf(cur).held = {k \in Lock : holder[k] = cur}
  BY DEF StageOf
<1>3. ASSUME NEW c \in Stage, Step(StageOf(cur), Next1, c) PROVE c = Masked(StageOf(cur), m)
  BY <1>1, <1>2, <1>3 DEF Step
<1>4. m \in 0 .. 3
  <2>1. PICK c \in Stage : Step(StageOf(cur), Next1, c)
    BY <1>1, NextStep, Zenon
  <2>2. c.masked \in 0 .. 3
    BY DEF Stage
  <2>3. c = Masked(StageOf(cur), m)
    BY <1>3, <2>1, Zenon
  <2> HIDE DEF m
  <2> QED
    BY <2>2, <2>3 DEF Masked
<1> HIDE DEF m
<1>5. LockTypeOK'
  <2>1. m \in 0 .. (FAULT + 2)
    BY <1>4 DEF FAULT
  <2> QED
    BY <1>1, <2>1, Zenon DEF LockTypeOK
<1>6. StageOf(cur)' = Masked(StageOf(cur), m)
  <2>1. masked'[cur] = m
    BY <1>1, Zenon
  <2> QED
    BY <1>1, <1>2, <2>1, Zenon DEF StageOf, Masked
<1>7. ASSUME NEW t \in Thread, t # cur PROVE StageOf(t)' = StageOf(t) /\ masked'[t] = masked[t]
  <2>1. masked'[t] = masked[t]
    BY <1>1, <1>7, Zenon
  <2> QED
    BY <1>1, <2>1, Zenon DEF StageOf
<1> QED
  BY <1>1, <1>3, <1>5, <1>6, <1>7, MovesOn, Zenon DEF Next1

\* The timer interrupt leaves the thread it switches from with interrupts enabled.
LEMMA isr_timerLocks ==
  ASSUME Working, isr_timer
  PROVE  Working'
<1>1. /\ masked[cur] = 0 /\ cur' \in Thread
      /\ holder' = holder /\ todo' = todo /\ masked' = masked
  BY Zenon DEF isr_timer
<1>2. \A t \in Thread : Disciplined(t)'
  BY <1>1, Zenon DEF Working, Disciplined, StageOf
<1> QED
  BY <1>1, <1>2, Zenon DEF Working, LockTypeOK

\* A lock the running thread asks for is one it may take, and not its own.
LEMMA Asks ==
  ASSUME Working, NEW l \in Lock, WaitsFor(l)
  PROVE  CanLock(StageOf(cur), l) /\ holder[l] # cur /\ holder[l] \in Thread
<1>1. /\ todo[cur] # << >> /\ Next1 = <<"lock", l>> /\ holder[l] # Nobody
      /\ holder \in [Lock -> Thread \cup {Nobody}]
  BY Zenon DEF WaitsFor, Working, LockTypeOK
<1>2. PICK c \in Stage : Step(StageOf(cur), Next1, c)
  BY <1>1, NextStep, Zenon
<1>3. CanLock(StageOf(cur), l)
  BY <1>1, <1>2 DEF Step
<1>4. l \notin StageOf(cur).held
  BY <1>3 DEF CanLock
<1> QED
  BY <1>1, <1>3, <1>4 DEF StageOf

\* A guarded lock is held by nobody or by the running thread, with interrupts
\* disabled.
LEMMA GuardedHeld ==
  ASSUME Working, NEW l \in Guarded
  PROVE  holder[l] \in {Nobody, cur} /\ (masked[cur] = 0 => holder[l] = Nobody)
<1>1. ASSUME NEW t \in Thread, holder[l] = t PROVE masked[t] # 0
  <2>1. StageOf(t) \in Stage
    BY Zenon DEF Working, Disciplined
  <2>2. l \in StageOf(t).held
    BY <1>1 DEF StageOf, Lock, Guarded
  <2>3. StageOf(t).masked # 0
    BY <2>1, <2>2 DEF Stage
  <2> QED
    BY <2>3 DEF StageOf
<1>2. l \in Lock
  BY DEF Lock, Guarded
<1>3. holder[l] \in Thread \cup {Nobody} /\ cur \in Thread /\ \A t \in Thread : t # cur => masked[t] = 0
  BY <1>2, Zenon DEF Working, LockTypeOK
<1> QED
  BY <1>1, <1>3, Zenon

\* What names nothing but Spoken, one sequence after another.
LEMMA OnlyBoth ==
  ASSUME NEW p \in Seq(Instr), NEW q \in Seq(Instr), Only(p), Only(q)
  PROVE  Only(p \o q)
<1>1. /\ Len(p) \in Nat /\ Len(q) \in Nat /\ Len(p \o q) = Len(p) + Len(q)
      /\ \A i \in 1 .. (Len(p) + Len(q)) :
           (p \o q)[i] = IF i <= Len(p) THEN p[i] ELSE q[i - Len(p)]
  BY ConcatProperties, LenProperties
<1> SUFFICES ASSUME NEW i \in 1 .. (Len(p) + Len(q)) PROVE (p \o q)[i][2] \in Spoken
  BY <1>1 DEF Only
<1>2. CASE i <= Len(p)
  BY <1>1, <1>2 DEF Only
<1>3. CASE ~(i <= Len(p))
  <2>1. i - Len(p) \in 1 .. Len(q)
    BY <1>1, <1>3
  <2> QED
    BY <1>1, <1>3, <2>1 DEF Only
<1> QED
  BY <1>2, <1>3

\* A lock that is taken and released at once.
LEMMA OnlyHeld ==
  ASSUME NEW l \in Lock \cap Spoken
  PROVE  Held(l, << >>) \in Seq(Instr) /\ Only(Held(l, << >>))
<1> DEFINE p == << <<"lock", l>> >>
           q == << <<"unlock", l>> >>
<1>1. p \in Seq(Instr) /\ q \in Seq(Instr) /\ << >> \in Seq(Instr)
  BY DEF Instr
<1>2. Only(p) /\ Only(q) /\ Only(<< >>)
  BY DEF Only
<1> HIDE DEF p, q
<1>3. p \o << >> \in Seq(Instr) /\ Only(p \o << >>)
  BY <1>1, <1>2, OnlyBoth, ConcatProperties, Zenon
<1>4. (p \o << >>) \o q \in Seq(Instr) /\ Only((p \o << >>) \o q)
  BY <1>1, <1>2, <1>3, OnlyBoth, ConcatProperties, Zenon
<1> QED
  BY <1>4, Zenon DEF Held, p, q

\* The handler locks the console and, in a section of its own, the run queue.
LEMMA OnlyHandler == Only(handler)
<1>1. "COM1" \in Lock \cap Spoken /\ "RQ" \in Lock \cap Spoken
  BY DEF Lock, Spoken
<1>2. Cli \in Seq(Instr) /\ Sti \in Seq(Instr) /\ Only(Cli) /\ Only(Sti)
  BY DEF Cli, Sti, Instr, Only, Spoken
<1> DEFINE com == Held("COM1", << >>)
           rq  == Held("RQ", << >>)
<1>3. com \in Seq(Instr) /\ Only(com) /\ rq \in Seq(Instr) /\ Only(rq)
  BY <1>1, OnlyHeld, Zenon
<1> HIDE DEF com, rq
<1>4. com \o com \in Seq(Instr) /\ Only(com \o com) /\ Cli \o rq \in Seq(Instr) /\ Only(Cli \o rq)
  BY <1>2, <1>3, OnlyBoth, ConcatProperties, Zenon
<1>5. (Cli \o rq) \o Sti \in Seq(Instr) /\ Only((Cli \o rq) \o Sti)
  BY <1>2, <1>4, OnlyBoth, ConcatProperties, Zenon
<1> QED
  BY <1>4, <1>5, OnlyBoth, Zenon
     DEF handler, kprint, exit_current, with_rq_locked, without_interrupts, com, rq

\* An exception, wherever it comes, leaves the running thread in its handler.
LEMMA faultLocks ==
  ASSUME LocksIInv, fault
  PROVE  InHandler'
<1> DEFINE g == [held |-> {"PT_LOCK"}, masked |-> 1]
<1>1. /\ todo' = [todo EXCEPT ![cur] = handler] /\ masked' = [masked EXCEPT ![cur] = FAULT]
      /\ holder' = holder /\ cur' = cur
  BY Zenon DEF fault
<1>2. /\ LockTypeOK /\ todo \in [Thread -> Seq(Instr)]
      /\ \A l \in Guarded : holder[l] \in {Nobody, cur}
  BY GuardedHeld, Zenon DEF LocksIInv, Working, InHandler
<1>3. g \in Stage /\ "PT_LOCK" \in g.held /\ g.masked < 2 /\ "RQ" \notin g.held /\ "COM1" \notin g.held
  BY DEF Stage, Guarded, Lock
<1>4. Runs(g, kprint, g) /\ Runs(g, exit_current, g)
  BY <1>3, kprintRuns, RunQueueRuns, Zenon
<1>5. Runs(g, handler, g)
  BY <1>4, RunsBoth, Zenon DEF handler
<1>6. handler \in Seq(Instr)
  BY <1>5, Zenon DEF Runs
<1>7. FAULT = FAULT - 1 + g.masked /\ FAULT \in 0 .. (FAULT + 2)
  BY DEF FAULT
<1> HIDE DEF g
<1>8. cur \in Thread /\ todo'[cur] = handler /\ masked'[cur] = FAULT /\ todo' \in [Thread -> Seq(Instr)]
  BY <1>1, <1>2, <1>6, Zenon DEF LockTypeOK
<1>9. LockTypeOK'
  BY <1>1, <1>2, <1>7, Zenon DEF LockTypeOK
<1>10. Only(todo[cur])'
  BY <1>1, <1>8, OnlyHandler, Zenon DEF Only
<1> QED
  BY <1>1, <1>2, <1>3, <1>5, <1>7, <1>8, <1>9, <1>10, Zenon DEF InHandler

\* A handler has interrupts disabled, and asks for nothing but the console and the
\* run queue.
LEMMA HandlerAsks ==
  ASSUME InHandler
  PROVE  Handling /\ \A l \in Lock : WaitsFor(l) => l \in {"COM1", "RQ"}
<1>1. PICK g \in Stage : "PT_LOCK" \in g.held /\ masked[cur] = FAULT - 1 + g.masked
  BY Zenon DEF InHandler
<1>2. g.masked \in 1 .. 3
  BY <1>1 DEF Stage, Guarded
<1>3. Handling
  BY <1>1, <1>2 DEF Handling, FAULT
<1>4. ASSUME NEW l \in Lock, WaitsFor(l) PROVE l \in {"COM1", "RQ"}
  <2>1. todo[cur] # << >> /\ Head(todo[cur]) = <<"lock", l>> /\ todo[cur] \in Seq(Instr) /\ Only(todo[cur])
    BY <1>4, Zenon DEF WaitsFor, Next1, InHandler, LockTypeOK
  <2>2. Len(todo[cur]) \in Nat \ {0} /\ Head(todo[cur]) = todo[cur][1]
    BY <2>1, EmptySeq, LenProperties
  <2>3. 1 \in 1 .. Len(todo[cur])
    BY <2>2
  <2>4. Head(todo[cur])[2] \in Spoken
    BY <2>1, <2>2, <2>3, Zenon DEF Only
  <2> QED
    BY <2>1, <2>4 DEF Spoken, Lock
<1> QED
  BY <1>3, <1>4, Zenon

\* The steps of a handler, whatever it meets.
LEMMA HandlerSteps ==
  ASSUME InHandler, Acquire \/ Release \/ Mask
  PROVE  InHandler'
<1> DEFINE p == todo[cur]
           i == Head(todo[cur])
<1>1. /\ cur \in Thread /\ p # << >> /\ p \in Seq(Instr) /\ Only(p)
      /\ cur' = cur /\ todo' = [todo EXCEPT ![cur] = Tail(@)]
      /\ todo \in [Thread -> Seq(Instr)] /\ LockTypeOK
  BY Zenon DEF InHandler, LockTypeOK, Acquire, Release, Mask
<1>2. PICK g \in Stage, b \in Stage : /\ "PT_LOCK" \in g.held /\ masked[cur] = FAULT - 1 + g.masked
                                      /\ Runs(g, p, b)
  BY Zenon DEF InHandler
<1>3. PICK c \in Stage : Step(g, i, c) /\ Runs(c, Tail(p), b)
  BY <1>1, <1>2, RunsFirst, Zenon
<1>4. Len(p) \in Nat \ {0} /\ i = p[1] /\ Tail(p) \in Seq(Instr) /\ Len(Tail(p)) = Len(p) - 1
      /\ \A n \in 1 .. (Len(p) - 1) : Tail(p)[n] = p[n + 1]
  BY <1>1, HeadTailProperties, EmptySeq, LenProperties
<1>5. i[2] \in Spoken /\ Only(Tail(p))
  BY <1>1, <1>4 DEF Only
<1>6. todo'[cur] = Tail(p) /\ todo' \in [Thread -> Seq(Instr)]
  BY <1>1, <1>4, Zenon
<1>7. Next1 = i
  BY Zenon DEF Next1
<1> HIDE DEF p, i
<1>8. g.masked \in 0 .. 3 /\ c.masked \in 0 .. 3 /\ g.held \subseteq Lock
  BY DEF Stage
<1>9. /\ "PT_LOCK" \in c.held
      /\ i[1] \in {"lock", "unlock"} => c.masked = g.masked /\ i[2] \in Lock
      /\ i[1] = "cli" => c.masked = g.masked + 1
      /\ i[1] = "sti" => c.masked = g.masked - 1
  BY <1>2, <1>3, <1>5 DEF Step, With, Without, Masked, Spoken
<1>10. masked'[cur] = FAULT - 1 + c.masked /\ LockTypeOK'
       /\ \A l \in Guarded : holder'[l] \in {Nobody, cur}
  <2>1. masked \in [Thread -> 0 .. (FAULT + 2)] /\ holder \in [Lock -> Thread \cup {Nobody}]
    BY <1>1, Zenon DEF LockTypeOK
  <2>2. FAULT - 1 + c.masked \in 0 .. (FAULT + 2)
    BY <1>8 DEF FAULT
  <2>3. \A l \in Guarded : l \in Lock /\ holder[l] \in {Nobody, cur}
    BY Zenon DEF InHandler, Guarded, Lock
  <2>4. CASE Acquire
    <3>1. i[1] = "lock" /\ holder' = [holder EXCEPT ![i[2]] = cur] /\ masked' = masked
      BY <1>7, <2>4, Zenon DEF Acquire
    <3>2. i[2] \in Lock /\ c.masked = g.masked
      BY <1>9, <3>1, Zenon
    <3>3. \A l \in Guarded : holder'[l] \in {Nobody, cur}
      BY <2>1, <2>3, <3>1, <3>2, Zenon
    <3>4. holder' \in [Lock -> Thread \cup {Nobody}]
      BY <1>1, <2>1, <3>1, <3>2, Zenon
    <3> QED
      BY <1>1, <1>2, <2>1, <3>1, <3>2, <3>3, <3>4, Zenon DEF LockTypeOK
  <2>5. CASE Release
    <3>1. i[1] = "unlock" /\ holder' = [holder EXCEPT ![i[2]] = Nobody] /\ masked' = masked
      BY <1>7, <2>5, Zenon DEF Release
    <3>2. i[2] \in Lock /\ c.masked = g.masked
      BY <1>9, <3>1, Zenon
    <3>3. \A l \in Guarded : holder'[l] \in {Nobody, cur}
      BY <2>1, <2>3, <3>1, <3>2, Zenon
    <3>4. holder' \in [Lock -> Thread \cup {Nobody}]
      BY <1>1, <2>1, <3>1, <3>2, Zenon
    <3> QED
      BY <1>1, <1>2, <2>1, <3>1, <3>2, <3>3, <3>4, Zenon DEF LockTypeOK
  <2>6. CASE Mask
    <3>1. /\ i[1] \in {"cli", "sti"} /\ holder' = holder
          /\ masked' = [masked EXCEPT ![cur] = IF i[1] = "cli" THEN masked[cur] + 1 ELSE masked[cur] - 1]
      BY <1>7, <2>6, Zenon DEF Mask
    <3>2. (IF i[1] = "cli" THEN masked[cur] + 1 ELSE masked[cur] - 1) = FAULT - 1 + c.masked
      BY <1>2, <1>8, <1>9, <3>1 DEF FAULT
    <3>3. masked' = [masked EXCEPT ![cur] = FAULT - 1 + c.masked]
      BY <3>1, <3>2, Zenon
    <3>4. masked' \in [Thread -> 0 .. (FAULT + 2)] /\ masked'[cur] = FAULT - 1 + c.masked
      BY <1>1, <2>1, <2>2, <3>3, Zenon
    <3> QED
      BY <1>1, <2>1, <2>3, <3>1, <3>4, Zenon DEF LockTypeOK
  <2> QED
    BY <2>4, <2>5, <2>6, Zenon
<1>11. Only(todo[cur])'
  BY <1>1, <1>5, <1>6, Zenon DEF Only
<1> QED
  BY <1>1, <1>3, <1>6, <1>9, <1>10, <1>11, Zenon DEF InHandler

\* The discipline is kept by threads that are switched wherever interrupts are
\* enabled, until an exception ends one of them.
LEMMA LocksKept == Spec => []LocksIInv
<1>1. ASSUME Working, [Next]_vars PROVE LocksIInv'
  <2>1. CASE UNCHANGED vars
    BY <1>1, <2>1, Zenon DEF vars, LocksIInv, Working, LockTypeOK, Disciplined, StageOf
  <2>2. CASE fault
    BY <1>1, <2>2, faultLocks, Zenon DEF LocksIInv
  <2> QED
    BY <1>1, <2>1, <2>2, BeginLocks, AcquireLocks, ReleaseLocks, MaskLocks, isr_timerLocks, Zenon
       DEF Next, LocksIInv
<1>2. ASSUME InHandler, [Next]_vars PROVE LocksIInv'
  <2>1. CASE UNCHANGED vars
    BY <1>2, <2>1, Zenon DEF vars, LocksIInv, InHandler, LockTypeOK, Only
  <2>2. CASE fault
    BY <1>2, <2>2, faultLocks, Zenon DEF LocksIInv
  <2>3. masked[cur] # 0
    BY <1>2, HandlerAsks, SMT DEF Handling, FAULT
  <2> QED
    BY <1>2, <2>1, <2>2, <2>3, HandlerSteps, Zenon DEF Next, LocksIInv, Begin, isr_timer
<1> QED
  BY <1>1, <1>2, InitLocks, PTL DEF Spec, LocksIInv

-----------------------------------------------------------------------------
(* The properties *)

\* A guarded lock is held by nobody or by the running thread.
LEMMA GuardedAlways ==
  ASSUME LocksIInv, NEW l \in Guarded
  PROVE  holder[l] \in {Nobody, cur} /\ l \in Lock
<1>1. l \in Lock
  BY DEF Lock, Guarded
<1> QED
  BY <1>1, GuardedHeld, Zenon DEF LocksIInv, InHandler

\* For any number of threads, and exceptions at any instruction, the holder of the
\* run queue, of the page tables or of the inner heap lock is never switched away; no
\* thread spins on one of them, but a handler on the run queue that the code it
\* interrupted held; and the timer interrupt finds the run queue free
\* (with_rq_locked, pt_locked, PagingHeap).
THEOREM HoldersNotPreempted == Spec => []NotPreempted
<1>1. LocksIInv => NotPreempted
  <2> SUFFICES ASSUME LocksIInv PROVE NotPreempted
    OBVIOUS
  <2>1. ASSUME NEW l \in Guarded, WaitsFor(l) PROVE Handling /\ l = "RQ"
    <3>1. l \in Lock /\ holder[l] \in {Nobody, cur}
      BY GuardedAlways, Zenon
    <3>2. CASE Working
      BY <2>1, <3>1, <3>2, Asks, LockConstants, Zenon
    <3>3. CASE InHandler
      <4>1. Handling /\ l \in {"COM1", "RQ"}
        BY <2>1, <3>1, <3>3, HandlerAsks, Zenon
      <4> QED
        BY <4>1 DEF Guarded
    <3> QED
      BY <3>2, <3>3, Zenon DEF LocksIInv
  <2>2. ASSUME masked[cur] = 0 PROVE holder["RQ"] = Nobody
    <3>1. CASE Working
      BY <2>2, <3>1, GuardedHeld, Zenon DEF Guarded
    <3>2. CASE InHandler
      BY <2>2, <3>2, HandlerAsks, SMT DEF Handling, FAULT
    <3> QED
      BY <3>1, <3>2, Zenon DEF LocksIInv
  <2> QED
    BY <2>1, <2>2, GuardedAlways, Zenon DEF NotPreempted, Guarded
<1> QED
  BY <1>1, LocksKept, PTL

\* No operation, however it is interleaved, asks for a lock it holds: not the heap
\* under the run queue, nor the frames under the heap or under vmap_alloc_pages.  The
\* handler of an exception, which may come at any instruction, can ask for a lock of
\* its own thread, but for no other than the console and the run queue.
THEOREM NoLockTakenTwice == Spec => []NoSelfDeadlock
<1>1. LocksIInv => NoSelfDeadlock
  BY Asks, HandlerAsks, Zenon DEF NoSelfDeadlock, LocksIInv
<1> QED
  BY <1>1, LocksKept, PTL

\* A processor that spins with interrupts disabled spins on the outer heap lock, the
\* frames, the reservations or the console, or in the handler of an exception on the
\* console or the run queue, and on no other lock.
THEOREM HangsConfined == Spec => []HangOnlyOn
<1>1. ASSUME Working, NEW l \in Lock, Hangs(l)
      PROVE  l \in {"HEAP", "FRAME_ALLOC", "RESV", "COM1"} /\ ~Handling
  <2>1. /\ CanLock(StageOf(cur), l) /\ holder[l] # cur /\ holder[l] \in Thread
        /\ masked[cur] > 0
    BY <1>1, Asks, Zenon DEF Hangs
  <2>2. StageOf(cur).masked = masked[cur]
    BY DEF StageOf
  <2>3. l \notin Open
    BY <2>1, <2>2 DEF CanLock
  <2>4. l \notin Guarded
    BY <1>1, <2>1, GuardedHeld, LockConstants, Zenon
  <2>5. l # "USABLE"
    <3> SUFFICES ASSUME l = "USABLE" PROVE FALSE
      OBVIOUS
    <3>1. "FRAME_ALLOC" \in StageOf(cur).held
      BY <2>1 DEF CanLock
    <3>2. StageOf(holder[l]) \in Stage
      BY <1>1, <2>1, Zenon DEF Working, Disciplined
    <3>3. "USABLE" \in StageOf(holder[l]).held
      BY DEF StageOf
    <3>4. "FRAME_ALLOC" \in StageOf(holder[l]).held
      BY <3>2, <3>3 DEF Stage
    <3> QED
      BY <2>1, <3>1, <3>4 DEF StageOf
  <2>6. ~Handling
    <3>1. StageOf(cur) \in Stage
      BY <1>1, Zenon DEF Working, LockTypeOK, Disciplined
    <3> QED
      BY <2>2, <3>1 DEF Stage, Handling, FAULT
  <2> QED
    BY <2>3, <2>4, <2>5, <2>6, Zenon DEF Lock, Open, Guarded
<1>2. LocksIInv => HangOnlyOn
  BY <1>1, HandlerAsks, Zenon DEF HangOnlyOn, Hangs, LocksIInv
<1> QED
  BY <1>2, LocksKept, PTL

\* At most three sections without interrupts are nested, in a handler too, and only
\* a thread holds a lock.
THEOREM LocksTyped == Spec => []LockTypeOK
<1>1. LocksIInv => LockTypeOK
  BY Zenon DEF LocksIInv, Working, InHandler
<1> QED
  BY <1>1, LocksKept, PTL
=============================================================================
