--------------------------- MODULE TrapEntryProofs ---------------------------
(***************************************************************************)
(* Trap entry and exit, for any set of threads.                            *)
(***************************************************************************)
EXTENDS TrapEntry, FiniteSetTheorems, SequenceTheorems, TLAPS

USE ZenonT(60)

-----------------------------------------------------------------------------
(* The gates *)

\* The vectors of TABLES with an index, in its order.
IstVector == {"DF", "PF", "GP", "BP", "DB", "SPUR", "TIMER"}

\* Each entry of TABLES but the first two has a vector and a stack.
LEMMA Tables ==
  /\ DOMAIN TABLES = 1 .. 9
  /\ TABLES[1].vector = "none" /\ TABLES[2].vector = "UD" /\ TABLES[3].vector = "DF"
  /\ TABLES[4].vector = "PF" /\ TABLES[5].vector = "GP" /\ TABLES[6].vector = "BP"
  /\ TABLES[7].vector = "DB" /\ TABLES[8].vector = "SPUR" /\ TABLES[9].vector = "TIMER"
  /\ \A j \in 1 .. 9 : Indexed(j) <=> j >= 3
<1>1. DOMAIN TABLES = 1 .. 9
  BY SMTT(60) DEF TABLES
<1>2. /\ TABLES[1] = Isr("none", TRUE) /\ TABLES[2] = Isr("UD", FALSE)
      /\ TABLES[3] = Isr("DF", TRUE) /\ TABLES[4] = Isr("PF", TRUE)
      /\ TABLES[5] = Isr("GP", TRUE) /\ TABLES[6] = Isr("BP", TRUE)
      /\ TABLES[7] = Isr("DB", TRUE) /\ TABLES[8] = Isr("SPUR", TRUE)
      /\ TABLES[9] = Isr("TIMER", TRUE)
  BY SMTT(60) DEF TABLES
<1>3. \A v, b : Isr(v, b).vector = v /\ Isr(v, b).stack = b
  BY DEF Isr
<1>4. /\ ~Indexed(1) /\ ~Indexed(2) /\ Indexed(3) /\ Indexed(4) /\ Indexed(5) /\ Indexed(6)
      /\ Indexed(7) /\ Indexed(8) /\ Indexed(9)
  BY <1>2, SMTT(60) DEF Indexed, Isr
<1>5. \A j \in 1 .. 9 : Indexed(j) <=> j >= 3
  <2> SUFFICES ASSUME NEW j \in 1 .. 9 PROVE Indexed(j) <=> j >= 3
    OBVIOUS
  <2>1. j \in 1 .. 2 \/ j \in 3 .. 9
    BY SMTT(60)
  <2>2. CASE j \in 1 .. 2
    <3>1. (j = 1 \/ j = 2) /\ ~(j >= 3)
      BY <2>2, SMTT(60)
    <3> QED
      BY <1>4, <3>1
  <2>3. CASE j \in 3 .. 9
    <3>1. (j = 3 \/ j = 4 \/ j = 5 \/ j = 6 \/ j = 7 \/ j = 8 \/ j = 9) /\ j >= 3
      BY <2>3, SMTT(60)
    <3> QED
      BY <1>4, <3>1
  <2> QED
    BY <2>1, <2>2, <2>3
<1> QED
  BY <1>1, <1>2, <1>3, <1>5

\* The vector of entry k of TABLES has index k - 3.
LEMMA IndexOf ==
  ASSUME NEW k \in 3 .. 9
  PROVE  TABLES[k].vector \in HasStack /\ index(TABLES[k].vector) = k - 3
<1>1. k \in 1 .. 9 /\ Indexed(k)
  BY Tables, SMTT(60)
<1>2. TABLES[k].vector \in HasStack
  BY <1>1, Tables DEF HasStack
<1>3. \A j \in 1 .. 9 : TABLES[j].vector = TABLES[k].vector => j = k
  <2> SUFFICES ASSUME NEW j \in 1 .. 9, TABLES[j].vector = TABLES[k].vector PROVE j = k
    OBVIOUS
  <2>1. /\ j \in {1, 2, 3, 4, 5, 6, 7, 8, 9} /\ k \in {3, 4, 5, 6, 7, 8, 9}
    BY SMTT(60)
  <2> QED
    BY <2>1, Tables, SMTT(60)
<1>4. Entry(TABLES[k].vector) = k
  BY <1>1, <1>3, Tables DEF Entry
<1>5. {j \in 1 .. (k - 1) : Indexed(j)} = 3 .. (k - 1)
  <2>1. \A j \in 1 .. (k - 1) : j \in 1 .. 9
    BY SMTT(60)
  <2>2. \A j \in 1 .. (k - 1) : Indexed(j) <=> j >= 3
    BY <2>1, Tables
  <2> QED
    BY <2>2, SMTT(60)
<1>6. Cardinality(3 .. (k - 1)) = k - 3
  BY FS_Interval, SMTT(60)
<1> QED
  BY <1>2, <1>4, <1>5, <1>6 DEF index

\* The vectors without a stack of their own are the ones without an index and the
\* double fault, whose index is 0; any other has the stack of the vector before it.
LEMMA Gates ==
  /\ HasStack = IstVector
  /\ \A v \in Vector : OnCurrentStack(v) <=> v \in {"DF", "UD", "NONE", "NONE_ERR"}
  /\ \A v \in Vector : ~OnCurrentStack(v) => IstStack(v) \in HasStack
  /\ \A v, w \in Vector :
       ~OnCurrentStack(v) /\ ~OnCurrentStack(w) /\ IstStack(v) = IstStack(w) => v = w
<1>1. HasStack = IstVector
  <2>1. {k \in DOMAIN TABLES : Indexed(k)} = {3, 4, 5, 6, 7, 8, 9}
    BY Tables, SMTT(60)
  <2> QED
    BY <2>1, Tables DEF HasStack, IstVector
<1>2. /\ index("DF") = 0 /\ index("PF") = 1 /\ index("GP") = 2 /\ index("BP") = 3
      /\ index("DB") = 4 /\ index("SPUR") = 5 /\ index("TIMER") = 6
  BY IndexOf, Tables, SMTT(60)
<1>3. /\ index("UD") = 0 /\ index("NONE") = 0 /\ index("NONE_ERR") = 0
  BY <1>1 DEF index, IstVector
<1>4. \A v \in Vector : ist(v) = index(v) /\ index(v) \in 0 .. 6
  <2> SUFFICES ASSUME NEW v \in Vector PROVE ist(v) = index(v) /\ index(v) \in 0 .. 6
    OBVIOUS
  <2>1. v \in IstVector \cup {"UD", "NONE", "NONE_ERR"}
    BY <1>1 DEF Vector
  <2>2. index(v) \in 0 .. 6
    BY <1>2, <1>3, <2>1, SMTT(60) DEF IstVector
  <2> QED
    BY <2>2, SMTT(60) DEF ist
<1>5. \A v \in Vector : OnCurrentStack(v) <=> v \in {"DF", "UD", "NONE", "NONE_ERR"}
  BY <1>1, <1>2, <1>3, <1>4, SMTT(60) DEF OnCurrentStack, Vector, IstVector
<1>6. \A v, w \in IstVector : index(v) = index(w) => v = w
  BY <1>2, SMTT(60) DEF IstVector
<1>7. ASSUME NEW v \in Vector, ~OnCurrentStack(v)
      PROVE  v \in IstVector /\ IstStack(v) \in HasStack /\ index(IstStack(v)) = index(v) - 1
  <2>1. v \in IstVector \ {"DF"}
    BY <1>1, <1>5, <1>7 DEF Vector
  <2>2. \E w \in HasStack : index(w) = index(v) - 1
    BY <1>1, <1>2, <2>1, SMTT(60) DEF IstVector
  <2> QED
    BY <1>4, <2>1, <2>2 DEF IstStack
<1>8. ASSUME NEW v \in Vector, NEW w \in Vector, ~OnCurrentStack(v), ~OnCurrentStack(w),
             IstStack(v) = IstStack(w)
      PROVE  v = w
  <2>1. index(v) - 1 = index(w) - 1 /\ index(v) \in 0 .. 6 /\ index(w) \in 0 .. 6
    BY <1>4, <1>7, <1>8
  <2>2. index(v) = index(w)
    BY <2>1, SMTT(60)
  <2> QED
    BY <1>6, <1>7, <1>8, <2>2
<1> QED
  BY <1>1, <1>5, <1>7, <1>8

-----------------------------------------------------------------------------
(* The inductive invariant *)

Datum == Value \cup Place

Typed ==
  /\ cpu \in [Reg -> Datum] /\ mem \in [Place -> [HwWord -> Datum]]
  /\ tf \in [Place -> [Reg -> Datum]] /\ ctx \in [Task -> [Reg -> Datum]]
  /\ handlers \in Seq([vec : Vector, place : Place, was : [Reg -> Datum]])
  /\ Depth <= MAX_DEPTH
  /\ current \in Task \cup {"boot"}
  /\ phase \in [Task -> {"none", "ready", "entry", "running", "wild"}]
  /\ fate \in {"runs", "halted", "smashed", "astray"}

\* Where the words of the i-th trap are, and no two are in one place.
PlacesApart ==
  /\ \A i \in 1 .. Depth :
       handlers[i].place = IF OnCurrentStack(handlers[i].vec) THEN Below[i]
                           ELSE IstStack(handlers[i].vec)
  /\ \A i, j \in 1 .. Depth : handlers[i].place = handlers[j].place => i = j
  /\ \A i \in 1 .. Depth : handlers[i].vec \in {"TIMER", "SPUR"} => i = 1

\* What a stub has saved is still there: the words and the frame of trap h.
Kept(h) ==
  /\ h.vec # "NONE_ERR" =>
       mem[h.place] = Words(h.was.rip, h.was.cs, h.was.rflags, h.was.rsp)
  /\ h.vec # "SPUR" => tf[h.place].rsp = h.place
  /\ h.vec \notin {"SPUR", "NONE_ERR"} =>
       \A r \in Reg \ ({"rsp"} \cup Lost(h.vec)) : tf[h.place][r] = h.was[r]

\* The spurious stub saves no registers: they are in the processor, or where the
\* trap inside it has put them.
Inner == IF Depth = 1 THEN cpu ELSE handlers[2].was
Unsaved == Depth > 0 /\ handlers[1].vec = "SPUR" => Inner.gpr = handlers[1].was.gpr

Kind == {"rip", "rflags", "gpr"}

\* The interrupted context, or the running one, is the current thread, and the
\* threads that wait have their own registers.
Outer == IF Depth = 0 THEN cpu ELSE handlers[1].was
Whose ==
  /\ \A r \in Kind : Outer[r] = current
  /\ \A t \in Task : phase[t] # "none" =>
       ctx[t].rsp \in Place /\ \A r \in Kind : ctx[t][r] = t

TrapIInv ==
  /\ Typed /\ FramesApart
  /\ fate = "runs" =>
       PlacesApart /\ (\A i \in 1 .. Depth : Kept(handlers[i])) /\ Unsaved /\ Whose

-----------------------------------------------------------------------------
(* Words, registers and stacks of traps *)

\* Four words are words.
LEMMA WordsTyped ==
  ASSUME NEW a \in Datum, NEW b \in Datum, NEW c \in Datum, NEW d \in Datum
  PROVE  Words(a, b, c, d) \in [HwWord -> Datum]
BY SMTT(60) DEF Words, HwWord

\* The values the stubs load.
LEMMA Loaded ==
  /\ {"address", "error", "arg", "entry", "zero", "junk", "CS", "boot"} \subseteq Datum
  /\ Task \subseteq Datum /\ Task \subseteq Place /\ Place \subseteq Datum
  /\ \A d \in 0 .. 2 : InTrap[d + 1] \in Datum /\ Below[d + 1] \in Place
  /\ \A i, j \in 1 .. 3 : Below[i] = Below[j] => i = j
  /\ \A i \in 1 .. 3 : Below[i] \notin HasStack
<1>1. /\ {"address", "error", "arg", "entry", "zero", "junk", "CS", "boot"} \subseteq Datum
      /\ Task \subseteq Datum /\ Task \subseteq Place /\ Place \subseteq Datum
  BY DEF Datum, Value, Context, Place
<1>2. DOMAIN InTrap = 1 .. 3 /\ DOMAIN Below = 1 .. 3
  BY SMTT(60) DEF InTrap, Below
<1>3. \A d \in 0 .. 2 : d + 1 \in 1 .. 3
  BY SMTT(60)
<1>4. \A d \in 0 .. 2 : InTrap[d + 1] \in Datum /\ Below[d + 1] \in Place
  BY <1>2, <1>3 DEF Datum, Value, Context, Place
<1>5. Below[1] = "s1" /\ Below[2] = "s2" /\ Below[3] = "s3"
  BY SMTT(60) DEF Below
<1>6. \A i \in 1 .. 3 : i = 1 \/ i = 2 \/ i = 3
  BY SMTT(60)
<1>7. \A i, j \in 1 .. 3 : Below[i] = Below[j] => i = j
  BY <1>5, <1>6
<1>8. \A i \in 1 .. 3 : Below[i] \notin HasStack
  BY <1>5, <1>6, Gates DEF IstVector
<1> QED
  BY <1>1, <1>4, <1>7, <1>8

\* The registers of a context.
LEMMA OwnTyped ==
  ASSUME NEW c \in Datum
  PROVE  Own(c) \in [Reg -> Datum] /\ \A r \in Kind : Own(c)[r] = c
BY Loaded DEF Own, Kind, Reg

\* What a stub saves of the processor's registers.
LEMMA Saves ==
  ASSUME Typed, NEW v \in Vector, NEW p \in Place
  PROVE  /\ Pushed(v) \in [HwWord -> Datum]
         /\ v # "NONE_ERR" => Pushed(v) = Words(cpu.rip, cpu.cs, cpu.rflags, cpu.rsp)
         /\ BUILD_TF(v, Pushed(v), p) \in [Reg -> Datum]
         /\ BUILD_TF(v, Pushed(v), p).rsp = p
         /\ v \notin {"SPUR", "NONE_ERR"} =>
              \A r \in Reg \ ({"rsp"} \cup Lost(v)) : BUILD_TF(v, Pushed(v), p)[r] = cpu[r]
<1> DEFINE w == Pushed(v)
<1>1. cpu \in [Reg -> Datum] /\ p \in Datum /\ "address" \in Datum /\ "error" \in Datum
  BY Loaded DEF Typed
<1>2. cpu.rip \in Datum /\ cpu.cs \in Datum /\ cpu.rflags \in Datum /\ cpu.rsp \in Datum
  BY <1>1 DEF Reg
<1>3. w \in [HwWord -> Datum] /\ (v # "NONE_ERR" => w = Words(cpu.rip, cpu.cs, cpu.rflags, cpu.rsp))
  BY <1>1, <1>2, WordsTyped DEF Pushed
<1>4. v # "NONE_ERR" => w.rip = cpu.rip /\ w.cs = cpu.cs /\ w.rflags = cpu.rflags
  BY <1>3, SMTT(60) DEF Words
<1>5. w.rip \in Datum /\ w.cs \in Datum /\ w.rflags \in Datum
  BY <1>3 DEF HwWord
<1> HIDE DEF w
<1> DEFINE f == BUILD_TF(v, w, p)
<1>6. f \in [Reg -> Datum]
  BY <1>1, <1>5 DEF BUILD_TF
<1>8. f.rsp = p
  BY <1>1, SMTT(60) DEF BUILD_TF, Reg
<1>7. ASSUME v \notin {"SPUR", "NONE_ERR"}, NEW r \in Reg \ ({"rsp"} \cup Lost(v))
      PROVE  f[r] = cpu[r]
  <2>1. r # "rsp" /\ r # "r12" /\ (v \in WithError => r # "r13")
    BY <1>7 DEF Lost
  <2>2. CASE r = "rip"
    BY <1>1, <1>4, <1>7, <2>2, SMTT(60) DEF BUILD_TF, Reg
  <2>3. CASE r = "cs"
    BY <1>1, <1>4, <1>7, <2>3, SMTT(60) DEF BUILD_TF, Reg
  <2>4. CASE r = "rflags"
    BY <1>1, <1>4, <1>7, <2>4, SMTT(60) DEF BUILD_TF, Reg
  <2>5. CASE r = "r13"
    <3>1. v \notin WithError \ {"NONE_ERR"}
      BY <2>1, <2>5
    <3>2. f = [cpu EXCEPT !["rip"] = w.rip, !["cs"] = w.cs, !["rflags"] = w.rflags, !["rsp"] = p,
                          !["r12"] = "address", !["r13"] = cpu["r13"]]
      BY <3>1 DEF BUILD_TF
    <3> HIDE DEF f
    <3> QED
      BY <1>1, <2>5, <3>2 DEF Reg
  <2>6. CASE r \in {"rax", "gpr"}
    BY <1>1, <2>6 DEF BUILD_TF, Reg
  <2> QED
    BY <2>1, <2>2, <2>3, <2>4, <2>5, <2>6 DEF Reg
<1> QED
  BY <1>3, <1>6, <1>7, <1>8 DEF w

\* A trap is added to the ones being handled.
LEMMA Pushes ==
  ASSUME Typed, NEW h, handlers' = Append(handlers, h)
  PROVE  /\ Depth \in Nat /\ Depth' = Depth + 1 /\ handlers'[Depth + 1] = h
         /\ \A i \in 1 .. Depth : handlers'[i] = handlers[i]
BY SMTT(60) DEF Typed, Depth

\* The innermost is taken away.
LEMMA Pops ==
  ASSUME Typed, handlers # << >>, Returns
  PROVE  /\ Depth \in Nat \ {0} /\ Depth' = Depth - 1
         /\ \A i \in 1 .. (Depth - 1) : handlers'[i] = handlers[i] /\ i \in 1 .. Depth
         /\ handlers' \in Seq([vec : Vector, place : Place, was : [Reg -> Datum]])
<1> DEFINE H == [vec : Vector, place : Place, was : [Reg -> Datum]]
           n == Depth - 1
<1>1. handlers \in Seq(H)
  BY DEF Typed
<1> HIDE DEF H
<1>2. Depth \in Nat \ {0}
  BY <1>1, SMTT(60) DEF Depth
<1>3. handlers' = SubSeq(handlers, 1, n)
  BY DEF Returns
<1>4. n \in Nat /\ 1 \in Int /\ n \in Int /\ \A i \in 1 .. n : i \in 1 .. Len(handlers)
  BY <1>1, <1>2, SMTT(60) DEF Depth
<1> HIDE DEF n
<1>5. handlers' \in Seq(H) /\ Len(handlers') = n /\ \A i \in 1 .. n : handlers'[i] = handlers[i]
  <2>1. \A i \in 1 .. n : handlers[i] \in H
    BY <1>1, <1>4, ElementOfSeq
  <2>2. /\ SubSeq(handlers, 1, n) \in Seq(H)
        /\ Len(SubSeq(handlers, 1, n)) = IF 1 <= n THEN n - 1 + 1 ELSE 0
        /\ \A i \in 1 .. (n - 1 + 1) : SubSeq(handlers, 1, n)[i] = handlers[1 + i - 1]
    BY <1>4, <2>1, SubSeqProperties, SMTT(60)
  <2>3. n - 1 + 1 = n /\ (~(1 <= n) => n = 0) /\ \A i \in 1 .. n : 1 + i - 1 = i
    BY <1>4, SMTT(60)
  <2>4. Len(SubSeq(handlers, 1, n)) = n /\ \A i \in 1 .. n : SubSeq(handlers, 1, n)[i] = handlers[i]
    BY <2>2, <2>3
  <2> QED
    BY <1>3, <2>2, <2>4
<1>6. \A i \in 1 .. (Depth - 1) : i \in 1 .. Depth
  BY <1>2, SMTT(60)
<1> QED
  BY <1>2, <1>5, <1>6 DEF Depth, H, n

-----------------------------------------------------------------------------
(* Returning *)

Handler == [vec : Vector, place : Place, was : [Reg -> Datum]]

\* The innermost trap has what its stub saved, where no other trap has anything.
LEMMA Innermost ==
  ASSUME TrapIInv, fate = "runs", handlers # << >>
  PROVE  /\ Depth \in 1 .. 3 /\ Top \in Handler /\ Kept(Top)
         /\ \A i \in 1 .. (Depth - 1) :
              handlers[i] \in Handler /\ Kept(handlers[i]) /\ handlers[i].place # Top.place
<1>1. /\ handlers \in Seq(Handler) /\ Depth <= MAX_DEPTH /\ MAX_DEPTH \in 1 .. 3
      /\ PlacesApart /\ \A i \in 1 .. Depth : Kept(handlers[i])
  BY TrapConstants DEF TrapIInv, Typed, Handler
<1>2. Depth \in 1 .. 3
  <2>1. Depth \in Nat /\ Depth # 0
    BY <1>1, LenProperties, EmptySeq DEF Depth
  <2>2. Depth <= MAX_DEPTH /\ MAX_DEPTH \in 1 .. 3
    BY <1>1
  <2> QED
    BY <2>1, <2>2, SMTT(60)
<1>3. Depth \in 1 .. Depth /\ \A i \in 1 .. (Depth - 1) : i \in 1 .. Depth /\ i # Depth
  BY <1>2, SMTT(60)
<1>4. \A i \in 1 .. Depth : handlers[i] \in Handler
  BY <1>1, ElementOfSeq DEF Depth
<1> QED
  BY <1>1, <1>2, <1>3, <1>4 DEF PlacesApart, Top

\* A trap that returns takes nothing away from the ones around it.
LEMMA OthersKept ==
  ASSUME TrapIInv, fate = "runs", handlers # << >>, Returns,
         \A p \in Place : p # Top.place => mem'[p] = mem[p] /\ tf'[p] = tf[p]
  PROVE  PlacesApart' /\ \A i \in 1 .. Depth' : Kept(handlers[i])'
<1>1. /\ Depth' = Depth - 1
      /\ \A i \in 1 .. (Depth - 1) : handlers'[i] = handlers[i] /\ i \in 1 .. Depth
  BY Pops DEF TrapIInv
<1>2. PlacesApart'
  BY <1>1 DEF PlacesApart, TrapIInv
<1>3. ASSUME NEW i \in 1 .. Depth' PROVE Kept(handlers[i])'
  <2>1. i \in 1 .. (Depth - 1) /\ handlers'[i] = handlers[i]
    BY <1>1
  <2>2. handlers[i] \in Handler /\ Kept(handlers[i]) /\ handlers[i].place # Top.place
    BY <2>1, Innermost
  <2>3. handlers[i].place \in Place
    BY <2>2 DEF Handler
  <2>4. mem'[handlers[i].place] = mem[handlers[i].place] /\ tf'[handlers[i].place] = tf[handlers[i].place]
    BY <2>2, <2>3
  <2> QED
    BY <2>1, <2>2, <2>4 DEF Kept
<1> QED
  BY <1>2, <1>3

\* A trap that gives rip, flags and registers back keeps the rest of the invariant.
LEMMA ReturnsKept ==
  ASSUME TrapIInv, fate = "runs", handlers # << >>, Returns,
         UNCHANGED <<current, ctx, phase>>,
         \A r \in Kind : cpu'[r] = Top.was[r]
  PROVE  Unsaved' /\ Whose'
<1>1. /\ Depth \in 1 .. 3 /\ Depth' = Depth - 1
      /\ \A i \in 1 .. (Depth - 1) : handlers'[i] = handlers[i]
  BY Innermost, Pops DEF TrapIInv
<1>2. Unsaved /\ Whose
  BY DEF TrapIInv
<1>3. CASE Depth = 1
  <2>1. Depth' = 0 /\ ~(Depth' > 0) /\ ~(Depth = 0)
    BY <1>1, <1>3, SMTT(60)
  <2>2. Outer' = cpu' /\ Outer = Top.was
    BY <1>3, <2>1 DEF Outer, Top
  <2> QED
    BY <1>2, <2>1, <2>2 DEF Unsaved, Whose
<1>4. CASE Depth = 2
  <2>1. Depth' = 1 /\ Depth > 0 /\ ~(Depth = 0) /\ ~(Depth = 1) /\ ~(Depth' = 0) /\ handlers'[1] = handlers[1]
    BY <1>1, <1>4, SMTT(60)
  <2>2. Outer' = Outer /\ Inner' = cpu' /\ Inner = Top.was
    BY <1>4, <2>1 DEF Outer, Inner, Top
  <2>3. "gpr" \in Kind
    BY DEF Kind
  <2> QED
    BY <1>2, <2>1, <2>2, <2>3 DEF Unsaved, Whose
<1>5. CASE Depth = 3
  <2>1. /\ Depth > 0 /\ ~(Depth = 0) /\ ~(Depth = 1) /\ ~(Depth' = 0) /\ ~(Depth' = 1)
        /\ handlers'[1] = handlers[1] /\ handlers'[2] = handlers[2]
    BY <1>1, <1>5, SMTT(60)
  <2>2. Outer' = Outer /\ Inner' = Inner
    BY <2>1 DEF Outer, Inner
  <2> QED
    BY <1>2, <2>1, <2>2 DEF Unsaved, Whose
<1>6. Depth = 1 \/ Depth = 2 \/ Depth = 3
  BY <1>1, SMTT(60)
<1> QED
  BY <1>3, <1>4, <1>5, <1>6

\* Registers every stub gives back.
LEMMA NeverLost == \A v : Kind \subseteq Reg \ Lost(v)
BY DEF Lost, Kind, Reg

\* The stub leaves through the frame it built: what it saved comes back.
LEMMA ReturnGives ==
  ASSUME TrapIInv, Return, Top.vec # "NONE_ERR"
  PROVE  \A r \in Reg \ Lost(Top.vec) : cpu'[r] = Top.was[r]
<1> DEFINE f == tf[Top.place]
<1>1. /\ fate = "runs" /\ handlers # << >> /\ Top.vec # "SPUR"
      /\ cpu' = [r \in Reg |-> IF r = "rsp" THEN mem[f.rsp].rsp ELSE f[r]]
  BY DEF Return, Returning, Leave
<1>2. Kept(Top)
  BY <1>1, Innermost
<1>3. /\ f.rsp = Top.place
      /\ mem[Top.place] = Words(Top.was.rip, Top.was.cs, Top.was.rflags, Top.was.rsp)
      /\ \A r \in Reg \ ({"rsp"} \cup Lost(Top.vec)) : f[r] = Top.was[r]
  BY <1>1, <1>2 DEF Kept
<1>4. mem[Top.place].rsp = Top.was.rsp
  BY <1>3, SMTT(60) DEF Words
<1> HIDE DEF f
<1> QED
  BY <1>1, <1>3, <1>4

\* The spurious stub pops the words, and has left all registers but rax alone.
LEMMA SpuriousGives ==
  ASSUME TrapIInv, ReturnSpurious
  PROVE  \A r \in Reg \ Lost(Top.vec) : cpu'[r] = Top.was[r]
<1>1. /\ fate = "runs" /\ handlers # << >> /\ Top.vec = "SPUR"
      /\ cpu' = [r \in Reg |-> IF r \in HwWord THEN mem[Top.place][r] ELSE cpu[r]]
  BY DEF ReturnSpurious
<1>2. Kept(Top) /\ Depth \in 1 .. 3 /\ PlacesApart /\ Unsaved
  BY <1>1, Innermost DEF TrapIInv
<1>3. mem[Top.place] = Words(Top.was.rip, Top.was.cs, Top.was.rflags, Top.was.rsp)
  BY <1>1, <1>2 DEF Kept
<1>4. \A r \in HwWord : mem[Top.place][r] = Top.was[r]
  BY <1>3, SMTT(60) DEF Words, HwWord
<1>5. Depth = 1
  <2>1. Depth \in 1 .. Depth
    BY <1>2, SMTT(60)
  <2> QED
    BY <1>1, <1>2, <2>1 DEF PlacesApart, Top
<1>6. Depth > 0
  BY <1>5, SMTT(60)
<1>7. cpu.gpr = Top.was.gpr
  BY <1>1, <1>2, <1>5, <1>6 DEF Unsaved, Inner, Top
<1>8. \A r \in Reg \ Lost(Top.vec) : r \in HwWord \/ (r = "gpr" /\ r \notin HwWord)
  <2>1. Lost(Top.vec) = {"rax", "r12", "r13"}
    BY <1>1 DEF Lost, WithError
  <2> QED
    BY <2>1 DEF Reg, HwWord
<1> QED
  BY <1>1, <1>4, <1>7, <1>8

-----------------------------------------------------------------------------
(* The actions keep the invariant *)

\* The registers and the stacks as the processor starts.
LEMMA InitTrap == Init => TrapIInv
<1> SUFFICES ASSUME Init PROVE TrapIInv
  OBVIOUS
<1>1. Depth = 0 /\ ~(Depth > 0) /\ 0 <= MAX_DEPTH /\ \A i \in 1 .. Depth : FALSE
  BY TrapConstants, SMTT(60) DEF Init, Depth
<1>2. Unused \in [HwWord -> Datum] /\ Own("junk") \in [Reg -> Datum] /\ Own("boot") \in [Reg -> Datum]
  BY WordsTyped, OwnTyped, Loaded DEF Unused
<1>3. Typed
  <2>1. handlers \in Seq([vec : Vector, place : Place, was : [Reg -> Datum]])
    BY EmptySeq DEF Init
  <2>2. Depth <= MAX_DEPTH
    BY <1>1
  <2> QED
    BY <1>2, <2>1, <2>2 DEF Init, Typed
<1>4. Whose
  BY <1>1, OwnTyped, Loaded DEF Init, Whose, Outer
<1> QED
  BY <1>1, <1>3, <1>4 DEF TrapIInv, FramesApart, PlacesApart, Unsaved, Init

\* The frame a stub leaves through lies where its trap pushed.
LEMMA LeaveTyped ==
  ASSUME TrapIInv, fate = "runs", handlers # << >>,
         NEW f \in [Reg -> Datum], f.rsp \in Place, Leave(f)
  PROVE  /\ cpu' \in [Reg -> Datum] /\ mem' \in [Place -> [HwWord -> Datum]]
         /\ tf' \in [Place -> [Reg -> Datum]]
         /\ f.rsp = Top.place =>
              \A p \in Place : p # Top.place => mem'[p] = mem[p] /\ tf'[p] = tf[p]
<1>1. mem \in [Place -> [HwWord -> Datum]] /\ tf \in [Place -> [Reg -> Datum]]
  BY DEF TrapIInv, Typed
<1>2. mem[f.rsp].rsp \in Datum
  BY <1>1 DEF HwWord
<1>3. cpu' \in [Reg -> Datum]
  BY <1>2 DEF Leave
<1> DEFINE w == Words(f.rip, f.cs, f.rflags, mem[f.rsp].rsp)
<1>4. w \in [HwWord -> Datum]
  <2>1. f.rip \in Datum /\ f.cs \in Datum /\ f.rflags \in Datum
    BY DEF Reg
  <2> QED
    BY <1>2, <2>1, WordsTyped
<1>5. Unused \in [HwWord -> Datum] /\ Own("junk") \in [Reg -> Datum]
  BY WordsTyped, OwnTyped, Loaded DEF Unused
<1>6. mem' = [mem EXCEPT ![f.rsp] = w, ![Top.place] = Unused]
  BY DEF Leave
<1>7. tf' = [tf EXCEPT ![Top.place] = Own("junk")]
  BY DEF Leave
<1> HIDE DEF w
<1>8. mem' \in [Place -> [HwWord -> Datum]] /\ tf' \in [Place -> [Reg -> Datum]]
  BY <1>1, <1>4, <1>5, <1>6, <1>7
<1>9. ASSUME f.rsp = Top.place, NEW p \in Place, p # Top.place
      PROVE  mem'[p] = mem[p] /\ tf'[p] = tf[p]
  BY <1>1, <1>6, <1>7, <1>9
<1> QED
  BY <1>3, <1>8, <1>9

\* The stacks of traps stay within their bound when one returns.
LEMMA PopsTyped ==
  ASSUME Typed, handlers # << >>, Returns,
         cpu' \in [Reg -> Datum], mem' \in [Place -> [HwWord -> Datum]],
         tf' \in [Place -> [Reg -> Datum]], ctx' \in [Task -> [Reg -> Datum]],
         current' \in Task \cup {"boot"},
         phase' \in [Task -> {"none", "ready", "entry", "running", "wild"}],
         fate' \in {"runs", "halted", "smashed", "astray"}
  PROVE  Typed'
<1>1. /\ Depth \in Nat \ {0} /\ Depth' = Depth - 1 /\ Depth <= MAX_DEPTH
      /\ handlers' \in Seq([vec : Vector, place : Place, was : [Reg -> Datum]])
  BY Pops DEF Typed
<1>2. Depth' <= MAX_DEPTH
  BY <1>1, TrapConstants, SMTT(60)
<1> QED
  BY <1>1, <1>2 DEF Typed

\* A return gives the context around the trap its registers back.
LEMMA ReturnInv ==
  ASSUME TrapIInv, Return
  PROVE  TrapIInv'
<1> DEFINE f == tf[Top.place]
<1>1. /\ fate = "runs" /\ handlers # << >> /\ Top.vec # "SPUR" /\ Leave(f) /\ Returns
      /\ fate' \in {"runs", "astray"} /\ (Top.vec = "NONE_ERR" => fate' = "astray")
      /\ UNCHANGED <<current, ctx, phase>>
  BY DEF Return, Returning
<1>2. Top \in Handler /\ Kept(Top)
  BY <1>1, Innermost
<1>3. Top.place \in Place /\ f.rsp = Top.place /\ f \in [Reg -> Datum]
  BY <1>1, <1>2 DEF Handler, Kept, TrapIInv, Typed
<1> HIDE DEF f
<1>4. /\ cpu' \in [Reg -> Datum] /\ mem' \in [Place -> [HwWord -> Datum]]
      /\ tf' \in [Place -> [Reg -> Datum]]
      /\ \A p \in Place : p # Top.place => mem'[p] = mem[p] /\ tf'[p] = tf[p]
  BY <1>1, <1>3, LeaveTyped
<1>5. Typed'
  BY <1>1, <1>4, PopsTyped DEF TrapIInv, Typed
<1>6. ASSUME fate' = "runs"
      PROVE  PlacesApart' /\ (\A i \in 1 .. Depth' : Kept(handlers[i])') /\ Unsaved' /\ Whose'
  <2>1. Top.vec # "NONE_ERR"
    BY <1>1, <1>6
  <2>2. \A r \in Kind : cpu'[r] = Top.was[r]
    BY <2>1, ReturnGives, NeverLost
  <2> QED
    BY <1>1, <1>4, <2>2, OthersKept, ReturnsKept
<1>7. FramesApart'
  BY <1>1 DEF FramesApart
<1> QED
  BY <1>5, <1>6, <1>7 DEF TrapIInv

\* So does the return of the spurious interrupt.
LEMMA ReturnSpuriousInv ==
  ASSUME TrapIInv, ReturnSpurious
  PROVE  TrapIInv'
<1>1. /\ fate = "runs" /\ handlers # << >> /\ Returns
      /\ cpu' = [r \in Reg |-> IF r \in HwWord THEN mem[Top.place][r] ELSE cpu[r]]
      /\ mem' = [mem EXCEPT ![Top.place] = Unused]
      /\ UNCHANGED <<tf, current, ctx, phase, fate>>
  BY DEF ReturnSpurious
<1>2. Top.place \in Place
  BY <1>1, Innermost DEF Handler
<1>3. /\ mem \in [Place -> [HwWord -> Datum]] /\ tf \in [Place -> [Reg -> Datum]]
      /\ cpu \in [Reg -> Datum] /\ Unused \in [HwWord -> Datum]
  BY WordsTyped, Loaded DEF TrapIInv, Typed, Unused
<1>4. /\ cpu' \in [Reg -> Datum] /\ mem' \in [Place -> [HwWord -> Datum]]
      /\ \A p \in Place : p # Top.place => mem'[p] = mem[p] /\ tf'[p] = tf[p]
  BY <1>1, <1>2, <1>3
<1>5. Typed'
  BY <1>1, <1>3, <1>4, PopsTyped DEF TrapIInv, Typed
<1>6. \A r \in Kind : cpu'[r] = Top.was[r]
  BY SpuriousGives, NeverLost
<1>7. PlacesApart' /\ (\A i \in 1 .. Depth' : Kept(handlers[i])') /\ Unsaved' /\ Whose'
  BY <1>1, <1>4, <1>6, OthersKept, ReturnsKept
<1>8. FramesApart'
  BY <1>1 DEF FramesApart
<1> QED
  BY <1>5, <1>7, <1>8 DEF TrapIInv

\* A thread that waits is resumed with its own registers, and the one that is
\* interrupted keeps its own in its frame.
LEMMA SwitchInv ==
  ASSUME TrapIInv, NEW t \in Task, Switch(t)
  PROVE  TrapIInv'
<1>1. /\ fate = "runs" /\ handlers # << >> /\ Top.vec = "TIMER" /\ t # current
      /\ phase[t] # "none" /\ ctx' = saved /\ current' = t /\ Leave(ctx[t]) /\ Returns
      /\ phase' = [phase EXCEPT ![t] = IF @ = "ready" THEN "entry" ELSE @]
      /\ fate' = fate
  BY DEF Switch
<1>2. Typed /\ PlacesApart /\ Whose /\ Top \in Handler /\ Kept(Top) /\ Depth \in 1 .. 3
  BY <1>1, Innermost DEF TrapIInv
<1>3. /\ ctx[t] \in [Reg -> Datum] /\ ctx[t].rsp \in Place /\ \A r \in Kind : ctx[t][r] = t
      /\ Top.place \in Place /\ tf[Top.place] \in [Reg -> Datum]
  BY <1>1, <1>2 DEF Whose, Typed, Handler
<1>4. /\ cpu' \in [Reg -> Datum] /\ mem' \in [Place -> [HwWord -> Datum]]
      /\ tf' \in [Place -> [Reg -> Datum]]
  BY <1>1, <1>3, LeaveTyped
<1>5. Depth = 1
  <2>1. Depth \in 1 .. Depth
    BY <1>2, SMTT(60)
  <2> QED
    BY <1>1, <1>2, <2>1 DEF PlacesApart, Top
<1>6. Depth' = 0 /\ ~(Depth' > 0) /\ ~(Depth = 0) /\ \A i \in 1 .. Depth' : FALSE
  <2>1. Depth' = Depth - 1
    BY <1>1, <1>2, Pops
  <2> QED
    BY <1>5, <2>1, SMTT(60)
<1>7. ctx' \in [Task -> [Reg -> Datum]]
  BY <1>1, <1>2, <1>3 DEF saved, Typed
<1>8. phase' \in [Task -> {"none", "ready", "entry", "running", "wild"}]
  BY <1>1, <1>2 DEF Typed
<1>9. Typed'
  BY <1>1, <1>2, <1>4, <1>7, <1>8, PopsTyped DEF Typed
<1>10. \A r \in Kind : cpu'[r] = t
  <2>1. \A r \in Kind : r \in Reg /\ r # "rsp"
    BY DEF Kind, Reg
  <2> QED
    BY <1>1, <1>3, <2>1 DEF Leave
<1>11. \A r \in Kind : tf[Top.place][r] = current
  <2>1. Outer = Top.was
    BY <1>5, <1>6 DEF Outer, Top
  <2>2. \A r \in Kind : Top.was[r] = current
    BY <1>2, <2>1 DEF Whose
  <2>3. \A r \in Kind : r \in Reg \ ({"rsp"} \cup Lost(Top.vec))
    BY NeverLost DEF Kind
  <2> QED
    BY <1>1, <1>2, <2>2, <2>3 DEF Kept
<1>12. ASSUME NEW u \in Task, phase'[u] # "none"
       PROVE  ctx'[u].rsp \in Place /\ \A r \in Kind : ctx'[u][r] = u
  <2>1. CASE u = current
    <3>1. ctx'[u] = tf[Top.place]
      BY <1>1, <1>2, <2>1, TrapConstants DEF saved, Typed
    <3>2. tf[Top.place].rsp = Top.place
      BY <1>1, <1>2 DEF Kept
    <3> QED
      BY <1>3, <1>11, <2>1, <3>1, <3>2
  <2>2. CASE u # current
    <3>1. ctx'[u] = ctx[u]
      BY <1>1, <1>2, <2>2 DEF saved, Typed
    <3>2. phase[u] # "none"
      BY <1>1, <1>2, <1>12 DEF Typed
    <3> QED
      BY <1>2, <3>1, <3>2 DEF Whose
  <2> QED
    BY <2>1, <2>2
<1>13. Whose'
  <2>1. Outer' = cpu'
    BY <1>6 DEF Outer
  <2> QED
    BY <1>1, <1>10, <1>12, <2>1 DEF Whose
<1>14. PlacesApart' /\ (\A i \in 1 .. Depth' : Kept(handlers[i])') /\ Unsaved'
  BY <1>6 DEF PlacesApart, Unsaved
<1>15. FramesApart'
  BY <1>1 DEF FramesApart
<1> QED
  BY <1>9, <1>13, <1>14, <1>15 DEF TrapIInv

\* A handler that halts leaves everything as it is.
LEMMA ExitInv ==
  ASSUME TrapIInv, Exit
  PROVE  TrapIInv'
<1>1. /\ fate' = "halted" /\ Typed
      /\ UNCHANGED <<cpu, mem, tf, handlers, current, ctx, phase>>
  BY DEF Exit, TrapIInv
<1>2. Typed'
  BY <1>1 DEF Typed, Depth
<1> QED
  BY <1>1, <1>2 DEF TrapIInv, FramesApart

\* With no trap being handled there is nothing saved to disturb.
LEMMA NothingSaved ==
  ASSUME TrapIInv, Thread, UNCHANGED <<handlers, fate>>, Typed', Whose'
  PROVE  TrapIInv'
<1>1. Depth = 0 /\ Depth' = 0
  BY SMTT(60) DEF Thread, Depth
<1>2. ~(Depth' > 0) /\ \A i \in 1 .. Depth' : FALSE
  BY <1>1, SMTT(60)
<1>3. fate' = "runs"
  BY DEF Thread
<1> QED
  BY <1>2, <1>3 DEF TrapIInv, PlacesApart, Unsaved, FramesApart

\* A new thread has its registers in its first frame, and its stack as its place.
LEMMA spawn_kthreadInv ==
  ASSUME TrapIInv, NEW t \in Task, spawn_kthread(t)
  PROVE  TrapIInv'
<1>1. /\ Thread /\ phase' = [phase EXCEPT ![t] = "ready"]
      /\ mem' = [mem EXCEPT ![t] = Words("arg", "entry", "zero", "junk")]
      /\ ctx' = [ctx EXCEPT ![t] = Own(t)]
      /\ UNCHANGED <<cpu, tf, handlers, current, fate>> /\ Typed /\ Whose
  BY DEF spawn_kthread, TrapIInv, Thread
<1>2. /\ Own(t) \in [Reg -> Datum] /\ t \in Place /\ Own(t).rsp = t /\ \A r \in Kind : Own(t)[r] = t
      /\ Words("arg", "entry", "zero", "junk") \in [HwWord -> Datum]
  <2>1. t \in Datum /\ t \in Place
    BY Loaded
  <2>2. Own(t).rsp = t
    BY DEF Own, Reg
  <2> QED
    BY <2>1, <2>2, OwnTyped, WordsTyped, Loaded
<1>3. Typed'
  BY <1>1, <1>2 DEF Typed, Depth
<1>4. ASSUME NEW u \in Task, phase'[u] # "none"
      PROVE  ctx'[u].rsp \in Place /\ \A r \in Kind : ctx'[u][r] = u
  <2>1. CASE u = t
    BY <1>1, <1>2, <2>1 DEF Typed
  <2>2. CASE u # t
    <3>1. ctx'[u] = ctx[u] /\ phase'[u] = phase[u]
      BY <1>1, <2>2 DEF Typed
    <3> QED
      BY <1>1, <1>4, <3>1 DEF Whose
  <2> QED
    BY <2>1, <2>2
<1>5. Outer' = Outer
  BY <1>1 DEF Outer, Depth
<1>6. Whose'
  BY <1>1, <1>4, <1>5 DEF Whose
<1> QED
  BY <1>1, <1>3, <1>6, NothingSaved

\* The trampoline of a thread changes what is known of it, and nothing saved.
LEMMA kthread_trampolineInv ==
  ASSUME TrapIInv, NEW t \in Task, kthread_trampoline(t)
  PROVE  TrapIInv'
<1>1. /\ Thread /\ phase[t] = "entry"
      /\ phase' = [phase EXCEPT ![t] = IF AtLayout(t) THEN "running" ELSE "wild"]
      /\ UNCHANGED <<cpu, mem, tf, handlers, current, ctx, fate>> /\ Typed /\ Whose
  BY DEF kthread_trampoline, TrapIInv, Thread
<1>2. Typed'
  BY <1>1 DEF Typed, Depth
<1>3. \A u \in Task : phase'[u] # "none" => phase[u] # "none"
  BY <1>1 DEF Typed
<1>4. Outer' = Outer
  BY <1>1 DEF Outer, Depth
<1>5. Whose'
  BY <1>1, <1>3, <1>4 DEF Whose
<1> QED
  BY <1>1, <1>2, <1>5, NothingSaved

\* A context loads registers with values of its own.
LEMMA ComputeInv ==
  ASSUME TrapIInv, Compute
  PROVE  TrapIInv'
<1>1. /\ Thread /\ Typed /\ Whose
      /\ cpu' = [cpu EXCEPT !.rax = current, !.r12 = current, !.r13 = current]
      /\ UNCHANGED <<mem, tf, handlers, current, ctx, phase, fate>>
  BY DEF Compute, TrapIInv, Thread
<1>2. current \in Datum /\ cpu \in [Reg -> Datum]
  BY <1>1, Loaded DEF Typed
<1>3. cpu' \in [Reg -> Datum] /\ \A r \in Kind : cpu'[r] = cpu[r]
  BY <1>1, <1>2 DEF Kind, Reg
<1>4. Typed'
  BY <1>1, <1>3 DEF Typed, Depth
<1>5. Depth = 0 /\ Depth' = 0
  BY <1>1, SMTT(60) DEF Thread, Depth
<1>6. Whose'
  BY <1>1, <1>3, <1>5 DEF Whose, Outer
<1> QED
  BY <1>1, <1>4, <1>6, NothingSaved

\* Where a trap pushes is where the invariant says, and a place of its own unless
\* its vector is being handled.
LEMMA PlaceOfTrap ==
  ASSUME TrapIInv, fate = "runs", NEW v \in Vector, Depth < MAX_DEPTH
  PROVE  /\ Depth \in 0 .. 2 /\ PlaceOf(v) \in Place
         /\ \A i \in 1 .. Depth : handlers[i].place = PlaceOf(v) => handlers[i].vec = v
<1>1. handlers \in Seq(Handler) /\ PlacesApart /\ MAX_DEPTH \in 1 .. 3
  BY TrapConstants DEF TrapIInv, Typed, Handler
<1>2. Depth \in Nat
  BY <1>1, LenProperties DEF Depth
<1>3. Depth \in 0 .. 2 /\ Depth + 1 \in 1 .. 3
  BY <1>1, <1>2, SMTT(60)
<1>4. ~OnCurrentStack(v) => IstStack(v) \in HasStack
  BY Gates
<1>5. PlaceOf(v) \in Place
  BY <1>3, <1>4, Loaded DEF PlaceOf, Place
<1>6. ASSUME NEW i \in 1 .. Depth, handlers[i].place = PlaceOf(v) PROVE handlers[i].vec = v
  <2>1. i \in 1 .. 3 /\ i # Depth + 1
    BY <1>3, SMTT(60)
  <2>2. handlers[i].vec \in Vector
    <3>1. handlers[i] \in Handler
      BY <1>1, ElementOfSeq DEF Depth
    <3> QED
      BY <3>1 DEF Handler
  <2>3. handlers[i].place = IF OnCurrentStack(handlers[i].vec) THEN Below[i]
                            ELSE IstStack(handlers[i].vec)
    BY <1>1 DEF PlacesApart
  <2>4. CASE OnCurrentStack(v)
    <3>1. handlers[i].place = Below[Depth + 1]
      BY <1>6, <2>4 DEF PlaceOf
    <3>2. CASE OnCurrentStack(handlers[i].vec)
      BY <1>3, <2>1, <2>3, <3>1, <3>2, Loaded
    <3>3. CASE ~OnCurrentStack(handlers[i].vec)
      <4>1. handlers[i].place \in HasStack
        BY <2>2, <2>3, <3>3, Gates
      <4>2. Below[Depth + 1] \notin HasStack
        BY <1>3, Loaded
      <4> QED
        BY <3>1, <4>1, <4>2
    <3> QED
      BY <3>2, <3>3
  <2>5. CASE ~OnCurrentStack(v)
    <3>1. handlers[i].place = IstStack(v)
      BY <1>6, <2>5 DEF PlaceOf
    <3>2. CASE OnCurrentStack(handlers[i].vec)
      BY <1>4, <2>1, <2>3, <2>5, <3>1, <3>2, Loaded
    <3>3. CASE ~OnCurrentStack(handlers[i].vec)
      BY <2>2, <2>3, <2>5, <3>1, <3>3, Gates
    <3> QED
      BY <3>2, <3>3
  <2> QED
    BY <2>4, <2>5
<1> QED
  BY <1>3, <1>5, <1>6

\* The words of a trap overwrite another's only if its vector recurs, or if it has
\* no stack and the thread is not on its own.
LEMMA SmashedInv ==
  ASSUME TrapIInv, NEW v \in Vector, Trap(v), Overwrites(v)
  PROVE  TrapIInv'
<1> DEFINE h == [vec |-> v, place |-> PlaceOf(v), was |-> cpu]
<1>1. /\ fate = "runs" /\ Depth < MAX_DEPTH /\ handlers' = Append(handlers, h)
      /\ fate' = "smashed" /\ UNCHANGED <<cpu, mem, tf, current, ctx, phase>> /\ Typed
  BY DEF Trap, TrapIInv
<1>2. /\ Depth \in 0 .. 2 /\ PlaceOf(v) \in Place
      /\ \A i \in 1 .. Depth : handlers[i].place = PlaceOf(v) => handlers[i].vec = v
  BY <1>1, PlaceOfTrap
<1>3. h \in Handler /\ h.vec = v
  BY <1>1, <1>2 DEF Handler, Typed
<1> HIDE DEF h
<1>4. /\ Depth' = Depth + 1 /\ handlers'[Depth + 1] = h
      /\ \A i \in 1 .. Depth : handlers'[i] = handlers[i]
  BY <1>1, Pushes
<1>5. handlers' \in Seq(Handler)
  BY <1>1, <1>3, AppendProperties DEF Typed, Handler
<1>6. Depth' <= MAX_DEPTH
  BY <1>1, <1>2, <1>4, TrapConstants, SMTT(60)
<1>7. Typed'
  BY <1>1, <1>5, <1>6 DEF Typed, Handler
<1>8. Top'.vec = v
  BY <1>3, <1>4 DEF Top
<1>9. Depth' - 1 = Depth
  BY <1>2, <1>4, SMTT(60)
<1>10. CASE \E i \in 1 .. Depth : handlers[i].place = PlaceOf(v)
  <2>1. PICK i \in 1 .. Depth : handlers[i].place = PlaceOf(v)
    BY <1>10
  <2>2. i \in 1 .. (Depth' - 1) /\ handlers'[i].vec = v
    BY <1>2, <1>4, <1>9, <2>1
  <2> QED
    BY <1>1, <1>7, <1>8, <2>2 DEF TrapIInv, FramesApart
<1>11. CASE OnCurrentStack(v) /\ handlers = << >> /\ cpu.rsp # current
  <2>1. v \in {"UD", "DF", "NONE", "NONE_ERR"}
    BY <1>11, Gates
  <2>2. Depth' = 1
    BY <1>4, <1>11, SMTT(60) DEF Depth
  <2> QED
    BY <1>1, <1>7, <1>8, <1>11, <2>1, <2>2 DEF TrapIInv, FramesApart
<1> QED
  BY <1>10, <1>11 DEF Overwrites

\* A trap that overwrites nothing saves the registers where no other trap has any.
LEMMA TrapInv ==
  ASSUME TrapIInv, NEW v \in Vector, Trap(v), ~Overwrites(v)
  PROVE  TrapIInv'
<1> DEFINE p == PlaceOf(v)
           h == [vec |-> v, place |-> p, was |-> cpu]
           w == Pushed(v)
           f == BUILD_TF(v, w, p)
           d == InTrap[Depth + 1]
<1>1. /\ fate = "runs" /\ fate' = "runs" /\ Depth < MAX_DEPTH /\ handlers' = Append(handlers, h)
      /\ mem' = [mem EXCEPT ![p] = w]
      /\ tf' = IF v = "SPUR" THEN tf ELSE [tf EXCEPT ![p] = f]
      /\ cpu' = IF v = "SPUR"
                THEN [cpu EXCEPT !.rip = d, !.rflags = d, !.rsp = d, !.rax = "junk"]
                ELSE Own(d)
      /\ v \in {"TIMER", "SPUR"} => handlers = << >>
      /\ UNCHANGED <<current, ctx, phase>> /\ Typed /\ PlacesApart
      /\ (\A i \in 1 .. Depth : Kept(handlers[i])) /\ Unsaved /\ Whose
  BY DEF Trap, TrapIInv
<1>2. Depth \in 0 .. 2 /\ p \in Place /\ \A i \in 1 .. Depth : handlers[i].place # p
  BY <1>1, PlaceOfTrap DEF Overwrites
<1>3. /\ w \in [HwWord -> Datum] /\ f \in [Reg -> Datum] /\ f.rsp = p
      /\ v # "NONE_ERR" => w = Words(cpu.rip, cpu.cs, cpu.rflags, cpu.rsp)
      /\ v \notin {"SPUR", "NONE_ERR"} =>
           \A r \in Reg \ ({"rsp"} \cup Lost(v)) : f[r] = cpu[r]
  BY <1>1, <1>2, Saves
<1>4. d \in Datum
  BY <1>2, Loaded
<1>5. p = IF OnCurrentStack(v) THEN Below[Depth + 1] ELSE IstStack(v)
  BY DEF PlaceOf
<1> HIDE DEF p, w, f, d
<1>6. /\ cpu \in [Reg -> Datum] /\ mem \in [Place -> [HwWord -> Datum]]
      /\ tf \in [Place -> [Reg -> Datum]] /\ handlers \in Seq(Handler)
  BY <1>1 DEF Typed, Handler
<1>7. h \in Handler /\ h.vec = v /\ h.place = p /\ h.was = cpu
  BY <1>2, <1>6 DEF Handler
<1> HIDE DEF h
<1>8. /\ Depth' = Depth + 1 /\ handlers'[Depth + 1] = h
      /\ \A i \in 1 .. Depth : handlers'[i] = handlers[i]
  BY <1>1, Pushes
<1>9. \A i \in 1 .. Depth' : i \in 1 .. Depth \/ i = Depth + 1
  BY <1>2, <1>8, SMTT(60)
<1>10. Typed'
  <2>1. Depth' <= MAX_DEPTH
    BY <1>1, <1>2, <1>8, TrapConstants, SMTT(60)
  <2>2. handlers' \in Seq(Handler)
    BY <1>1, <1>6, <1>7, AppendProperties
  <2>3. cpu' \in [Reg -> Datum]
    BY <1>1, <1>4, <1>6, OwnTyped, Loaded
  <2>4. mem' \in [Place -> [HwWord -> Datum]] /\ tf' \in [Place -> [Reg -> Datum]]
    BY <1>1, <1>2, <1>3, <1>6
  <2> QED
    BY <1>1, <2>1, <2>2, <2>3, <2>4 DEF Typed, Handler
<1>11. PlacesApart'
  <2>1. \A i \in 1 .. Depth' :
          handlers'[i].place = IF OnCurrentStack(handlers'[i].vec) THEN Below[i]
                               ELSE IstStack(handlers'[i].vec)
    <3> SUFFICES ASSUME NEW i \in 1 .. Depth'
                 PROVE  handlers'[i].place = IF OnCurrentStack(handlers'[i].vec) THEN Below[i]
                                             ELSE IstStack(handlers'[i].vec)
      OBVIOUS
    <3>1. CASE i = Depth + 1
      <4>1. handlers'[i].vec = v /\ handlers'[i].place = p
        BY <1>7, <1>8, <3>1
      <4> QED
        BY <1>5, <3>1, <4>1
    <3>2. CASE i \in 1 .. Depth
      BY <1>1, <1>8, <3>2 DEF PlacesApart
    <3> QED
      BY <1>9, <3>1, <3>2
  <2>2. \A i, j \in 1 .. Depth' : handlers'[i].place = handlers'[j].place => i = j
    <3>1. \A i \in 1 .. Depth : handlers'[i] = handlers[i] /\ handlers[i].place # p
      BY <1>2, <1>8
    <3>2. handlers'[Depth + 1].place = p
      BY <1>7, <1>8
    <3>3. \A i, j \in 1 .. Depth : handlers[i].place = handlers[j].place => i = j
      BY <1>1 DEF PlacesApart
    <3> QED
      BY <1>9, <3>1, <3>2, <3>3
  <2>3. v \in {"TIMER", "SPUR"} => Depth + 1 = 1
    BY <1>1, SMTT(60) DEF Depth
  <2>4. \A i \in 1 .. Depth' : handlers'[i].vec \in {"TIMER", "SPUR"} => i = 1
    <3> SUFFICES ASSUME NEW i \in 1 .. Depth', handlers'[i].vec \in {"TIMER", "SPUR"} PROVE i = 1
      OBVIOUS
    <3>1. CASE i = Depth + 1
      BY <1>7, <1>8, <2>3, <3>1
    <3>2. CASE i \in 1 .. Depth
      BY <1>1, <1>8, <3>2 DEF PlacesApart
    <3> QED
      BY <1>9, <3>1, <3>2
  <2> QED
    BY <2>1, <2>2, <2>4 DEF PlacesApart
<1>12. ASSUME NEW i \in 1 .. Depth' PROVE Kept(handlers[i])'
  <2>1. CASE i = Depth + 1
    <3>1. handlers'[i] = h
      BY <1>8, <2>1
    <3>2. mem'[p] = w /\ (v # "SPUR" => tf'[p] = f)
      BY <1>1, <1>2, <1>6
    <3> QED
      BY <1>3, <1>7, <3>1, <3>2 DEF Kept
  <2>2. CASE i \in 1 .. Depth
    <3>1. handlers'[i] = handlers[i] /\ handlers[i].place # p /\ Kept(handlers[i])
      BY <1>1, <1>2, <1>8, <2>2
    <3>2. handlers[i].place \in Place
      <4>1. handlers[i] \in Handler
        BY <1>6, <2>2, ElementOfSeq DEF Depth
      <4> QED
        BY <4>1 DEF Handler
    <3>3. mem'[handlers[i].place] = mem[handlers[i].place] /\ tf'[handlers[i].place] = tf[handlers[i].place]
      BY <1>1, <1>6, <3>1, <3>2
    <3> QED
      BY <3>1, <3>3 DEF Kept
  <2> QED
    BY <1>9, <2>1, <2>2
<1>13. Unsaved' /\ Whose'
  <2>1. CASE Depth = 0
    <3>1. Depth' = 1 /\ handlers'[1] = h /\ ~(Depth' = 0)
      BY <1>8, <2>1, SMTT(60)
    <3>2. Outer' = cpu /\ Outer = cpu /\ Inner' = cpu'
      BY <1>7, <2>1, <3>1 DEF Outer, Inner
    <3>3. v = "SPUR" => cpu'.gpr = cpu.gpr
      BY <1>1, <1>6 DEF Reg
    <3> QED
      BY <1>1, <1>7, <3>1, <3>2, <3>3 DEF Unsaved, Whose
  <2>2. CASE Depth = 1
    <3>1. /\ Depth' = 2 /\ handlers'[1] = handlers[1] /\ handlers'[2] = h
          /\ ~(Depth' = 0) /\ ~(Depth' = 1) /\ ~(Depth = 0) /\ Depth > 0
      BY <1>8, <2>2, SMTT(60)
    <3>2. Outer' = Outer /\ Inner' = cpu /\ Inner = cpu
      BY <1>7, <2>2, <3>1 DEF Outer, Inner
    <3> QED
      BY <1>1, <3>1, <3>2 DEF Unsaved, Whose
  <2>3. CASE Depth = 2
    <3>1. /\ handlers'[1] = handlers[1] /\ handlers'[2] = handlers[2]
          /\ ~(Depth' = 0) /\ ~(Depth' = 1) /\ ~(Depth = 0) /\ ~(Depth = 1) /\ Depth > 0
      BY <1>8, <2>3, SMTT(60)
    <3>2. Outer' = Outer /\ Inner' = Inner
      BY <3>1 DEF Outer, Inner
    <3> QED
      BY <1>1, <3>1, <3>2 DEF Unsaved, Whose
  <2>4. Depth = 0 \/ Depth = 1 \/ Depth = 2
    BY <1>2, SMTT(60)
  <2> QED
    BY <2>1, <2>2, <2>3, <2>4
<1>14. FramesApart'
  BY <1>1 DEF FramesApart
<1> QED
  BY <1>10, <1>11, <1>12, <1>13, <1>14 DEF TrapIInv

\* The invariant holds throughout.
LEMMA TrapsKept == Spec => []TrapIInv
<1>1. ASSUME TrapIInv, [Next]_vars PROVE TrapIInv'
  <2>1. CASE UNCHANGED vars
    <3>1. /\ cpu' = cpu /\ mem' = mem /\ tf' = tf /\ handlers' = handlers
          /\ current' = current /\ ctx' = ctx /\ phase' = phase /\ fate' = fate
      BY <2>1 DEF vars
    <3>2. Depth' = Depth /\ Top' = Top
      BY <3>1 DEF Depth, Top
    <3>3. Inner' = Inner /\ Outer' = Outer
      BY <3>1, <3>2 DEF Inner, Outer
    <3>4. Typed' /\ FramesApart'
      BY <1>1, <3>1, <3>2 DEF TrapIInv, Typed, FramesApart
    <3>5. fate = "runs" => PlacesApart' /\ \A i \in 1 .. Depth' : Kept(handlers[i])'
      BY <1>1, <3>1, <3>2 DEF TrapIInv, PlacesApart, Kept
    <3>6. fate = "runs" => Unsaved' /\ Whose'
      BY <1>1, <3>1, <3>2, <3>3 DEF TrapIInv, Unsaved, Whose
    <3> QED
      BY <3>1, <3>4, <3>5, <3>6 DEF TrapIInv
  <2>2. CASE \E v \in Vector : Trap(v)
    BY <1>1, <2>2, TrapInv, SmashedInv
  <2>3. CASE \E t \in Task : Switch(t) \/ spawn_kthread(t) \/ kthread_trampoline(t)
    BY <1>1, <2>3, SwitchInv, spawn_kthreadInv, kthread_trampolineInv
  <2> QED
    BY <1>1, <2>1, <2>2, <2>3, ReturnInv, ReturnSpuriousInv, ExitInv, ComputeInv DEF Next
<1> QED
  BY <1>1, InitTrap, PTL DEF Spec

-----------------------------------------------------------------------------
(* The properties *)

\* Through any sequence of traps and switches, for any number of threads, the code
\* that runs outside a handler is the current thread's: rip, flags and the general
\* registers the stubs save are its own (tick, isr_timer_rust).
THEOREM ThreadsKeepRegisters == Spec => []SwitchKeeps
<1>1. TrapIInv => SwitchKeeps
  <2> SUFFICES ASSUME TrapIInv, Thread PROVE \A r \in Kind : cpu[r] = current
    BY DEF SwitchKeeps, Kind
  <2>1. Depth = 0
    BY SMTT(60) DEF Thread, Depth
  <2>2. Outer = cpu
    BY <2>1 DEF Outer
  <2> QED
    BY <2>2 DEF TrapIInv, Whose, Thread
<1> QED
  BY <1>1, TrapsKept, PTL

\* A trap overwrites the frame of another only when its vector recurs, or when it
\* has no stack and the thread is not on its own, although each vector runs on the
\* stack made for its neighbour (gdt.rs 62, idt.rs 66).
THEOREM TrapFramesApart == Spec => []FramesApart
<1>1. TrapIInv => FramesApart
  BY DEF TrapIInv
<1> QED
  BY <1>1, TrapsKept, PTL

\* A trap that returns without a switch gives the interrupted code its rip, flags,
\* stack pointer and registers back, but for those the stubs load before they save
\* (isr_stubs.asm).
THEOREM TrapsResume == Spec => Resumes
<1> DEFINE Gives ==
      Returns /\ handlers # << >> /\ current' = current /\ fate' = "runs" =>
        \A r \in Reg \ Lost(Top.vec) : cpu'[r] = Top.was[r]
<1>1. ASSUME TrapIInv, Next PROVE Gives
  <2> SUFFICES ASSUME Returns, handlers # << >>, current' = current, fate' = "runs"
               PROVE  \A r \in Reg \ Lost(Top.vec) : cpu'[r] = Top.was[r]
    OBVIOUS
  <2>1. Depth' = Depth - 1 /\ Depth \in Nat
    BY <1>1, Pops DEF TrapIInv
  <2>2. Depth' # Depth /\ Depth' # Depth + 1
    BY <2>1, SMTT(60)
  <2>3. handlers' # handlers
    BY <2>2 DEF Depth
  <2>4. ~\E v \in Vector : Trap(v)
    BY <1>1, <2>2, Pushes DEF Trap, TrapIInv
  <2>5. Return \/ ReturnSpurious
    BY <1>1, <2>3, <2>4 DEF Next, Switch, Exit, spawn_kthread, kthread_trampoline, Compute
  <2>6. CASE Return
    <3>1. Top.vec # "NONE_ERR"
      BY <2>6 DEF Return
    <3> QED
      BY <1>1, <2>6, <3>1, ReturnGives
  <2> QED
    BY <1>1, <2>5, <2>6, SpuriousGives
<1>2. TrapIInv /\ [Next]_vars => [Gives]_vars
  BY <1>1
<1> QED
  BY <1>2, TrapsKept, PTL DEF Spec, Resumes
=============================================================================
