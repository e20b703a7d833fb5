------------------------------ MODULE SmpLocks ------------------------------
(***************************************************************************)
(* The start of the processors (SmpBoot) under the locks of the memory     *)
(* (LockPrograms).  On the boot processor the thread that runs             *)
(* boot_all_aps, the server of the queue and the threads it spawns share   *)
(* one processor: a thread in a section without interrupts is not          *)
(* switched away, one outside may be, with its locks.  An application      *)
(* processor runs beside them, and with its own interrupts disabled.       *)
(*                                                                         *)
(* What a step of SmpBoot does to memory comes before it: todo is what the *)
(* actor has yet to lock and to release until it takes the step.  Left     *)
(* out: the locks that nobody asks for but under one of these, or that are *)
(* held over nothing else and with interrupts enabled.                     *)
(***************************************************************************)
EXTENDS SmpBoot

P == INSTANCE LockPrograms

Main      == <<"main", BSP>>
ServerT   == <<"server", BSP>>
Thread(a) == <<"thread", a>>
Cpu(a)    == <<"cpu", a>>
NoActor   == <<"nobody", BSP>>

OnBsp == {Main, ServerT} \cup {Thread(a) : a \in AP}
Actor == OnBsp \cup {Cpu(a) : a \in AP}

Contended == {"HEAP", "PT_LOCK", "FRAME_ALLOC", "TABLES"}

VARIABLES
  holder,     \* of each lock
  todo,       \* what each actor has yet to do before its next step
  masked      \* how many sections without interrupts each actor is in

locks == <<holder, todo, masked>>
all   == <<vars, locks>>

Seen(program) == SelectSeq(program, LAMBDA i : i[2] \in Contended \cup {"IF"})

vmap_alloc_pages == Seen(P!vmap_alloc_pages)
drop_list        == Seen(P!dealloc)
spawn            == Seen(P!spawn)
registrate_locks == Seen(P!registrate)
generate_locks   == Seen(P!generate)
idt_ap_init      == Seen(P!idt_ap_init)

LInit ==
  /\ Init
  /\ holder = [l \in Contended |-> NoActor]
  /\ todo = [x \in Actor |-> << >>] /\ masked = [x \in Actor |-> 0]

-----------------------------------------------------------------------------

\* A thread of the boot processor runs unless another has disabled interrupts.
Runs(x) == x \in OnBsp => \A y \in OnBsp \ {x} : masked[y] = 0

\* One instruction of what an actor has to do; a lock that is taken is spun on.
Instruction(x) ==
  /\ todo[x] # << >> /\ Runs(x)
  /\ LET i == Head(todo[x]) IN
     \/ /\ i[1] = "lock" /\ holder[i[2]] = NoActor
        /\ holder' = [holder EXCEPT ![i[2]] = x] /\ UNCHANGED masked
     \/ /\ i[1] = "unlock"
        /\ holder' = [holder EXCEPT ![i[2]] = NoActor] /\ UNCHANGED masked
     \/ /\ i[1] \in {"cli", "sti"}
        /\ masked' = [masked EXCEPT ![x] = IF i[1] = "cli" THEN @ + 1 ELSE @ - 1]
        /\ UNCHANGED holder
  /\ todo' = [todo EXCEPT ![x] = Tail(@)]
  /\ UNCHANGED vars

\* A step of x, after which y has the program to do.
Does(x, y, program) ==
  /\ todo[x] = << >> /\ Runs(x)
  /\ todo' = [todo EXCEPT ![y] = program]
  /\ UNCHANGED <<holder, masked>>

\* The stack of the next processor; the section without interrupts from INIT to the
\* second SIPI; and, when the loop is over, the list of the MADT is dropped.
MainProgram ==
  CASE bsp.at # "fill" /\ bsp'.at = "fill" -> vmap_alloc_pages
    [] bsp'.at = "init" -> P!Cli
    [] bsp'.at = "wait" -> P!Sti
    [] bsp.at = "wait" /\ bsp'.at = "done" -> drop_list
    [] OTHER -> << >>

MainStep    == Bsp /\ Does(Main, Main, MainProgram)
PopStep     == server_pop /\ Does(ServerT, ServerT, spawn)
SpawnStep   == server_spawn /\ Does(ServerT, Thread(server), registrate_locks)
ClosureStep(c) ==
  \/ registrate(c) /\ Does(Thread(c.for), Thread(c.for), generate_locks)
  \/ generate(c) /\ Does(Thread(c.for), Thread(c.for), << >>)
CpuStep(a) ==
  Ap(a) /\ Does(Cpu(a), Cpu(a), IF ap'[a].at = "idt" THEN idt_ap_init ELSE << >>)

HangStep(a) == spin_for_ever(a) /\ UNCHANGED locks

MainGoes    == MainStep \/ Instruction(Main)
ServerGoes  == PopStep \/ SpawnStep \/ Instruction(ServerT)
ThreadGoes(a) == Instruction(Thread(a)) \/ \E c \in threads : c.for = a /\ ClosureStep(c)
CpuGoes(a)  == CpuStep(a) \/ Instruction(Cpu(a))

Progress == MainGoes \/ ServerGoes \/ \E a \in AP : ThreadGoes(a) \/ CpuGoes(a)

LNext == Progress \/ \E a \in AP : HangStep(a)

\* As long as a thread or a processor can go on, one of them does.  Every step brings
\* the start nearer to its end, so no more is asked of the scheduler.
Fairness == WF_all(Progress)

LSpec == LInit /\ [][LNext]_all /\ Fairness

-----------------------------------------------------------------------------
(* Properties *)

\* x spins on a lock of y, or is switched away while y has interrupts disabled.
WaitsOn(x, y) ==
  \/ todo[x] # << >> /\ Head(todo[x])[1] = "lock" /\ holder[Head(todo[x])[2]] = y
  \/ x \in OnBsp /\ y \in OnBsp \ {x} /\ masked[y] > 0

\* boot_all_aps keeps the frames in vmap_alloc_pages, or the heap while it drops its
\* list, and waits for one who waits for it.
Jammed ==
  /\ Main \in {holder["FRAME_ALLOC"], holder["HEAP"]}
  /\ \E y \in Actor : WaitsOn(Main, y) /\ WaitsOn(y, Main)

Ends == bsp.at \in Ended /\ todo[Main] = << >>

\* The processors that were started, all of them but for a panic before.
Up == \A i \in 1 .. Len(aps) : (bsp.at = "panic" => i < bsp.i) => ap[aps[i]].at = "up"

\* boot_all_aps comes to its end, however late the processors are: it returns, or
\* stops for good where it finds a broken table, page tables above 4 GiB or no frame;
\* and every processor that it has started comes up, none of them waiting for ever
\* for a lock, for the queue or for its closure, unless one was late or has read its
\* variable only once.  What can keep them from it is only that boot_all_aps is
\* switched away with the frames or the heap locked, and another then needs these with
\* interrupts disabled or with the page tables locked (smp.rs 111-162, mem/mod.rs
\* 213-237).
AllUp ==
  <>(\/ Ends /\ (Up \/ late \/ \E a \in AP : ap[a].at = "hung")
     \/ Jammed)
=============================================================================
