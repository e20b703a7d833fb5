----------------------------- MODULE KernelLocks -----------------------------
(***************************************************************************)
(* The spin locks of the kernel and the interrupt flag, on one processor.  *)
(* Threads run the operations of LockPrograms; nested sections without     *)
(* interrupts are counted.  The timer interrupt takes the run queue and    *)
(* may switch threads wherever interrupts are enabled.  An exception may   *)
(* come at any instruction; its handler prints and ends the thread, and    *)
(* what the thread had locked stays locked.  A thread that spins with      *)
(* interrupts disabled on a lock of its own, or of one that was switched   *)
(* away, spins for ever: the processor hangs.                              *)
(***************************************************************************)
EXTENDS LockPrograms, Integers

CONSTANTS
  Thread,      \* the threads of the processor
  OPS          \* the operations they run

Nobody == "nobody"

Operation == {"alloc", "full", "dealloc", "vmap", "ident", "low32", "print", "spawn", "exit",
              "reap", "server", "closure"}

ASSUME LockConstants == Nobody \notin Thread /\ OPS \subseteq Operation

VARIABLES
  holder,      \* of each lock
  todo,        \* what each thread has left of its operation
  masked,      \* how many sections without interrupts each thread is in; an
               \* exception counts for FAULT, more than all sections that nest
  cur          \* the running thread

vars == <<holder, todo, masked, cur>>

FAULT == 4

-----------------------------------------------------------------------------

Program(op) ==
  CASE op = "alloc" -> alloc [] op = "full" -> alloc_full [] op = "dealloc" -> dealloc
    [] op = "vmap" -> vmap_alloc_pages [] op = "ident" -> map_identity_4k
    [] op = "low32" -> alloc_one_phys_page_hhdm [] op = "print" -> kprint
    [] op = "spawn" -> spawn [] op = "exit" -> exit_current [] op = "reap" -> reap
    [] op = "server" -> server_main [] op = "closure" -> registrate \o generate

-----------------------------------------------------------------------------

Init ==
  /\ holder = [l \in Lock |-> Nobody]
  /\ todo = [t \in Thread |-> << >>]
  /\ masked = [t \in Thread |-> 0]
  /\ cur \in Thread

\* A thread that an exception has ended halts with interrupts disabled.
Begin ==
  /\ todo[cur] = << >> /\ masked[cur] = 0
  /\ \E op \in OPS : todo' = [todo EXCEPT ![cur] = Program(op)]
  /\ UNCHANGED <<holder, masked, cur>>

Next1 == Head(todo[cur])

Acquire ==
  /\ todo[cur] # << >> /\ Next1[1] = "lock" /\ holder[Next1[2]] = Nobody
  /\ holder' = [holder EXCEPT ![Next1[2]] = cur]
  /\ todo' = [todo EXCEPT ![cur] = Tail(@)]
  /\ UNCHANGED <<masked, cur>>

Release ==
  /\ todo[cur] # << >> /\ Next1[1] = "unlock"
  /\ holder' = [holder EXCEPT ![Next1[2]] = Nobody]
  /\ todo' = [todo EXCEPT ![cur] = Tail(@)]
  /\ UNCHANGED <<masked, cur>>

Mask ==
  /\ todo[cur] # << >> /\ Next1[1] \in {"cli", "sti"}
  /\ masked' = [masked EXCEPT ![cur] = IF Next1[1] = "cli" THEN @ + 1 ELSE @ - 1]
  /\ todo' = [todo EXCEPT ![cur] = Tail(@)]
  /\ UNCHANGED <<holder, cur>>

\* tick: it locks the run queue, and switches.
isr_timer ==
  /\ masked[cur] = 0 /\ holder["RQ"] = Nobody
  /\ cur' \in Thread \ {cur}
  /\ UNCHANGED <<holder, todo, masked>>

\* An exception of the running thread, at whatever instruction, in its handler or
\* between two operations as well: the gate disables interrupts for good, and
\* nothing of what it interrupts ever goes on.
fault ==
  /\ todo' = [todo EXCEPT ![cur] = handler]
  /\ masked' = [masked EXCEPT ![cur] = FAULT]
  /\ UNCHANGED <<holder, cur>>

Next == Begin \/ Acquire \/ Release \/ Mask \/ isr_timer \/ fault

Spec == Init /\ [][Next]_vars

-----------------------------------------------------------------------------
(* Properties *)

\* Every variable has its type.
LockTypeOK ==
  /\ holder \in [Lock -> Thread \cup {Nobody}]
  /\ masked \in [Thread -> 0 .. (FAULT + 2)] /\ cur \in Thread

WaitsFor(l) == todo[cur] # << >> /\ Next1 = <<"lock", l>> /\ holder[l] # Nobody
Hangs(l)    == WaitsFor(l) /\ masked[cur] > 0
Handling    == masked[cur] >= FAULT

\* The holder of the run queue, of the page tables or of the inner heap lock is
\* never switched away: no thread ever waits for one of them, but a handler for the
\* run queue that the code it interrupted held, and the timer interrupt always finds
\* the run queue free.
NotPreempted ==
  /\ \A l \in {"RQ", "PT_LOCK", "LLHEAP"} :
       holder[l] \in {Nobody, cur} /\ (WaitsFor(l) => Handling /\ l = "RQ")
  /\ masked[cur] = 0 => holder["RQ"] = Nobody

\* No operation asks for a lock it holds, though the heap is used under the run
\* queue, the queue of closures and the interrupt tables, and the page tables
\* and the frames under the heap.  Only the handler of an exception can ask for a
\* lock of its own thread, and that lock is the console or the run queue: when the
\* code that it interrupted was printing, or in with_rq_locked (fault.rs 14, 34-44,
\* misc.rs 9-10).
NoSelfDeadlock ==
  \A l \in Lock : WaitsFor(l) /\ holder[l] = cur => Handling /\ l \in {"COM1", "RQ"}

\* The processor can hang only on the locks that are taken with interrupts
\* enabled by one operation and with interrupts disabled by another: the outer
\* heap lock, the frames, their reservations and the console (whose lock, unlike
\* what the comment at serial.rs 80 says, is held with interrupts enabled); after an
\* exception, on the console or on the run queue.
HangOnlyOn ==
  \A l \in Lock : Hangs(l) =>
    l \in IF Handling THEN {"COM1", "RQ"} ELSE {"HEAP", "FRAME_ALLOC", "RESV", "COM1"}
=============================================================================
