------------------------------ MODULE TrapEntry ------------------------------
(***************************************************************************)
(* Trap entry and exit on one processor: the interrupt stack table and the *)
(* gates (tables/mod.rs, gdt.rs, idt.rs), the assembly stubs that build a  *)
(* TrapFrame and leave through it (isr_stubs.asm), the handlers as far as  *)
(* they return, switch or stop, and the first frame of a thread            *)
(* (sched/mod.rs, kthread_trampoline.asm).                                 *)
(*                                                                         *)
(* A register holds the name of the context whose value it is, so "the     *)
(* right value comes back" can be read off.  Of the general registers the  *)
(* ones the stubs treat specially have a name; gpr stands for the others.  *)
(* Delivery of a trap and iretq are the processor's: in 64-bit mode both   *)
(* move five words (ss, which is not tracked, is one of them).             *)
(***************************************************************************)
EXTENDS Integers, Sequences, FiniteSets

CONSTANTS
  Task,              \* names of the threads
  MAX_DEPTH,         \* bound: traps inside traps
  DebugAssertions    \* cfg!(debug_assertions)

ASSUME TrapConstants ==
  MAX_DEPTH \in 1 .. 3 /\ DebugAssertions \in BOOLEAN /\ "boot" \notin Task

-----------------------------------------------------------------------------
(* Interrupt stacks and gates *)

Isr(v, stack) == [vector |-> v, stack |-> stack]

\* ISR::new inserts at the front, so the vector registered last comes first; the
\* entry without vector is the stack of gdt::init.
TABLES ==
  <<Isr("none", TRUE), Isr("UD", FALSE), Isr("DF", TRUE), Isr("PF", TRUE), Isr("GP", TRUE),
    Isr("BP", TRUE), Isr("DB", TRUE), Isr("SPUR", TRUE), Isr("TIMER", TRUE)>>

\* generate_inner: the entries with a vector and a stack get an index, counted from
\* 0 in the order of TABLES.
Indexed(j) == TABLES[j].stack /\ TABLES[j].vector # "none"
HasStack   == {TABLES[j].vector : j \in {k \in DOMAIN TABLES : Indexed(k)}}
Entry(v)   == CHOOSE j \in DOMAIN TABLES : TABLES[j].vector = v

\* isr.index; idt::init takes 0 for a vector without one.
index(v) == IF v \in HasStack THEN Cardinality({j \in 1 .. (Entry(v) - 1) : Indexed(j)}) ELSE 0

\* Mutant: the field is cut to two bits.
ist_narrow(v) == index(v) % 4

\* The field of the gate (set_gate_raw).
ist(v) == index(v) % 8

\* The processor takes entry ist - 1 of the table, and stays on the current stack
\* when ist is 0.
OnCurrentStack(v) == ist(v) = 0
IstStack(v)       == CHOOSE w \in HasStack : index(w) = ist(v) - 1

-----------------------------------------------------------------------------
(* State *)

\* NONE and NONE_ERR are the vectors of isr_default_stub, without and with an
\* error code of the processor.
WithError == {"GP", "PF", "DF", "NONE_ERR"}
Vector    == HasStack \cup {"UD", "NONE", "NONE_ERR"}

Reg     == {"rip", "cs", "rflags", "rsp", "rax", "r12", "r13", "gpr"}
HwWord  == {"rip", "cs", "rflags", "rsp"}      \* in the order of the addresses
InTrap  == <<"trap1", "trap2", "trap3">>       \* the handlers as contexts
Below   == <<"s1", "s2", "s3">>                \* places below the stack pointer
Place   == HasStack \cup {Below[i] : i \in DOMAIN Below} \cup Task
Context == Task \cup {"boot"} \cup {InTrap[i] : i \in DOMAIN InTrap}
Value   == Context \cup {"address", "error", "arg", "entry", "zero", "junk", "CS"}

VARIABLES
  cpu,        \* the registers
  mem,        \* the words at a place where a trap pushes or an iretq pops
  tf,         \* the TrapFrame under those words; its rsp is a place
  handlers,   \* the traps being handled, the innermost last
  current,    \* of the run queue; "boot" before the first switch
  ctx,        \* task.trap of each thread
  phase,      \* of each thread
  fate        \* of the processor

vars == <<cpu, mem, tf, handlers, current, ctx, phase, fate>>

Words(rip, cs, rflags, rsp) == [rip |-> rip, cs |-> cs, rflags |-> rflags, rsp |-> rsp]
Unused == Words("junk", "junk", "junk", "junk")
Own(c) == [r \in Reg |-> IF r = "cs" THEN "CS" ELSE c]

Init ==
  /\ cpu = Own("boot")
  /\ mem = [p \in Place |-> Unused]
  /\ tf = [p \in Place |-> Own("junk")]
  /\ handlers = << >> /\ current = "boot"
  /\ ctx = [t \in Task |-> Own("junk")]
  /\ phase = [t \in Task |-> "none"]
  /\ fate = "runs"

-----------------------------------------------------------------------------
(* The stubs *)

Depth   == Len(handlers)
Top     == handlers[Depth]
Returns == handlers' = SubSeq(handlers, 1, Depth - 1)
Thread  == fate = "runs" /\ handlers = << >>     \* no trap is being handled

\* Where the words of a trap go.
PlaceOf(v) == IF OnCurrentStack(v) THEN Below[Depth + 1] ELSE IstStack(v)

\* A handler on the same interrupt stack, or a stack pointer that is not the
\* thread's: the words overwrite what is in use.
Overwrites(v) ==
  \/ \E i \in 1 .. Depth : handlers[i].place = PlaceOf(v)
  \/ OnCurrentStack(v) /\ handlers = << >> /\ cpu.rsp # current

\* The words from the slot a stub takes for &RIP: a stub that does not expect the
\* error code finds it there, and each word one further on.
Pushed(v) ==
  IF v = "NONE_ERR" THEN Words("error", cpu.rip, cpu.cs, cpu.rflags)
  ELSE Words(cpu.rip, cpu.cs, cpu.rflags, cpu.rsp)

\* Mutant: the stub without an error code also goes through r13.
BUILD_TF_r13(v, w, p) ==
  [cpu EXCEPT !.rip = w.rip, !.cs = w.cs, !.rflags = w.rflags, !.rsp = p,
              !.r12 = "address", !.r13 = "address"]

\* BUILD_TF_NO_ERR and BUILD_TF_WITH_ERR: r12, and r13 with an error code, are
\* loaded with addresses before the registers are saved.
BUILD_TF(v, w, p) ==
  [cpu EXCEPT !.rip = w.rip, !.cs = w.cs, !.rflags = w.rflags, !.rsp = p,
              !.r12 = "address",
              !.r13 = IF v \in WithError \ {"NONE_ERR"} THEN "address" ELSE @]

\* A trap, up to the call of its handler.  The spurious stub saves nothing and
\* uses rax.
Trap(v) ==
  /\ fate = "runs" /\ Depth < MAX_DEPTH
  /\ v \in {"TIMER", "SPUR"} => handlers = << >>     \* the gates clear IF
  /\ handlers' = Append(handlers, [vec |-> v, place |-> PlaceOf(v), was |-> cpu])
  /\ IF Overwrites(v) THEN fate' = "smashed" /\ UNCHANGED <<cpu, mem, tf>>
     ELSE LET p == PlaceOf(v) IN
          /\ mem' = [mem EXCEPT ![p] = Pushed(v)]
          /\ tf' = IF v = "SPUR" THEN tf ELSE [tf EXCEPT ![p] = BUILD_TF(v, Pushed(v), p)]
          /\ cpu' = IF v = "SPUR"
                    THEN [cpu EXCEPT !.rip = InTrap[Depth + 1], !.rflags = InTrap[Depth + 1],
                                     !.rsp = InTrap[Depth + 1], !.rax = "junk"]
                    ELSE Own(InTrap[Depth + 1])
          /\ UNCHANGED fate
  /\ UNCHANGED <<current, ctx, phase>>

\* Mutant: the frame is left without its flags being written back.
Leave_stale(f) ==
  /\ mem' = [mem EXCEPT ![f.rsp] = Words(f.rip, f.cs, @.rflags, @.rsp), ![Top.place] = Unused]
  /\ tf' = [tf EXCEPT ![Top.place] = Own("junk")]
  /\ cpu' = [r \in Reg |-> IF r \in {"rsp", "rflags"} THEN mem[f.rsp][r] ELSE f[r]]

\* WRITE_BACK_HW, RESTORE_GPRS_FROM_TF and iretq: three words are written over
\* the place the frame names, and rsp is popped from the word behind them.  What is
\* left on the handler's stack is not used again.
Leave(f) ==
  /\ mem' = [mem EXCEPT ![f.rsp] = Words(f.rip, f.cs, f.rflags, @.rsp), ![Top.place] = Unused]
  /\ tf' = [tf EXCEPT ![Top.place] = Own("junk")]
  /\ cpu' = [r \in Reg |-> IF r = "rsp" THEN mem[f.rsp].rsp ELSE f[r]]

-----------------------------------------------------------------------------
(* The handlers *)

\* Vectors whose handler may come back: isr_ud_rust never does, and the fault
\* handlers only out of the debugger, which a release build does not enter.
Returning ==
  {"TIMER", "DB", "BP", "NONE", "NONE_ERR"} \cup
  IF DebugAssertions THEN {"GP", "PF", "DF"} ELSE {}

\* Vectors whose handler may end in exit_current (the debugger's kill included).
Exiting == {"DB", "BP", "GP", "PF", "DF", "UD"}

\* The handler returns to the stub, which leaves through the frame it built.  With
\* an error code in the place of rip the processor goes astray.
Return ==
  /\ fate = "runs" /\ handlers # << >> /\ Top.vec \in Returning
  /\ Leave(tf[Top.place]) /\ Returns
  /\ fate' = IF Top.vec = "NONE_ERR" THEN "astray" ELSE fate
  /\ UNCHANGED <<current, ctx, phase>>

ReturnSpurious ==
  /\ fate = "runs" /\ handlers # << >> /\ Top.vec = "SPUR"
  /\ cpu' = [r \in Reg |-> IF r \in HwWord THEN mem[Top.place][r] ELSE cpu[r]]
  /\ mem' = [mem EXCEPT ![Top.place] = Unused] /\ Returns
  /\ UNCHANGED <<tf, current, ctx, phase, fate>>

\* tick keeps the frame of the task that was interrupted; there is none at boot.
saved == IF current = "boot" THEN ctx ELSE [ctx EXCEPT ![current] = tf[Top.place]]

\* isr_timer_rust when tick switches: it replaces the frame the stub leaves through.
Switch(t) ==
  /\ fate = "runs" /\ handlers # << >> /\ Top.vec = "TIMER"
  /\ t # current /\ phase[t] # "none"
  /\ ctx' = saved /\ current' = t
  /\ Leave(ctx[t]) /\ Returns
  /\ phase' = [phase EXCEPT ![t] = IF @ = "ready" THEN "entry" ELSE @]
  /\ UNCHANGED fate

\* exit_current in a handler: it halts with interrupts disabled, for ever.
Exit ==
  /\ fate = "runs" /\ handlers # << >> /\ Top.vec \in Exiting
  /\ fate' = "halted"
  /\ UNCHANGED <<cpu, mem, tf, handlers, current, ctx, phase>>

-----------------------------------------------------------------------------
(* Threads *)

\* spawn_kthread (and init, for idle): arg and entry at the top of a new stack, and
\* a frame whose rsp is their address.
spawn_kthread(t) ==
  /\ Thread /\ phase[t] = "none"
  /\ phase' = [phase EXCEPT ![t] = "ready"]
  /\ mem' = [mem EXCEPT ![t] = Words("arg", "entry", "zero", "junk")]
  /\ ctx' = [ctx EXCEPT ![t] = Own(t)]
  /\ UNCHANGED <<cpu, tf, handlers, current, fate>>

AtLayout(t) == cpu.rsp = t /\ mem[t].rip = "arg" /\ mem[t].cs = "entry"

\* It pops arg and entry and calls; from anything else it goes wild.
kthread_trampoline(t) ==
  /\ Thread /\ current = t /\ phase[t] = "entry"
  /\ phase' = [phase EXCEPT ![t] = IF AtLayout(t) THEN "running" ELSE "wild"]
  /\ UNCHANGED <<cpu, mem, tf, handlers, current, ctx, fate>>

\* The code of the current context loads its registers.
Compute ==
  /\ Thread
  /\ cpu' = [cpu EXCEPT !.rax = current, !.r12 = current, !.r13 = current]
  /\ UNCHANGED <<mem, tf, handlers, current, ctx, phase, fate>>

Next ==
  \/ \E v \in Vector : Trap(v)
  \/ Return \/ ReturnSpurious \/ Exit
  \/ \E t \in Task : Switch(t) \/ spawn_kthread(t) \/ kthread_trampoline(t)
  \/ Compute

Spec == Init /\ [][Next]_vars

-----------------------------------------------------------------------------
(* Properties *)

\* Every variable has its type.
TrapTypeOK ==
  /\ cpu \in [Reg -> Value]
  /\ mem \in [Place -> [HwWord -> Value]]
  /\ tf \in [Place -> [Reg -> Value \cup Place]]
  /\ handlers \in Seq([vec : Vector, place : Place, was : [Reg -> Value]])
  /\ Depth <= MAX_DEPTH
  /\ current \in Task \cup {"boot"}
  /\ ctx \in [Task -> [Reg -> Value \cup Place]]
  /\ phase \in [Task -> {"none", "ready", "entry", "running", "wild"}]
  /\ fate \in {"runs", "halted", "smashed", "astray"}

\* Registers a trap of v does not give back (isr_stubs.asm 128, 155-156, 269).
Lost(v) ==
  CASE v = "SPUR" -> {"rax", "r12", "r13"}
    [] v \in WithError -> {"r12", "r13"}
    [] OTHER -> {"r12"}

\* Whatever traps come inside it, and on whichever stacks, a trap that returns
\* without a switch gives the interrupted code back rip, flags, stack pointer and
\* registers, except r12 (with an error code also r13).  The spurious interrupt
\* loses rax, and what an exception inside it loses.
Resumes ==
  [][Returns /\ handlers # << >> /\ current' = current /\ fate' = "runs" =>
       \A r \in Reg \ Lost(Top.vec) : cpu'[r] = Top.was[r]]_vars

\* Through any sequence of switches a thread resumes at its own rip, with its own
\* flags and with the general registers the stubs save (tick, isr_timer_rust).
SwitchKeeps ==
  Thread => \A r \in {"rip", "rflags", "gpr"} : cpu[r] = current

\* The index counts from 0 and the field of the gate from 1, so each vector runs on
\* the stack made for its neighbour and the double fault on the interrupted one
\* (gdt.rs 62, idt.rs 66).  All the same a trap overwrites the frame of another
\* only when its vector recurs, or when it has no stack and the thread is not on
\* its own.
FramesApart ==
  fate = "smashed" =>
    \/ \E i \in 1 .. (Depth - 1) : handlers[i].vec = Top.vec
    \/ Top.vec \in {"UD", "DF", "NONE", "NONE_ERR"} /\ Depth = 1 /\ cpu.rsp # current

\* "Stack layout expected at first run (top of stack): [0] = arg, [1] = entry fn
\* pointer" (kthread_trampoline.asm 4-7).
FirstRunLayout ==
  \A t \in Task : Thread /\ current = t /\ phase[t] = "entry" => AtLayout(t)
=============================================================================
