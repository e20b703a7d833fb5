------------------------------- MODULE SmpBoot -------------------------------
(***************************************************************************)
(* Bringing up the processors: native::init as far as the APIC goes, then  *)
(* boot_all_aps, wait_ready and ap_entry of arch/x86_64/smp.rs, the        *)
(* trampoline ap_trampoline.asm, tables::ap_init, by which a processor     *)
(* asks the boot processor for its GDT, and the queue of closures of       *)
(* sched/exec.rs that carries the request.                                 *)
(*                                                                         *)
(* The boot processor finds the others (Madt) and starts them through its  *)
(* APIC (Apic) one by one: it fills the one ApBoot page, starts a          *)
(* processor and waits for ready_flag; the processor reads its stack from  *)
(* the page, takes the page's address from the top of that stack, sets     *)
(* ready_flag and its APIC, and, holding TEMP_GDT, submits a closure and   *)
(* spins on a variable of its stack until a thread of the boot processor   *)
(* has run it.  A stack is named by the processor it was allocated for.    *)
(* No machine lists a processor twice.  The locks that these steps take    *)
(* for memory, and who waits for whom, are in SmpLocks.                    *)
(***************************************************************************)
EXTENDS Apic, Madt, FiniteSets

CONSTANTS
  BSP,              \* the boot processor
  AP,               \* the others
  Machines,         \* what the kernel may find: the ACPI tables, the processors there
                    \* are, has_x2apic, whether the firmware uses it, whether the
                    \* page tables are below 4 GiB
  QUEUE_CAPACITY    \* closures the queue holds

ASSUME SmpConstants == BSP \notin AP /\ "nobody" \notin AP /\ QUEUE_CAPACITY \in Nat \ {0}

VARIABLES
  machine,     \* one of Machines
  aps,         \* the processors boot_all_aps starts, in order
  bsp,         \* native::init and boot_all_aps: where it is, and in which iteration
  ab,          \* the ApBoot page: ready_flag and stack_top
  top,         \* the word at the top of each stack
  ap,          \* where each processor is, and the stack it runs on
  TEMP_GDT,    \* holder of the lock, or Nobody
  QUEUE,       \* closures submitted, by processor
  server,      \* the slot server_main has popped (it holds the lock), or Nobody
  threads,     \* threads it has spawned: the closure and whether it has registered
  gdt,         \* the variable each stack holds: the processor its GDT is for
  late         \* history: wait_ready has given up on a processor

found == <<machine, aps>>
vars  == <<apic, found, bsp, ab, top, ap, TEMP_GDT, QUEUE, server, threads, gdt, late>>

Nobody == "nobody"
This   == aps[bsp.i]

Init ==
  /\ machine \in Machines /\ aps = << >>
  /\ MODE = "Unknown" /\ HHDM = FALSE /\ timer = FALSE
  /\ hw = [c \in AP \cup {BSP} |-> Wanted(machine.left_x2)]
  /\ bsp = [at |-> "early_init", i |-> 1]
  /\ ab = [ready_flag |-> 0, stack_top |-> Nobody]
  /\ top = [a \in AP |-> "zero"]
  /\ ap = [a \in AP |-> [at |-> "off", stack |-> Nobody]]
  /\ TEMP_GDT = Nobody /\ QUEUE = << >> /\ server = Nobody /\ threads = {}
  /\ gdt = [a \in AP |-> Nobody] /\ late = FALSE

-----------------------------------------------------------------------------
(* The boot processor *)

others == <<ab, top, ap, TEMP_GDT, QUEUE, server, threads, gdt, late>>
Step(from, to) == bsp.at = from /\ bsp' = [bsp EXCEPT !.at = to]

\* native::init, as far as the APIC goes: gdt::init asks for the processor's id
\* between the two phases.
BspEarlyInit == Step("early_init", "gdt") /\ early_init(BSP, machine.x2) /\ UNCHANGED <<found, others>>
BspGdt       == Step("gdt", "paging") /\ Healed(BSP, machine.x2) /\ UNCHANGED <<found, others>>
BspPaging    == Step("paging", "timer") /\ paging /\ UNCHANGED <<found, others>>
BspTimer     == Step("timer", "discover") /\ start_timer_hz(BSP) /\ UNCHANGED <<found, others>>

\* The enabled processors but the one whose id the boot processor reads.
AllBut(id, ids) == SelectSeq(ids, LAMBDA c : c # id)
Started(ids)    == IF Reaches(BSP) THEN AllBut(BSP, ids) ELSE ids

\* The processors of a machine are those of the model, and none is listed twice.
ASSUME MachineConstants ==
  \A m \in Machines :
    LET ids == AllBut(BSP, discover(m.acpi).cpus) IN
    /\ m.x2 \in BOOLEAN /\ ids \in Seq(AP)
    /\ \A i, j \in DOMAIN ids : ids[i] = ids[j] => i = j

\* boot_all_aps up to its loop.
boot_all_aps ==
  /\ bsp.at = "discover"
  /\ LET d == discover(machine.acpi) IN
     /\ aps' = IF d.is = "found" /\ machine.low_cr3 THEN Started(d.cpus) ELSE << >>
     /\ bsp' = [bsp EXCEPT !.at = CASE d.is = "panic" -> "panic"
                                     [] d.is = "found" /\ ~machine.low_cr3 -> "fatal"
                                     [] OTHER -> IF aps' = << >> THEN "done" ELSE "fill"]
  /\ Healed(BSP, machine.x2)
  /\ UNCHANGED <<machine, others>>

\* Mutant: the flag of the last processor is left standing.
FillApBoot_keepsflag ==
  /\ bsp.at = "fill"
  /\ ab' = [ab EXCEPT !.stack_top = This]
  /\ top' = [top EXCEPT ![This] = "apboot"]
  /\ bsp' = [bsp EXCEPT !.at = "init"]
  /\ UNCHANGED <<apic, found, ap, TEMP_GDT, QUEUE, server, threads, gdt, late>>

\* vmap_alloc_pages finds no frame for the stack: the expect panics.
StackFails == Step("fill", "panic") /\ UNCHANGED <<apic, found, others>>

\* A new stack; ApBoot and the word at the top of the stack; the trampoline's
\* pointers to ApBoot, which are the same every time.
FillApBoot ==
  /\ bsp.at = "fill"
  /\ ab' = [ready_flag |-> 0, stack_top |-> This]
  /\ top' = [top EXCEPT ![This] = "apboot"]
  /\ bsp' = [bsp EXCEPT !.at = "init"]
  /\ UNCHANGED <<apic, found, ap, TEMP_GDT, QUEUE, server, threads, gdt, late>>

send_init ==
  /\ bsp.at = "init"
  /\ ap' = IF Reaches(BSP) THEN [ap EXCEPT ![This].at = "reset"] ELSE ap
  /\ bsp' = [bsp EXCEPT !.at = "sipi1"]
  /\ UNCHANGED <<apic, found, ab, top, TEMP_GDT, QUEUE, server, threads, gdt, late>>

\* A processor that waits for it starts; a running one ignores it.  The first
\* may come too early, and a processor that is dead takes neither.
send_startup ==
  /\ bsp.at \in {"sipi1", "sipi2"}
  /\ \/ /\ Reaches(BSP)
        /\ ap' = [ap EXCEPT ![This].at = IF @ = "reset" THEN "tramp" ELSE @]
     \/ UNCHANGED ap
  /\ bsp' = [bsp EXCEPT !.at = IF @ = "sipi1" THEN "sipi2" ELSE "wait"]
  /\ UNCHANGED <<apic, found, ab, top, TEMP_GDT, QUEUE, server, threads, gdt, late>>

\* Mutant: the wait has no limit.
Waited_flag == ab.ready_flag # 0

\* wait_ready returns: the flag is set, or the spins are used up, which may be
\* at any time.
Waited == TRUE

\* A processor that was not ready in time is logged and otherwise forgotten.
wait_ready ==
  /\ bsp.at = "wait" /\ Waited
  /\ late' = (late \/ ab.ready_flag = 0)
  /\ bsp' = IF bsp.i = Len(aps) THEN [bsp EXCEPT !.at = "done"]
            ELSE [at |-> "fill", i |-> bsp.i + 1]
  /\ UNCHANGED <<apic, found, ab, top, ap, TEMP_GDT, QUEUE, server, threads, gdt>>

-----------------------------------------------------------------------------
(* An application processor *)

Goes(a, at) == ap' = [ap EXCEPT ![a].at = at]

\* start16 and pmode: ApBoot.cr3 is the same for all.
pmode(a) ==
  /\ ap[a].at = "tramp" /\ Goes(a, "lm64")
  /\ UNCHANGED <<apic, found, bsp, ab, top, TEMP_GDT, QUEUE, server, threads, gdt, late>>

lm64(a) ==
  /\ ap[a].at = "lm64"
  /\ ap' = [ap EXCEPT ![a] = [at |-> "pop", stack |-> ab.stack_top]]
  /\ UNCHANGED <<apic, found, bsp, ab, top, TEMP_GDT, QUEUE, server, threads, gdt, late>>

\* The argument of ap_entry, whose own frames then overwrite it.  A word that
\* is not the address of ApBoot sends the processor astray.
pop_rdi(a) ==
  /\ ap[a].at = "pop"
  /\ Goes(a, IF top[ap[a].stack] = "apboot" THEN "entry" ELSE "lost")
  /\ top' = [top EXCEPT ![ap[a].stack] = "used"]
  /\ UNCHANGED <<apic, found, bsp, ab, TEMP_GDT, QUEUE, server, threads, gdt, late>>

ap_entry(a) ==
  /\ ap[a].at = "entry"
  /\ ab' = [ab EXCEPT !.ready_flag = 1]
  /\ Goes(a, "apic")
  /\ UNCHANGED <<apic, found, bsp, top, TEMP_GDT, QUEUE, server, threads, gdt, late>>

\* apic::ap_init, and then the processor's id is read.
ApApic(a) ==
  /\ ap[a].at = "apic" /\ Goes(a, "tables")
  /\ ap_init(a, machine.x2)
  /\ UNCHANGED <<found, bsp, ab, top, TEMP_GDT, QUEUE, server, threads, gdt, late>>

\* Mutant: the lock is released before the processor's own tables are made.
load_temp_gdt_unlocked(a) ==
  /\ ap[a].at = "tables" /\ TEMP_GDT = Nobody
  /\ Goes(a, "submit")
  /\ gdt' = [gdt EXCEPT ![ap[a].stack] = Nobody]
  /\ UNCHANGED <<apic, found, bsp, ab, top, TEMP_GDT, QUEUE, server, threads, late>>

\* tables::ap_init: the lock is kept to the end, and the variable is None.
load_temp_gdt(a) ==
  /\ ap[a].at = "tables" /\ TEMP_GDT = Nobody
  /\ TEMP_GDT' = a
  /\ Goes(a, "submit")
  /\ gdt' = [gdt EXCEPT ![ap[a].stack] = Nobody]
  /\ UNCHANGED <<apic, found, bsp, ab, top, QUEUE, server, threads, late>>

\* submit, and the unwrap of what it returns.
submit(a) ==
  /\ ap[a].at = "submit" /\ server = Nobody
  /\ IF Len(QUEUE) < QUEUE_CAPACITY
     THEN QUEUE' = Append(QUEUE, a) /\ Goes(a, "spin")
     ELSE Goes(a, "panic") /\ UNCHANGED QUEUE
  /\ UNCHANGED <<apic, found, bsp, ab, top, TEMP_GDT, server, threads, gdt, late>>

\* Mutant: the processor does not wait for its GDT.
load_gdt_nowait(a) ==
  /\ ap[a].at = "spin" /\ Goes(a, "idt")
  /\ UNCHANGED <<apic, found, bsp, ab, top, TEMP_GDT, QUEUE, server, threads, gdt, late>>

\* `while gdt.is_none() {}`, and the GDT is loaded.
load_gdt(a) ==
  /\ ap[a].at = "spin" /\ gdt[ap[a].stack] # Nobody
  /\ Goes(a, "idt")
  /\ UNCHANGED <<apic, found, bsp, ab, top, TEMP_GDT, QUEUE, server, threads, gdt, late>>

\* idt::ap_init, the end of tables::ap_init: TEMP_GDT is released.
tables_ap_init(a) ==
  /\ ap[a].at = "idt"
  /\ Goes(a, "up")
  /\ TEMP_GDT' = Nobody
  /\ UNCHANGED <<apic, found, bsp, ab, top, QUEUE, server, threads, gdt, late>>

\* The variable is written by another processor while this one reads it, which the
\* compiler need not expect: a build may move the read out of the loop, or let the
\* processor see Some before the rest and load what is no GDT.  It never goes on.
spin_for_ever(a) ==
  /\ ap[a].at = "spin" /\ gdt[ap[a].stack] = Nobody
  /\ Goes(a, "hung")
  /\ UNCHANGED <<apic, found, bsp, ab, top, TEMP_GDT, QUEUE, server, threads, gdt, late>>

-----------------------------------------------------------------------------
(* The threads of the boot processor that serve the queue *)

\* The guard of the `while let` lives until the thread is spawned.
server_pop ==
  /\ server = Nobody /\ QUEUE # << >>
  /\ server' = Head(QUEUE) /\ QUEUE' = Tail(QUEUE)
  /\ UNCHANGED <<apic, found, bsp, ab, top, ap, TEMP_GDT, threads, gdt, late>>

server_spawn ==
  /\ server # Nobody
  /\ threads' = threads \cup {[for |-> server, registered |-> FALSE]}
  /\ server' = Nobody
  /\ UNCHANGED <<apic, found, bsp, ab, top, ap, TEMP_GDT, QUEUE, gdt, late>>

\* The closure: the interrupt stacks of the processor, then its GDT, written
\* through the address of the variable on the processor's stack.
registrate(c) ==
  /\ ~c.registered
  /\ threads' = (threads \ {c}) \cup {[for |-> c.for, registered |-> TRUE]}
  /\ UNCHANGED <<apic, found, bsp, ab, top, ap, TEMP_GDT, QUEUE, server, gdt, late>>

generate(c) ==
  /\ c.registered
  /\ gdt' = [gdt EXCEPT ![ap[c.for].stack] = c.for]
  /\ threads' = threads \ {c}
  /\ UNCHANGED <<apic, found, bsp, ab, top, ap, TEMP_GDT, QUEUE, server, late>>

-----------------------------------------------------------------------------

Bsp    == StackFails \/ FillApBoot \/ send_init \/ send_startup \/ wait_ready
          \/ BspEarlyInit \/ BspGdt \/ BspPaging \/ BspTimer \/ boot_all_aps
Ap(a)  == \/ pmode(a) \/ lm64(a) \/ pop_rdi(a) \/ ap_entry(a) \/ ApApic(a)
          \/ load_temp_gdt(a) \/ submit(a) \/ load_gdt(a) \/ tables_ap_init(a)
Server == server_pop \/ server_spawn
Closure == \E c \in threads : registrate(c) \/ generate(c)

Next == Bsp \/ (\E a \in AP : Ap(a) \/ spin_for_ever(a)) \/ Server \/ Closure

Spec == Init /\ [][Next]_vars

-----------------------------------------------------------------------------
(* Properties *)

ApStates == {"off", "reset", "tramp", "lm64", "pop", "entry", "apic", "tables", "submit",
             "spin", "hung", "idt", "up", "lost", "panic"}

Booting == {"early_init", "gdt", "paging", "timer", "discover"}
Ended   == {"done", "panic", "fatal"}

\* Every variable has its type, and the loop does not run past the processors.
SmpTypeOK ==
  /\ bsp \in [at : Booting \cup {"fill", "init", "sipi1", "sipi2", "wait"} \cup Ended,
               i : 1 .. (Len(aps) + 1)]
  /\ bsp.at \notin Booting \cup Ended => bsp.i <= Len(aps)
  /\ MODE \in {"Unknown", "X2Apic", "XApicPhys", "XApic"} /\ HHDM \in BOOLEAN
  /\ ab \in [ready_flag : {0, 1}, stack_top : AP \cup {Nobody}]
  /\ top \in [AP -> {"zero", "apboot", "used"}]
  /\ ap \in [AP -> [at : ApStates, stack : AP \cup {Nobody}]]
  /\ TEMP_GDT \in AP \cup {Nobody} /\ server \in AP \cup {Nobody}
  /\ QUEUE \in Seq(AP) /\ Len(QUEUE) <= QUEUE_CAPACITY
  /\ threads \subseteq [for : AP, registered : BOOLEAN]
  /\ gdt \in [AP -> AP \cup {Nobody}] /\ late \in BOOLEAN

\* The processors that a valid MADT describes, when a valid root table that the
\* RSDP names lists it, whichever root that is.
Roots(acpi) == IF find_rsdp(acpi) = NoRsdp \/ ~rsdp(acpi).right THEN {}
               ELSE {xsdt_addr(acpi), rsdp(acpi).rsdt} \ {NoTable}
Described(acpi) ==
  LET madts == {at \in DOMAIN acpi.tables :
                  /\ acpi.tables[at].sig = "APIC" /\ acpi.tables[at].sums
                  /\ \E r \in Roots(acpi) : acpi.tables[r].sums /\ at \in Range(acpi.tables[r].lists)}
      entries == UNION {Range(acpi.tables[at].entries) : at \in madts}
  IN  {e.apic_id : e \in {f \in entries : f.enabled /\ \/ f.typ = 0 /\ f.len >= 8
                                                       \/ f.typ = 9 /\ f.len >= 16}}

\* The processors that boot_all_aps starts are the enabled ones the firmware
\* describes, each of them once, and never the boot processor itself, whichever of
\* the tables are damaged or missing (madt.rs 155-280, smp.rs 110-113).
AllFound ==
  bsp.at \notin Booting \cup {"panic", "fatal"} =>
    /\ Range(aps) = Described(machine.acpi) \ {BSP}
    /\ \A i, j \in DOMAIN aps : i # j => aps[i] # aps[j]

\* The one MODE is right for every processor that has set up its APIC, at any
\* time while the others come up and store it again: its EOIs, ids and IPIs go to
\* the registers its APIC has.
ApicAgrees ==
  /\ bsp.at # "early_init" => Reaches(BSP)
  /\ \A a \in AP : ap[a].at \in {"tables", "submit", "spin", "hung", "idt", "up"} => Reaches(a)

\* start_timer_hz, which does nothing before the mode is final, is called late
\* enough: the boot processor has a timer before it starts anything.
TimerRuns == bsp.at \notin Booting => timer

InTrampoline(a) == ap[a].at \in {"tramp", "lm64", "pop", "entry"}

\* "one-by-one to avoid sharing the same trampoline page" (smp.rs 43): no two
\* processors are at once between their start and the moment they have taken
\* what they need from the shared trampoline and ApBoot pages, as long as
\* wait_ready has not given up on a processor: ready_flag is never left set by
\* one processor for the next.  Once it has given up, two can be.
OneByOneInTime == late \/ \A a, b \in AP : InTrampoline(a) /\ InTrampoline(b) => a = b

\* Until then a processor runs on the stack that was allocated for it, so no two
\* share one, and finds the address of ApBoot on it.
OwnStack == late \/ \A a \in AP : ap[a].stack \in {Nobody, a} /\ ap[a].at # "lost"

\* Until then a processor that goes on to its IDT loaded the GDT made for it.
OwnGdt == late \/ \A a \in AP : ap[a].at \in {"idt", "up"} => gdt[ap[a].stack] = a

\* submit never finds the queue full, whatever its capacity and however late a
\* processor is, and so the unwrap in tables::ap_init never panics: TEMP_GDT lets
\* one processor in at a time, and it stays until its closure has run.
NeverFull == \A a \in AP : ap[a].at # "panic"
=============================================================================
