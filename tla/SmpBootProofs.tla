---------------------------- MODULE SmpBootProofs ----------------------------
(***************************************************************************)
(* The start of the processors, for any number of them, any machine and    *)
(* any capacity of the queue of closures, without the locks of the memory  *)
(* and with them.                                                          *)
(***************************************************************************)
EXTENDS SmpLocks, TLAPS

USE SmpConstants, SMTT(60)

-----------------------------------------------------------------------------
(* The inductive invariant *)

\* The types of the boot processor's variables; the processors to start are
\* distinct.
BootTypes ==
  /\ machine \in Machines /\ aps \in Seq(AP)
  /\ \A i, j \in DOMAIN aps : aps[i] = aps[j] => i = j
  /\ bsp \in [at : Booting \cup {"fill", "init", "sipi1", "sipi2", "wait"} \cup Ended,
               i : 1 .. (Len(aps) + 1)]
  /\ bsp.at \notin Booting \cup Ended => bsp.i <= Len(aps)
  /\ bsp.at \in Booting => bsp.i = 1

ApicTypes ==
  /\ MODE \in {"Unknown", "X2Apic", "XApicPhys", "XApic"} /\ HHDM \in BOOLEAN
  /\ hw \in [AP \cup {BSP} -> {"x", "x2"}] /\ timer \in BOOLEAN

ApTypes ==
  /\ ab \in [ready_flag : {0, 1}, stack_top : AP \cup {Nobody}]
  /\ top \in [AP -> {"zero", "apboot", "used"}]
  /\ ap \in [AP -> [at : ApStates, stack : AP \cup {Nobody}]]
  /\ late \in BOOLEAN

QueueTypes ==
  /\ TEMP_GDT \in AP \cup {Nobody} /\ server \in AP \cup {Nobody}
  /\ QUEUE \in Seq(AP) /\ Len(QUEUE) <= QUEUE_CAPACITY
  /\ threads \subseteq [for : AP, registered : BOOLEAN]
  /\ gdt \in [AP -> AP \cup {Nobody}]

Typed == BootTypes /\ ApicTypes /\ ApTypes /\ QueueTypes

Joined == {"tables", "submit", "spin", "hung", "idt", "up"}

\* The mode is the one the machine calls for as soon as phase 1 has run, and final
\* after phase 2; every processor that has joined has its APIC in that mode.
ModeInv ==
  /\ bsp.at # "early_init" => hw[BSP] = Wanted(machine.x2)
  /\ bsp.at \in {"gdt", "paging"} => MODE = (IF machine.x2 THEN "X2Apic" ELSE "XApicPhys")
  /\ bsp.at \notin {"early_init", "gdt", "paging"} =>
       MODE = (IF machine.x2 THEN "X2Apic" ELSE "XApic")
  /\ \A a \in AP : ap[a].at \in Joined => hw[a] = Wanted(machine.x2)
  /\ bsp.at \notin {"early_init", "gdt", "paging", "timer"} => timer

\* No processor runs before its turn, and one that runs finds a stack.
TurnInv ==
  /\ bsp.at \in Booting => \A a \in AP : ap[a].at = "off"
  /\ \A j \in DOMAIN aps : j > bsp.i \/ (j = bsp.i /\ bsp.at \in {"fill", "init"})
                             => ap[aps[j]].at = "off"
  /\ bsp.at \in {"init", "sipi1", "sipi2", "wait"} => ab.stack_top = This
  /\ \A a \in AP : ap[a].at # "off" => ab.stack_top \in AP
  /\ \A a \in AP : ap[a].at \notin {"off", "reset", "tramp", "lm64"} => ap[a].stack \in AP

Idle   == QUEUE = << >> /\ server = Nobody /\ threads = {}
One(a) == \/ QUEUE = <<a>> /\ server = Nobody /\ threads = {}
          \/ QUEUE = << >> /\ server = a /\ threads = {}
          \/ /\ QUEUE = << >> /\ server = Nobody
             /\ \E r \in BOOLEAN : threads = {[for |-> a, registered |-> r]}

\* The holder of TEMP_GDT is the one processor with a closure under way, and it has
\* one exactly until its GDT is there.
QueueInv ==
  /\ \A a \in AP : ap[a].at \in {"submit", "spin", "hung", "idt"} <=> TEMP_GDT = a
  /\ \A a \in AP : ap[a].at # "panic"
  /\ TEMP_GDT = Nobody => Idle
  /\ \A a \in AP : ap[a].at = "submit" => Idle /\ gdt[ap[a].stack] = Nobody
  /\ \A a \in AP : ap[a].at = "idt" => Idle
  /\ \A a \in AP : ap[a].at \in {"spin", "hung"} =>
       \/ One(a) /\ gdt[ap[a].stack] = Nobody
       \/ Idle /\ gdt[ap[a].stack] # Nobody

\* As long as nobody was late: whoever is between INIT and ready_flag is the
\* processor of this iteration, on its own stack.
InTime ==
  /\ \A a \in AP : ap[a].at \in {"reset", "tramp", "lm64", "pop", "entry"} =>
       bsp.at \in {"sipi1", "sipi2", "wait"} /\ a = This /\ ab.ready_flag = 0
  /\ \A a \in AP : ap[a].at \in {"reset", "tramp", "lm64", "pop"} => top[a] = "apboot"
  /\ bsp.at = "init" => top[This] = "apboot" /\ ab.ready_flag = 0
  /\ \A a \in AP : ap[a].stack \in {Nobody, a} /\ ap[a].at # "lost"
  /\ \A a \in AP : ap[a].at \in {"idt", "up"} => gdt[a] = a
  /\ \A a \in AP : ap[a].at \in {"spin", "hung"} => gdt[a] \in {Nobody, a}

IInv == Typed /\ ModeInv /\ TurnInv /\ QueueInv /\ (late \/ InTime)

-----------------------------------------------------------------------------

\* Storing a value of the range keeps a function in its set, wherever it goes.
LEMMA Stored ==
  ASSUME NEW S, NEW T, NEW f \in [S -> T], NEW x, NEW v \in T
  PROVE  [f EXCEPT ![x] = v] \in [S -> T]
BY ZenonT(60)

\* The processors boot_all_aps is about to start, as it reads its own id right.
LEMMA FoundTypes ==
  ASSUME IInv, bsp.at = "discover"
  PROVE  LET ids == Started(discover(machine.acpi).cpus) IN
         /\ Reaches(BSP)
         /\ ids \in Seq(AP)
         /\ \A i, j \in DOMAIN ids : ids[i] = ids[j] => i = j
<1>1. machine \in Machines
  BY DEF IInv, Typed, BootTypes
<1>2. Reaches(BSP)
  BY DEF IInv, ModeInv, Reaches, Access, Wanted
<1>3. Started(discover(machine.acpi).cpus) = AllBut(BSP, discover(machine.acpi).cpus)
  BY <1>2 DEF Started
<1>4. LET ids == AllBut(BSP, discover(machine.acpi).cpus) IN
      ids \in Seq(AP) /\ \A i, j \in DOMAIN ids : ids[i] = ids[j] => i = j
  BY <1>1, MachineConstants, ZenonT(60)
<1> QED  BY <1>2, <1>3, <1>4, ZenonT(60)

\* boot_all_aps and its loop keep their types; no other step touches them.
LEMMA BootTypesStep == ASSUME IInv, Next PROVE BootTypes'
<1> USE DEF IInv, Typed, BootTypes, Booting, Ended
<1>1. ASSUME StackFails \/ FillApBoot \/ send_init \/ send_startup \/ wait_ready PROVE BootTypes'
  BY <1>1 DEF StackFails, Step, others, FillApBoot, send_init, send_startup, wait_ready, found,
         apic
<1>2. ASSUME BspEarlyInit \/ BspGdt \/ BspPaging \/ BspTimer PROVE BootTypes'
  BY <1>2 DEF BspEarlyInit, Step, early_init, BspGdt, Healed, BspPaging,
         paging, BspTimer, start_timer_hz, others, found, apic
<1>3. ASSUME boot_all_aps PROVE BootTypes'
  <2> DEFINE ids == Started(discover(machine.acpi).cpus)
  <2>1. /\ ids \in Seq(AP) /\ << >> \in Seq(AP)
        /\ \A i, j \in DOMAIN ids : ids[i] = ids[j] => i = j
    BY <1>3, FoundTypes DEF boot_all_aps
  <2> HIDE DEF ids
  <2>2. aps' \in {ids, << >>} /\ machine' \in Machines /\ bsp.i = 1
    BY <1>3 DEF boot_all_aps, ids, BootTypes, Booting
  <2>3. /\ bsp' \in [at : {"panic", "fatal", "done", "fill"}, i : {1}]
        /\ bsp'.at = "fill" => aps' # << >>
    BY <1>3, <2>2 DEF boot_all_aps
  <2>4. aps' \in Seq(AP) /\ \A i, j \in DOMAIN aps' : aps'[i] = aps'[j] => i = j
    <3>1. CASE aps' = ids
      BY <3>1, <2>1, ZenonT(60)
    <3>2. CASE aps' = << >>
      BY <3>2
    <3> QED  BY <2>2, <3>1, <3>2
  <2>5. Len(aps') \in Nat /\ (aps' # << >> => Len(aps') >= 1)
    BY <2>4
  <2> HIDE DEF IInv
  <2> QED  BY <2>2, <2>3, <2>4, <2>5
<1>4. ASSUME NEW a \in AP, pmode(a) \/ lm64(a) \/ pop_rdi(a) \/ ap_entry(a) \/
                           ApApic(a) \/ load_temp_gdt(a) \/ submit(a) \/
                           load_gdt(a) \/ tables_ap_init(a) \/ spin_for_ever(a) PROVE BootTypes'
  BY <1>4 DEF pmode, Goes, lm64, pop_rdi, ap_entry, ApApic, ap_init,
         load_temp_gdt, submit, load_gdt, tables_ap_init, spin_for_ever, found
<1>5. ASSUME server_pop \/ server_spawn PROVE BootTypes'
  BY <1>5 DEF server_pop, server_spawn, found
<1>6. ASSUME NEW c \in threads, registrate(c) \/ generate(c) PROVE BootTypes'
  BY <1>6 DEF registrate, generate, found
<1> HIDE DEF IInv, Typed, BootTypes, Booting, Ended
<1> QED
  BY <1>1, <1>2, <1>3, <1>4, <1>5, <1>6, ZenonT(60) DEF Next, Bsp, Ap, Server,
     Closure

\* The steps that touch an APIC keep the types.
LEMMA ApicTypesStep == ASSUME IInv, Next PROVE ApicTypes'
<1> USE DEF IInv, Typed, ApicTypes, Wanted
<1>1. ASSUME StackFails \/ FillApBoot \/ send_init \/ send_startup \/ wait_ready PROVE ApicTypes'
  BY <1>1 DEF StackFails, Step, others, FillApBoot, send_init, send_startup, wait_ready, apic
<1>2. ASSUME BspEarlyInit \/ BspGdt PROVE ApicTypes'
  BY <1>2 DEF BspEarlyInit, Step, early_init, BspGdt, Healed
<1>3. ASSUME BspPaging PROVE ApicTypes'
  BY <1>3 DEF BspPaging, Step, paging
<1>4. ASSUME BspTimer PROVE ApicTypes'
  BY <1>4 DEF BspTimer, Step, start_timer_hz
<1>5. ASSUME boot_all_aps PROVE ApicTypes'
  BY <1>5 DEF boot_all_aps, Healed
<1>6. ASSUME NEW a \in AP, ApApic(a) PROVE ApicTypes'
  BY <1>6 DEF ApApic, ap_init, Goes
<1>7. ASSUME NEW a \in AP, pmode(a) \/ lm64(a) \/ pop_rdi(a) \/ ap_entry(a)
      PROVE  ApicTypes'
  BY <1>7 DEF pmode, Goes, lm64, pop_rdi, ap_entry, apic
<1>8. ASSUME NEW a \in AP, load_temp_gdt(a) \/ submit(a) \/ load_gdt(a) \/ tables_ap_init(a) \/
                           spin_for_ever(a) PROVE ApicTypes'
  BY <1>8 DEF load_temp_gdt, Goes, submit, load_gdt, tables_ap_init, spin_for_ever, apic
<1>9. ASSUME server_pop \/ server_spawn PROVE ApicTypes'
  BY <1>9 DEF server_pop, server_spawn, apic
<1>10. ASSUME NEW c \in threads, registrate(c) \/ generate(c) PROVE ApicTypes'
  BY <1>10 DEF registrate, generate, apic
<1> HIDE DEF IInv, Typed, ApicTypes, Wanted
<1> QED
  BY <1>1, <1>2, <1>3, <1>4, <1>5, <1>6, <1>7, <1>8, <1>9, <1>10, ZenonT(60) DEF
     Next, Bsp, Ap, Server, Closure

\* The processors, their stacks and the ApBoot page keep their types.
LEMMA ApTypesStep == ASSUME IInv, Next PROVE ApTypes'
<1> USE DEF IInv, Typed, BootTypes, ApTypes, Booting, Ended, ApStates, Nobody, This
<1>0. ASSUME StackFails PROVE ApTypes'
  BY <1>0 DEF StackFails, Step, others
<1>1. ASSUME FillApBoot PROVE ApTypes'
  BY <1>1 DEF FillApBoot
<1>2. ASSUME send_init PROVE ApTypes'
  BY <1>2 DEF send_init
<1>3. ASSUME send_startup PROVE ApTypes'
  BY <1>3 DEF send_startup
<1>4. ASSUME wait_ready PROVE ApTypes'
  BY <1>4 DEF wait_ready
<1>5. ASSUME BspEarlyInit \/ BspGdt \/ BspPaging \/ BspTimer \/ boot_all_aps
      PROVE  ApTypes'
  BY <1>5 DEF BspEarlyInit, Step, early_init, BspGdt, Healed, BspPaging,
         paging, BspTimer, start_timer_hz, boot_all_aps, others
<1>6. ASSUME NEW a \in AP, pmode(a) PROVE ApTypes'
  BY <1>6 DEF pmode, Goes
<1>7. ASSUME NEW a \in AP, lm64(a) PROVE ApTypes'
  BY <1>7 DEF lm64, Goes
<1>8. ASSUME NEW a \in AP, pop_rdi(a) PROVE ApTypes'
  <2>1. ap[a].stack \in AP
    BY <1>8 DEF pop_rdi, TurnInv
  <2>2. top' \in [AP -> {"zero", "apboot", "used"}]
    BY <1>8, <2>1 DEF pop_rdi
  <2>3. ap' \in [AP -> [at : ApStates, stack : AP \cup {Nobody}]]
    BY <1>8 DEF pop_rdi, Goes
  <2> QED  BY <1>8, <2>2, <2>3 DEF pop_rdi
<1>9. ASSUME NEW a \in AP, ap_entry(a) PROVE ApTypes'
  <2>1. ab' \in [ready_flag : {0, 1}, stack_top : AP \cup {Nobody}]
    BY <1>9 DEF ap_entry
  <2>2. ap' \in [AP -> [at : ApStates, stack : AP \cup {Nobody}]]
    BY <1>9 DEF ap_entry, Goes
  <2> QED  BY <1>9, <2>1, <2>2 DEF ap_entry
<1>10. ASSUME NEW a \in AP, ApApic(a) PROVE ApTypes'
  BY <1>10 DEF ApApic, ap_init, Goes
<1>11. ASSUME NEW a \in AP, load_temp_gdt(a) PROVE ApTypes'
  BY <1>11 DEF load_temp_gdt, Goes
<1>12. ASSUME NEW a \in AP, submit(a) PROVE ApTypes'
  <2>1. ap' \in {[ap EXCEPT ![a].at = "spin"], [ap EXCEPT ![a].at = "panic"]}
    BY <1>12, ZenonT(60) DEF submit, Goes
  <2>2. ap' \in [AP -> [at : ApStates, stack : AP \cup {Nobody}]]
    BY <2>1
  <2> QED  BY <1>12, <2>2 DEF submit
<1>13. ASSUME NEW a \in AP, load_gdt(a) \/ tables_ap_init(a) PROVE ApTypes'
  BY <1>13 DEF load_gdt, tables_ap_init, Goes
<1>14. ASSUME NEW a \in AP, spin_for_ever(a) PROVE ApTypes'
  BY <1>14 DEF spin_for_ever, Goes
<1>15. ASSUME server_pop \/ server_spawn PROVE ApTypes'
  BY <1>15 DEF server_pop, server_spawn
<1>16. ASSUME NEW c \in threads, registrate(c) PROVE ApTypes'
  BY <1>16 DEF registrate
<1>17. ASSUME NEW c \in threads, generate(c) PROVE ApTypes'
  BY <1>17 DEF generate
<1> HIDE DEF IInv, Typed, BootTypes, ApTypes, Booting, Ended, ApStates, Nobody, This
<1> QED
  BY <1>0, <1>1, <1>2, <1>3, <1>4, <1>5, <1>6, <1>7, <1>8, <1>9, <1>10, <1>11, <1>12,
     <1>13, <1>14, <1>15, <1>16, <1>17, ZenonT(60) DEF Next, Bsp, Ap, Server, Closure

\* The request for a GDT keeps its types.
LEMMA QueueTypesStep == ASSUME IInv, Next PROVE QueueTypes'
<1> USE DEF IInv, Typed, ApTypes, QueueTypes, Nobody
<1>1. ASSUME StackFails \/ FillApBoot \/ send_init \/ send_startup \/ wait_ready PROVE QueueTypes'
  BY <1>1 DEF StackFails, Step, others, FillApBoot, send_init, send_startup, wait_ready
<1>2. ASSUME BspEarlyInit \/ BspGdt \/ BspPaging \/ BspTimer \/ boot_all_aps
      PROVE  QueueTypes'
  BY <1>2 DEF BspEarlyInit, Step, early_init, BspGdt, Healed, BspPaging,
         paging, BspTimer, start_timer_hz, boot_all_aps, others
<1>3. ASSUME NEW a \in AP, pmode(a) \/ lm64(a) \/ pop_rdi(a) \/ ap_entry(a) \/
                           ApApic(a) PROVE QueueTypes'
  BY <1>3 DEF pmode, Goes, lm64, pop_rdi, ap_entry, ApApic, ap_init
<1>4. ASSUME NEW a \in AP, load_temp_gdt(a) PROVE QueueTypes'
  <2>1. gdt' \in [AP -> AP \cup {Nobody}]
    BY <1>4, Stored, ZenonT(60) DEF load_temp_gdt
  <2> QED  BY <1>4, <2>1 DEF load_temp_gdt
<1>5. ASSUME NEW a \in AP, submit(a) PROVE QueueTypes'
  <2>1. CASE Len(QUEUE) < QUEUE_CAPACITY
    <3>1. QUEUE' = Append(QUEUE, a)
      BY <1>5, <2>1 DEF submit
    <3> QED  BY <1>5, <2>1, <3>1 DEF submit
  <2>2. CASE ~(Len(QUEUE) < QUEUE_CAPACITY)
    <3>1. QUEUE' = QUEUE
      BY <1>5, <2>2 DEF submit
    <3> QED  BY <1>5, <3>1 DEF submit
  <2> QED  BY <2>1, <2>2
<1>6. ASSUME NEW a \in AP, load_gdt(a) \/ tables_ap_init(a) \/ spin_for_ever(a) PROVE QueueTypes'
  BY <1>6 DEF load_gdt, tables_ap_init, Goes, spin_for_ever
<1>7. ASSUME server_pop PROVE QueueTypes'
  BY <1>7 DEF server_pop
<1>8. ASSUME server_spawn PROVE QueueTypes'
  <2>1. [for |-> server, registered |-> FALSE] \in [for : AP, registered : BOOLEAN]
    BY <1>8 DEF server_spawn
  <2>2. threads' \subseteq [for : AP, registered : BOOLEAN]
    BY <1>8, <2>1, ZenonT(60) DEF server_spawn
  <2> QED  BY <1>8, <2>2 DEF server_spawn
<1>9. ASSUME NEW c \in threads, registrate(c) PROVE QueueTypes'
  <2>1. c \in [for : AP, registered : BOOLEAN]
    BY ZenonT(60)
  <2>2. c.for \in AP
    BY <2>1
  <2>3. [for |-> c.for, registered |-> TRUE] \in [for : AP, registered : BOOLEAN]
    BY <2>2, ZenonT(60)
  <2>4. threads' \subseteq [for : AP, registered : BOOLEAN]
    BY <1>9, <2>3, ZenonT(60) DEF registrate
  <2> QED  BY <1>9, <2>4 DEF registrate
<1>10. ASSUME NEW c \in threads, generate(c) PROVE QueueTypes'
  <2>1. c.for \in AP
    OBVIOUS
  <2>2. threads' \subseteq [for : AP, registered : BOOLEAN]
    BY <1>10 DEF generate
  <2>3. gdt' \in [AP -> AP \cup {Nobody}]
    BY <1>10, <2>1, Stored, ZenonT(60) DEF generate
  <2> QED  BY <1>10, <2>2, <2>3 DEF generate
<1> HIDE DEF IInv, Typed, ApTypes, QueueTypes, Nobody
<1> QED
  BY <1>1, <1>2, <1>3, <1>4, <1>5, <1>6, <1>7, <1>8, <1>9, <1>10, ZenonT(60) DEF
     Next, Bsp, Ap, Server, Closure

\* The one MODE stays the one the machine calls for, whoever stores it again.
LEMMA ModeStep == ASSUME IInv, Next PROVE ModeInv'
<1> USE DEF ModeInv, Joined
<1>0. ASSUME StackFails PROVE ModeInv'
  BY <1>0 DEF StackFails, Step, IInv, Typed, BootTypes, others, found, apic
<1>1. ASSUME FillApBoot PROVE ModeInv'
  BY <1>1 DEF FillApBoot, IInv, Typed, BootTypes, ApicTypes, ApTypes, TurnInv,
         Booting, Wanted, others, found, apic
<1>2. ASSUME send_init PROVE ModeInv'
  BY <1>2 DEF send_init, IInv, Typed, BootTypes, ApicTypes, ApTypes, TurnInv,
         Booting, Wanted, others, found, apic
<1>3. ASSUME send_startup PROVE ModeInv'
  BY <1>3 DEF send_startup, IInv, Typed, BootTypes, ApicTypes, ApTypes,
         TurnInv, Booting, Wanted, others, found, apic
<1>4. ASSUME wait_ready PROVE ModeInv'
  BY <1>4 DEF wait_ready, IInv, Typed, BootTypes, ApicTypes, ApTypes, TurnInv,
         Booting, Wanted, others, found, apic
<1>5. ASSUME BspEarlyInit PROVE ModeInv'
  BY <1>5 DEF BspEarlyInit, Step, early_init, IInv, Typed, BootTypes,
         ApicTypes, ApTypes, TurnInv, Booting, Wanted, others, found, apic
<1>6. ASSUME BspGdt PROVE ModeInv'
  BY <1>6 DEF BspGdt, Step, Healed, IInv, Typed, BootTypes, ApicTypes, ApTypes,
         TurnInv, Booting, Wanted, others, found, apic
<1>7. ASSUME BspPaging PROVE ModeInv'
  BY <1>7 DEF BspPaging, Step, paging, IInv, Typed, BootTypes, ApicTypes,
         ApTypes, TurnInv, Booting, Wanted, others, found, apic
<1>8. ASSUME BspTimer PROVE ModeInv'
  <2>1. MODE \in {"X2Apic", "XApic"} /\ Reaches(BSP)
    BY <1>8 DEF IInv, BspTimer, Step, Reaches, Access, Wanted
  <2>2. /\ bsp'.at = "discover" /\ bsp.at = "timer"
        /\ UNCHANGED <<MODE, hw, machine, ap>>
    BY <1>8 DEF IInv, Typed, BootTypes, BspTimer, Step, start_timer_hz, found, others
  <2>3. timer'
    BY <1>8, <2>1, ZenonT(60) DEF BspTimer, start_timer_hz
  <2> QED  BY <2>2, <2>3 DEF IInv
<1>9. ASSUME boot_all_aps PROVE ModeInv'
  <2>1. /\ bsp.at = "discover" /\ bsp'.at \notin Booting
        /\ machine' = machine /\ ap' = ap /\ timer' = timer
    BY <1>9 DEF IInv, Typed, BootTypes, Booting, boot_all_aps, Healed, others
  <2>2. MODE' = MODE /\ hw' = [hw EXCEPT ![BSP] = Wanted(machine.x2)]
    BY <1>9, <2>1 DEF IInv, boot_all_aps, Healed
  <2>3. hw' = hw
    BY <2>1, <2>2 DEF IInv, Typed, ApicTypes
  <2> QED  BY <2>1, <2>2, <2>3 DEF IInv, Booting
<1>10. ASSUME NEW a \in AP, pmode(a) PROVE ModeInv'
  BY <1>10 DEF pmode, Goes, IInv, Typed, ApTypes, found, apic
<1>11. ASSUME NEW a \in AP, lm64(a) PROVE ModeInv'
  BY <1>11 DEF lm64, Goes, IInv, Typed, ApTypes, found, apic
<1>12. ASSUME NEW a \in AP, pop_rdi(a) PROVE ModeInv'
  BY <1>12 DEF pop_rdi, Goes, IInv, Typed, ApTypes, found, apic
<1>13. ASSUME NEW a \in AP, ap_entry(a) PROVE ModeInv'
  BY <1>13 DEF ap_entry, Goes, IInv, Typed, ApTypes, found, apic
<1>14. ASSUME NEW a \in AP, ApApic(a) PROVE ModeInv'
  <2>1. /\ bsp.at \notin Booting /\ bsp' = bsp /\ machine' = machine /\ timer' = timer
        /\ a # BSP
    BY <1>14 DEF IInv, ApApic, TurnInv, ap_init, found
  <2>2. MODE' = (IF machine.x2 THEN "X2Apic" ELSE "XApic")
    BY <1>14 DEF ApApic, ap_init
  <2>3. hw' = [hw EXCEPT ![a] = Wanted(machine.x2)]
    BY <1>14 DEF ApApic, ap_init
  <2>4. \A b \in AP : b # a => ap'[b].at = ap[b].at
    BY <1>14 DEF IInv, Typed, ApTypes, ApApic, Goes
  <2>5. hw'[BSP] = hw[BSP] /\ hw'[a] = Wanted(machine.x2) /\ \A b \in AP : b # a => hw'[b] = hw[b]
    BY <2>1, <2>3 DEF IInv, Typed, ApicTypes
  <2> QED  BY <2>1, <2>2, <2>4, <2>5 DEF IInv, Booting
<1>15. ASSUME NEW a \in AP, load_temp_gdt(a) PROVE ModeInv'
  BY <1>15 DEF load_temp_gdt, Goes, IInv, Typed, ApTypes, found, apic
<1>16. ASSUME NEW a \in AP, submit(a) PROVE ModeInv'
  BY <1>16 DEF submit, Goes, IInv, Typed, ApTypes, found, apic
<1>17. ASSUME NEW a \in AP, load_gdt(a) \/ tables_ap_init(a) PROVE ModeInv'
  BY <1>17 DEF load_gdt, tables_ap_init, Goes, IInv, Typed, ApTypes, found, apic
<1>18. ASSUME NEW a \in AP, spin_for_ever(a) PROVE ModeInv'
  BY <1>18 DEF spin_for_ever, Goes, IInv, Typed, ApTypes, found, apic
<1>19. ASSUME server_pop \/ server_spawn PROVE ModeInv'
  BY <1>19 DEF server_pop, server_spawn, IInv, found, apic
<1>20. ASSUME NEW c \in threads, registrate(c) \/ generate(c) PROVE ModeInv'
  BY <1>20 DEF registrate, generate, IInv, found, apic
<1> HIDE DEF ModeInv, Joined
<1> QED
  BY <1>0, <1>1, <1>2, <1>3, <1>4, <1>5, <1>6, <1>7, <1>8, <1>9, <1>10, <1>11, <1>12,
     <1>13, <1>14, <1>15, <1>16, <1>17, <1>18, <1>19, <1>20, ZenonT(60) DEF Next, Bsp,
     Ap, Server, Closure

\* A processor runs only from its turn on, and its stack is a stack.
LEMMA TurnStep == ASSUME IInv, Next PROVE TurnInv'
<1> USE DEF TurnInv
<1>0. ASSUME StackFails PROVE TurnInv'
  BY <1>0 DEF StackFails, Step, IInv, Typed, BootTypes, Booting, others, found, This
<1>1. ASSUME FillApBoot PROVE TurnInv'
  <2>1. This \in AP
    BY <1>1 DEF IInv, Typed, BootTypes, FillApBoot, Booting, Ended, This
  <2>2. ab'.stack_top = This /\ This' = This /\ ap' = ap
    BY <1>1 DEF IInv, Typed, BootTypes, FillApBoot, found, This
  <2> QED  BY <1>1, <2>1, <2>2 DEF IInv, Typed, BootTypes, FillApBoot, Booting, found
<1>2. ASSUME send_init PROVE TurnInv'
  BY <1>2 DEF send_init, IInv, Typed, BootTypes, ApTypes, Booting, This,
         others, found
<1>3. ASSUME send_startup PROVE TurnInv'
  BY <1>3 DEF send_startup, IInv, Typed, BootTypes, ApTypes, Booting, This,
         others, found
<1>4. ASSUME wait_ready PROVE TurnInv'
  BY <1>4 DEF wait_ready, IInv, Typed, BootTypes, ApTypes, Booting, This,
         others, found
<1>5. ASSUME BspEarlyInit PROVE TurnInv'
  BY <1>5 DEF BspEarlyInit, Step, early_init, IInv, Typed, BootTypes, ApTypes,
         Booting, This, others, found
<1>6. ASSUME BspGdt PROVE TurnInv'
  BY <1>6 DEF BspGdt, Step, Healed, IInv, Typed, BootTypes, ApTypes, Booting,
         This, others, found
<1>7. ASSUME BspPaging PROVE TurnInv'
  BY <1>7 DEF BspPaging, Step, paging, IInv, Typed, BootTypes, ApTypes,
         Booting, This, others, found
<1>8. ASSUME BspTimer PROVE TurnInv'
  BY <1>8 DEF BspTimer, Step, start_timer_hz, IInv, Typed, BootTypes, ApTypes,
         Booting, This, others, found
<1>9. ASSUME boot_all_aps PROVE TurnInv'
  <2>1. bsp.at = "discover" /\ ap' = ap /\ bsp'.at \in {"panic", "fatal", "done", "fill"}
    BY <1>9 DEF IInv, Typed, BootTypes, boot_all_aps, others
  <2>2. \A a \in AP : ap'[a].at = "off"
    BY <2>1 DEF IInv, Booting
  <2>3. \A j \in DOMAIN aps' : aps'[j] \in AP
    BY BootTypesStep DEF BootTypes
  <2> QED  BY <2>1, <2>2, <2>3 DEF Booting
<1>10. ASSUME NEW a \in AP, pmode(a) PROVE TurnInv'
  BY <1>10 DEF pmode, Goes, IInv, Typed, ApTypes, found, This
<1>11. ASSUME NEW a \in AP, lm64(a) PROVE TurnInv'
  BY <1>11 DEF lm64, Goes, IInv, Typed, ApTypes, BootTypes, found, This, Nobody
<1>12. ASSUME NEW a \in AP, pop_rdi(a) PROVE TurnInv'
  BY <1>12 DEF pop_rdi, Goes, IInv, Typed, ApTypes, found, This
<1>13. ASSUME NEW a \in AP, ap_entry(a) PROVE TurnInv'
  BY <1>13 DEF ap_entry, Goes, IInv, Typed, ApTypes, found, This
<1>14. ASSUME NEW a \in AP, ApApic(a) PROVE TurnInv'
  BY <1>14 DEF ApApic, ap_init, Goes, IInv, Typed, ApTypes, found, This
<1>15. ASSUME NEW a \in AP, load_temp_gdt(a) PROVE TurnInv'
  BY <1>15 DEF load_temp_gdt, Goes, IInv, Typed, ApTypes, found, This
<1>16. ASSUME NEW a \in AP, submit(a) PROVE TurnInv'
  <2>1. \A b \in AP : ap'[b].stack = ap[b].stack /\ (b # a => ap'[b].at = ap[b].at)
    BY <1>16 DEF IInv, Typed, ApTypes, submit, Goes
  <2>2. ap'[a].at \in {"spin", "panic"} /\ ap[a].at = "submit"
    BY <1>16 DEF IInv, Typed, ApTypes, submit, Goes
  <2>3. UNCHANGED <<ab, bsp, aps>> /\ This' = This
    BY <1>16 DEF submit, found, This
  <2> QED  BY <2>1, <2>2, <2>3 DEF IInv, Typed, BootTypes
<1>17. ASSUME NEW a \in AP, load_gdt(a) \/ tables_ap_init(a) PROVE TurnInv'
  <2>1. CASE load_gdt(a)
    BY <2>1 DEF load_gdt, Goes, IInv, Typed, ApTypes, found, This
  <2>2. CASE tables_ap_init(a)
    BY <2>2 DEF tables_ap_init, Goes, IInv, Typed, ApTypes, found, This
  <2> QED  BY <1>17, <2>1, <2>2
<1>18. ASSUME NEW a \in AP, spin_for_ever(a) PROVE TurnInv'
  BY <1>18 DEF spin_for_ever, Goes, IInv, Typed, ApTypes, found, This
<1>19. ASSUME server_pop \/ server_spawn PROVE TurnInv'
  BY <1>19 DEF server_pop, server_spawn, IInv, found, This
<1>20. ASSUME NEW c \in threads, registrate(c) \/ generate(c) PROVE TurnInv'
  BY <1>20 DEF registrate, generate, IInv, found, This
<1> HIDE DEF TurnInv
<1> QED
  BY <1>0, <1>1, <1>2, <1>3, <1>4, <1>5, <1>6, <1>7, <1>8, <1>9, <1>10, <1>11, <1>12,
     <1>13, <1>14, <1>15, <1>16, <1>17, <1>18, <1>19, <1>20, ZenonT(60) DEF Next, Bsp,
     Ap, Server, Closure

\* A STARTUP starts a processor in reset and leaves the others alone.
LEMMA StartupMoves ==
  ASSUME IInv, send_startup
  PROVE  /\ \A b \in AP : ap'[b].at = ap[b].at \/ (ap[b].at = "reset" /\ ap'[b].at = "tramp")
         /\ \A b \in AP : ap'[b].stack = ap[b].stack
BY DEF IInv, Typed, ApTypes, send_startup

\* A closure under way is the request of the processor that holds TEMP_GDT.
LEMMA Requested ==
  ASSUME IInv, NEW c \in threads
  PROVE  /\ c.for \in AP /\ TEMP_GDT = c.for /\ threads = {c}
         /\ QUEUE = << >> /\ server = Nobody
         /\ ap[c.for].at \in {"spin", "hung"} /\ ap[c.for].stack \in AP
         /\ gdt[ap[c.for].stack] = Nobody
<1>1. TEMP_GDT # Nobody /\ TEMP_GDT \in AP
  BY DEF IInv, Typed, QueueTypes, QueueInv, Idle
<1>2. ap[TEMP_GDT].at \in {"spin", "hung"} /\ ap[TEMP_GDT].stack \in AP
  BY <1>1 DEF IInv, QueueInv, TurnInv, Idle
<1>3. One(TEMP_GDT) /\ gdt[ap[TEMP_GDT].stack] = Nobody
  BY <1>1, <1>2 DEF IInv, QueueInv, Idle
<1>4. PICK r \in BOOLEAN : threads = {[for |-> TEMP_GDT, registered |-> r]}
  BY <1>3, ZenonT(60) DEF One
<1>5. c = [for |-> TEMP_GDT, registered |-> r] /\ threads = {c}
  BY <1>4, ZenonT(60)
<1>6. c.for = TEMP_GDT
  BY <1>5
<1>7. QUEUE = << >> /\ server = Nobody
  BY <1>3, <1>4 DEF One
<1> QED  BY <1>1, <1>2, <1>3, <1>5, <1>6, <1>7

\* TEMP_GDT admits one request at a time, through every hand of the queue.
LEMMA QueueStep == ASSUME IInv, Next PROVE QueueInv'
<1> USE DEF QueueInv, Nobody
<1>0. ASSUME StackFails PROVE QueueInv'
  BY <1>0 DEF StackFails, IInv, Idle, One, others
<1>1. ASSUME FillApBoot PROVE QueueInv'
  BY <1>1 DEF FillApBoot, IInv, Idle, One, others
<1>2. ASSUME send_init PROVE QueueInv'
  <2>1. This \in AP /\ ap[This].at = "off"
    BY <1>2 DEF IInv, Typed, BootTypes, TurnInv, send_init, Booting, Ended, This
  <2>2. /\ \A b \in AP : ap'[b].at = ap[b].at \/ (ap[b].at = "off" /\ ap'[b].at = "reset")
        /\ \A b \in AP : ap'[b].stack = ap[b].stack
    BY <1>2, <2>1 DEF IInv, Typed, ApTypes, send_init
  <2>3. UNCHANGED <<TEMP_GDT, QUEUE, server, threads, gdt>>
    BY <1>2 DEF send_init
  <2> QED  BY <2>2, <2>3 DEF IInv, Idle, One
<1>3. ASSUME send_startup PROVE QueueInv'
  <2>1. /\ \A b \in AP : ap'[b].at = ap[b].at \/ (ap[b].at = "reset" /\ ap'[b].at = "tramp")
        /\ \A b \in AP : ap'[b].stack = ap[b].stack
    BY <1>3, StartupMoves
  <2>2. UNCHANGED <<TEMP_GDT, QUEUE, server, threads, gdt>>
    BY <1>3 DEF send_startup
  <2> QED  BY <2>1, <2>2 DEF IInv, Idle, One
<1>4. ASSUME wait_ready PROVE QueueInv'
  BY <1>4 DEF wait_ready, IInv, Idle, One, others
<1>5. ASSUME BspEarlyInit PROVE QueueInv'
  BY <1>5 DEF BspEarlyInit, Step, early_init, IInv, Idle, One, others
<1>6. ASSUME BspGdt PROVE QueueInv'
  BY <1>6 DEF BspGdt, Step, Healed, IInv, Idle, One, others
<1>7. ASSUME BspPaging PROVE QueueInv'
  BY <1>7 DEF BspPaging, Step, paging, IInv, Idle, One, others
<1>8. ASSUME BspTimer PROVE QueueInv'
  BY <1>8 DEF BspTimer, Step, start_timer_hz, IInv, Idle, One, others
<1>9. ASSUME boot_all_aps PROVE QueueInv'
  BY <1>9 DEF boot_all_aps, Healed, IInv, Idle, One, others
<1>10. ASSUME NEW a \in AP, pmode(a) PROVE QueueInv'
  BY <1>10 DEF pmode, Goes, IInv, Typed, ApTypes, QueueTypes, Idle, One
<1>11. ASSUME NEW a \in AP, lm64(a) PROVE QueueInv'
  BY <1>11 DEF lm64, Goes, IInv, Typed, ApTypes, QueueTypes, Idle, One
<1>12. ASSUME NEW a \in AP, pop_rdi(a) PROVE QueueInv'
  BY <1>12 DEF pop_rdi, Goes, IInv, Typed, ApTypes, QueueTypes, Idle, One
<1>13. ASSUME NEW a \in AP, ap_entry(a) PROVE QueueInv'
  BY <1>13 DEF ap_entry, Goes, IInv, Typed, ApTypes, QueueTypes, Idle, One
<1>14. ASSUME NEW a \in AP, ApApic(a) PROVE QueueInv'
  BY <1>14 DEF ApApic, ap_init, Goes, IInv, Typed, ApTypes, QueueTypes, Idle,
         One
<1>15. ASSUME NEW a \in AP, load_temp_gdt(a) PROVE QueueInv'
  BY <1>15 DEF load_temp_gdt, Goes, IInv, Typed, ApTypes, QueueTypes, TurnInv,
         Idle, One
<1>16. ASSUME NEW a \in AP, submit(a) PROVE QueueInv'
  <2>1. QUEUE = << >> /\ threads = {} /\ gdt[ap[a].stack] = Nobody /\ TEMP_GDT = a
    BY <1>16 DEF IInv, Idle, submit
  <2>2. QUEUE' = <<a>> /\ ap' = [ap EXCEPT ![a].at = "spin"]
    BY <1>16, <2>1 DEF submit, Goes
  <2>3. UNCHANGED <<TEMP_GDT, server, threads, gdt>> /\ server = Nobody
    BY <1>16 DEF submit
  <2>4. One(a)' /\ gdt'[ap'[a].stack] = Nobody
    BY <2>1, <2>2, <2>3 DEF IInv, Typed, ApTypes, One
  <2>5. \A b \in AP : b # a => ap'[b] = ap[b] /\ TEMP_GDT' # b
    BY <2>1, <2>2, <2>3 DEF IInv, Typed, ApTypes
  <2> QED  BY <2>1, <2>2, <2>3, <2>4, <2>5 DEF IInv, Typed, ApTypes
<1>17. ASSUME NEW a \in AP, load_gdt(a) \/ tables_ap_init(a) PROVE QueueInv'
  <2>1. CASE load_gdt(a)
    BY <2>1 DEF load_gdt, Goes, IInv, Typed, ApTypes, QueueTypes, TurnInv,
         Idle, One
  <2>2. CASE tables_ap_init(a)
    BY <2>2 DEF tables_ap_init, Goes, IInv, Typed, ApTypes, QueueTypes, TurnInv,
         Idle, One
  <2> QED  BY <1>17, <2>1, <2>2
<1>18. ASSUME NEW a \in AP, spin_for_ever(a) PROVE QueueInv'
  BY <1>18 DEF spin_for_ever, Goes, IInv, Typed, ApTypes, QueueTypes, Idle, One
<1>19. ASSUME server_pop PROVE QueueInv'
  BY <1>19 DEF server_pop, IInv, Typed, QueueTypes, Idle, One
<1>20. ASSUME server_spawn PROVE QueueInv'
  <2>1. TEMP_GDT \in AP /\ ap[TEMP_GDT].at \in {"spin", "hung"}
    BY <1>20 DEF IInv, Typed, QueueTypes, Idle, server_spawn
  <2>2. server = TEMP_GDT /\ QUEUE = << >> /\ threads = {} /\ gdt[ap[TEMP_GDT].stack] = Nobody
    BY <1>20, <2>1 DEF IInv, Idle, One, server_spawn
  <2>3. threads' = {[for |-> TEMP_GDT, registered |-> FALSE]}
    BY <1>20, <2>2, ZenonT(60) DEF server_spawn
  <2>4. UNCHANGED <<ap, TEMP_GDT, QUEUE, gdt>> /\ server' = Nobody
    BY <1>20 DEF server_spawn
  <2>5. One(TEMP_GDT)'
    BY <2>2, <2>3, <2>4, ZenonT(60) DEF One
  <2> QED  BY <2>1, <2>2, <2>4, <2>5 DEF IInv
<1>21. ASSUME NEW c \in threads, registrate(c) PROVE QueueInv'
  <2>1. /\ c.for \in AP /\ TEMP_GDT = c.for /\ threads = {c}
        /\ QUEUE = << >> /\ server = Nobody
        /\ ap[c.for].at \in {"spin", "hung"} /\ gdt[ap[c.for].stack] = Nobody
    BY Requested
  <2>2. threads' = {[for |-> c.for, registered |-> TRUE]}
    BY <1>21, <2>1, ZenonT(60) DEF registrate
  <2>3. UNCHANGED <<ap, TEMP_GDT, QUEUE, server, gdt>>
    BY <1>21 DEF registrate
  <2>4. One(c.for)'
    BY <2>1, <2>2, <2>3, ZenonT(60) DEF One
  <2> QED  BY <2>1, <2>3, <2>4 DEF IInv
<1>22. ASSUME NEW c \in threads, generate(c) PROVE QueueInv'
  <2>1. /\ c.for \in AP /\ TEMP_GDT = c.for /\ threads = {c}
        /\ QUEUE = << >> /\ server = Nobody
        /\ ap[c.for].at \in {"spin", "hung"} /\ ap[c.for].stack \in AP
    BY Requested
  <2>2. threads' = {} /\ gdt' = [gdt EXCEPT ![ap[c.for].stack] = c.for]
    BY <1>22, <2>1 DEF generate
  <2>3. UNCHANGED <<ap, TEMP_GDT, QUEUE, server>>
    BY <1>22 DEF generate
  <2>4. Idle' /\ gdt'[ap'[c.for].stack] # Nobody
    BY <2>1, <2>2, <2>3 DEF IInv, Typed, QueueTypes, Idle
  <2> QED  BY <2>1, <2>3, <2>4 DEF IInv
<1> HIDE DEF QueueInv, Nobody
<1> QED
  BY <1>0, <1>1, <1>2, <1>3, <1>4, <1>5, <1>6, <1>7, <1>8, <1>9, <1>10, <1>11, <1>12,
     <1>13, <1>14, <1>15, <1>16, <1>17, <1>18, <1>19, <1>20, <1>21, <1>22, ZenonT(60)
     DEF Next, Bsp, Ap, Server, Closure

\* One processor at a time is on the shared pages, on its own stack.
LEMMA InTimeStep == ASSUME IInv, Next PROVE (late \/ InTime)'
<1> USE DEF InTime, Nobody
<1>0. ASSUME StackFails PROVE (late \/ InTime)'
  BY <1>0 DEF StackFails, Step, IInv, Typed, BootTypes, others, found, This
<1>1. ASSUME FillApBoot PROVE (late \/ InTime)'
  <2>1. This \in AP /\ This' = This
    BY <1>1 DEF IInv, Typed, BootTypes, FillApBoot, Booting, Ended, found, This
  <2>2. /\ UNCHANGED <<ap, gdt, late>> /\ ab'.ready_flag = 0
        /\ bsp.at = "fill" /\ bsp'.at = "init" /\ top'[This] = "apboot"
    BY <1>1, <2>1 DEF IInv, Typed, BootTypes, ApTypes, FillApBoot
  <2>3. late \/ InTime
    BY DEF IInv
  <2> QED  BY <2>1, <2>2, <2>3
<1>2. ASSUME send_init PROVE (late \/ InTime)'
  BY <1>2 DEF send_init, IInv, Typed, BootTypes, ApTypes, TurnInv, Booting,
         Ended, This, found
<1>3. ASSUME send_startup PROVE (late \/ InTime)'
  <2>1. /\ \A b \in AP : ap'[b].at = ap[b].at \/ (ap[b].at = "reset" /\ ap'[b].at = "tramp")
        /\ \A b \in AP : ap'[b].stack = ap[b].stack
    BY <1>3, StartupMoves
  <2>2. /\ UNCHANGED <<ab, top, gdt, late>> /\ This' = This
        /\ bsp.at \in {"sipi1", "sipi2"} /\ bsp'.at \in {"sipi2", "wait"}
    BY <1>3 DEF IInv, Typed, BootTypes, send_startup, found, This
  <2>3. late \/ InTime
    BY DEF IInv
  <2> QED  BY <2>1, <2>2, <2>3
<1>4. ASSUME wait_ready PROVE (late \/ InTime)'
  <2>1. UNCHANGED <<ab, top, ap, gdt>> /\ bsp'.at \in {"done", "fill"}
    BY <1>4 DEF IInv, Typed, BootTypes, wait_ready
  <2>2. late' \/ (~late /\ ab.ready_flag # 0)
    BY <1>4, ZenonT(60) DEF wait_ready
  <2>3. ASSUME ~late, ab.ready_flag # 0 PROVE InTime'
    <3>1. InTime
      BY <2>3 DEF IInv
    <3>2. \A a \in AP : ap[a].at \notin {"reset", "tramp", "lm64", "pop", "entry"}
      BY <2>3, <3>1
    <3> QED  BY <2>1, <3>1, <3>2
  <2> HIDE DEF InTime
  <2> QED  BY <2>2, <2>3, ZenonT(60)
<1>5. ASSUME BspEarlyInit PROVE (late \/ InTime)'
  BY <1>5 DEF BspEarlyInit, Step, early_init, IInv, TurnInv, Booting, others,
         found, This
<1>6. ASSUME BspGdt PROVE (late \/ InTime)'
  BY <1>6 DEF BspGdt, Step, Healed, IInv, TurnInv, Booting, others, found, This
<1>7. ASSUME BspPaging PROVE (late \/ InTime)'
  BY <1>7 DEF BspPaging, Step, paging, IInv, TurnInv, Booting, others, found,
         This
<1>8. ASSUME BspTimer PROVE (late \/ InTime)'
  BY <1>8 DEF BspTimer, Step, start_timer_hz, IInv, TurnInv, Booting, others,
         found, This
<1>9. ASSUME boot_all_aps PROVE (late \/ InTime)'
  BY <1>9 DEF boot_all_aps, Healed, IInv, TurnInv, Booting, others, found, This
<1>10. ASSUME NEW a \in AP, pmode(a) PROVE (late \/ InTime)'
  BY <1>10 DEF pmode, Goes, IInv, Typed, ApTypes, This, found
<1>11. ASSUME NEW a \in AP, lm64(a) PROVE (late \/ InTime)'
  BY <1>11 DEF lm64, Goes, IInv, Typed, ApTypes, TurnInv, This, found
<1>12. ASSUME NEW a \in AP, pop_rdi(a) PROVE (late \/ InTime)'
  BY <1>12 DEF pop_rdi, Goes, IInv, Typed, ApTypes, TurnInv, This, found
<1>13. ASSUME NEW a \in AP, ap_entry(a) PROVE (late \/ InTime)'
  BY <1>13 DEF ap_entry, Goes, IInv, Typed, ApTypes, This, found
<1>14. ASSUME NEW a \in AP, ApApic(a) PROVE (late \/ InTime)'
  BY <1>14 DEF ApApic, ap_init, Goes, IInv, Typed, ApTypes, This, found
<1>15. ASSUME NEW a \in AP, load_temp_gdt(a) PROVE (late \/ InTime)'
  BY <1>15 DEF load_temp_gdt, Goes, IInv, Typed, ApTypes, QueueTypes, TurnInv,
         QueueInv, This, found
<1>16. ASSUME NEW a \in AP, submit(a) PROVE (late \/ InTime)'
  <2>1. gdt[ap[a].stack] = Nobody /\ QUEUE = << >> /\ ap[a].stack \in AP
    BY <1>16 DEF IInv, QueueInv, TurnInv, Idle, submit
  <2>2. ap' = [ap EXCEPT ![a].at = "spin"]
    BY <1>16, <2>1 DEF submit, Goes
  <2>3. UNCHANGED <<ab, top, gdt, late, bsp>> /\ This' = This
    BY <1>16 DEF submit, found, This
  <2>4. (late \/ InTime) /\ ap \in [AP -> [at : ApStates, stack : AP \cup {Nobody}]]
    BY DEF IInv, Typed, ApTypes
  <2> QED  BY <1>16, <2>1, <2>2, <2>3, <2>4 DEF submit
<1>17. ASSUME NEW a \in AP, load_gdt(a) \/ tables_ap_init(a) PROVE (late \/ InTime)'
  <2>1. CASE load_gdt(a)
    BY <2>1 DEF load_gdt, Goes, IInv, Typed, ApTypes, QueueTypes, TurnInv,
         QueueInv, This, found
  <2>2. CASE tables_ap_init(a)
    BY <2>2 DEF tables_ap_init, Goes, IInv, Typed, ApTypes, QueueTypes, TurnInv,
         QueueInv, This, found
  <2> QED  BY <1>17, <2>1, <2>2
<1>18. ASSUME NEW a \in AP, spin_for_ever(a) PROVE (late \/ InTime)'
  BY <1>18 DEF spin_for_ever, Goes, IInv, Typed, ApTypes, This, found
<1>19. ASSUME server_pop \/ server_spawn PROVE (late \/ InTime)'
  BY <1>19 DEF server_pop, server_spawn, IInv, found, This
<1>20. ASSUME NEW c \in threads, registrate(c) PROVE (late \/ InTime)'
  BY <1>20 DEF registrate, IInv, found, This
<1>21. ASSUME NEW c \in threads, generate(c) PROVE (late \/ InTime)'
  <2>1. c.for \in AP /\ ap[c.for].at \in {"spin", "hung"} /\ ap[c.for].stack \in AP
    BY Requested
  <2>2. /\ UNCHANGED <<ab, top, ap, late, bsp>> /\ This' = This
        /\ gdt' = [gdt EXCEPT ![ap[c.for].stack] = c.for]
    BY <1>21 DEF generate, found, This
  <2>3. gdt \in [AP -> AP \cup {Nobody}] /\ (late \/ InTime)
    BY DEF IInv, Typed, QueueTypes
  <2> QED  BY <2>1, <2>2, <2>3
<1> HIDE DEF InTime, Nobody
<1> QED
  BY <1>0, <1>1, <1>2, <1>3, <1>4, <1>5, <1>6, <1>7, <1>8, <1>9, <1>10, <1>11, <1>12,
     <1>13, <1>14, <1>15, <1>16, <1>17, <1>18, <1>19, <1>20, <1>21, ZenonT(60) DEF
     Next, Bsp, Ap, Server, Closure

\* The first state satisfies the invariant.
LEMMA InitInv == Init => IInv
<1> SUFFICES ASSUME Init PROVE IInv
  OBVIOUS
<1>1. BootTypes
  BY DEF Init, BootTypes, Booting, Ended
<1>2. ApicTypes
  <2>1. Wanted(machine.left_x2) \in {"x", "x2"}
    BY DEF Wanted
  <2>2. hw \in [AP \cup {BSP} -> {"x", "x2"}]
    BY <2>1, ZenonT(60) DEF Init
  <2>3. HHDM \in BOOLEAN /\ timer \in BOOLEAN
    BY ZenonT(60) DEF Init
  <2> QED  BY <2>2, <2>3 DEF Init, ApicTypes
<1>3. ApTypes
  <2>1. [at |-> "off", stack |-> Nobody] \in [at : ApStates, stack : AP \cup {Nobody}]
    BY DEF ApStates
  <2>2. ap \in [AP -> [at : ApStates, stack : AP \cup {Nobody}]]
    BY <2>1, ZenonT(60) DEF Init
  <2>3. top \in [AP -> {"zero", "apboot", "used"}] /\ late \in BOOLEAN
    BY ZenonT(60) DEF Init
  <2>4. ab \in [ready_flag : {0, 1}, stack_top : AP \cup {Nobody}]
    BY DEF Init
  <2> QED  BY <2>2, <2>3, <2>4, ZenonT(60) DEF ApTypes
<1>4. QueueTypes
  BY DEF Init, QueueTypes, Nobody
<1>5. ModeInv /\ TurnInv
  BY <1>1 DEF Init, ModeInv, TurnInv, Joined, Booting, BootTypes
<1>6. QueueInv
  BY DEF Init, QueueInv, Idle, Nobody
<1>7. InTime
  BY DEF Init, InTime, Nobody
<1> QED  BY <1>1, <1>2, <1>3, <1>4, <1>5, <1>6, <1>7 DEF IInv, Typed

\* What the invariant says of the properties.
LEMMA InvSafe ==
  ASSUME IInv
  PROVE  SmpTypeOK /\ ApicAgrees /\ TimerRuns /\ OneByOneInTime /\ OwnStack /\ OwnGdt /\ NeverFull
<1>1. SmpTypeOK
  BY DEF IInv, Typed, BootTypes, ApicTypes, ApTypes, QueueTypes, SmpTypeOK
<1>2. ApicAgrees
  BY DEF IInv, ModeInv, TurnInv, ApicAgrees, Reaches, Access, Wanted, Joined, Booting
<1>3. TimerRuns
  BY DEF IInv, ModeInv, TimerRuns, Booting
<1>4. late \/ InTime
  BY DEF IInv
<1>5. OneByOneInTime
  BY <1>4 DEF InTime, OneByOneInTime, InTrampoline
<1>6. OwnStack
  BY <1>4 DEF InTime, OwnStack
<1>7. OwnGdt
  <2>1. CASE InTime
    BY <2>1 DEF IInv, InTime, TurnInv, OwnGdt, Nobody
  <2>2. CASE late
    BY <2>2, ZenonT(60) DEF OwnGdt
  <2> QED  BY <1>4, <2>1, <2>2
<1>8. NeverFull
  BY DEF IInv, QueueInv, NeverFull
<1> QED  BY <1>1, <1>2, <1>3, <1>5, <1>6, <1>7, <1>8

\* However many processors the machine has, whatever its firmware left, however
\* late they come and whatever the capacity of the queue: the one MODE fits every
\* APIC in use, the timer runs before anything is started, and submit never fails;
\* and until wait_ready gives up on a processor they use the shared pages one by
\* one, each on its own stack and with its own GDT (smp.rs, apic.rs, tables/mod.rs,
\* exec.rs).
THEOREM SmpSafe ==
  Spec => [](SmpTypeOK /\ ApicAgrees /\ TimerRuns /\ OneByOneInTime /\ OwnStack /\ OwnGdt
               /\ NeverFull)
<1>1. IInv /\ [Next]_vars => IInv'
  <2>1. ASSUME IInv, Next PROVE IInv'
    BY <2>1, BootTypesStep, ApicTypesStep, ApTypesStep, QueueTypesStep, ModeStep, TurnStep,
       QueueStep, InTimeStep, ZenonT(60) DEF IInv, Typed
  <2>2. ASSUME IInv, UNCHANGED vars PROVE IInv'
    <3>1. BootTypes' /\ ApicTypes' /\ ApTypes' /\ QueueTypes'
      BY <2>2 DEF vars, apic, found, IInv, Typed, BootTypes, ApicTypes, ApTypes, QueueTypes
    <3>2. ModeInv' /\ TurnInv'
      BY <2>2 DEF vars, apic, found, IInv, ModeInv, TurnInv, This
    <3>3. QueueInv'
      BY <2>2 DEF vars, IInv, QueueInv, Idle, One
    <3>4. (late \/ InTime)'
      BY <2>2 DEF vars, found, IInv, InTime, This
    <3> QED  BY <3>1, <3>2, <3>3, <3>4, ZenonT(60) DEF IInv, Typed
  <2> QED  BY <2>1, <2>2
<1> QED  BY <1>1, InitInv, InvSafe, PTL DEF Spec

\* While nobody was late the trampoline and the ApBoot page serve one processor at
\* a time (smp.rs 43).
THEOREM TrampolineShared == Spec => []OneByOneInTime
BY SmpSafe, PTL

\* While nobody was late no two processors run on one stack, and none takes a word
\* of a used stack for the address of ApBoot (smp.rs, ap_trampoline.asm).
THEOREM StacksApart == Spec => []OwnStack
BY SmpSafe, PTL

\* While nobody was late a processor loads the GDT that was made for it
\* (tables/mod.rs ap_init).
THEOREM TablesOwned == Spec => []OwnGdt
BY SmpSafe, PTL

\* The unwrap of submit in tables::ap_init never panics, for any number of
\* processors and a queue of any capacity (exec.rs submit).
THEOREM SubmitNeverFails == Spec => []NeverFull
BY SmpSafe, PTL

-----------------------------------------------------------------------------
(* Under the locks *)

\* The locks that the steps of start-up take only delay them: with all the waiting
\* for memory (smp.rs 111-162, tables/mod.rs 141-158) it does what SmpBoot says.
THEOREM LocksOnlyDelay == LSpec => Spec
<1>1. LInit => Init
  BY DEF LInit
<1>2. ASSUME [LNext]_all PROVE [Next]_vars
  <2>1. ASSUME NEW x \in Actor, Instruction(x) PROVE UNCHANGED vars
    BY <2>1, ZenonT(60) DEF Instruction
  <2>2. CASE MainGoes
    BY <2>1, <2>2, ZenonT(60) DEF MainGoes, MainStep, Next, Actor, OnBsp
  <2>3. CASE ServerGoes
    BY <2>1, <2>3, ZenonT(60) DEF ServerGoes, PopStep, SpawnStep, Next, Server, Actor, OnBsp
  <2>4. ASSUME NEW a \in AP, ThreadGoes(a) PROVE [Next]_vars
    <3>1. Thread(a) \in Actor
      BY ZenonT(60) DEF Actor, OnBsp
    <3>2. CASE Instruction(Thread(a))
      BY <2>1, <3>1, <3>2, ZenonT(60)
    <3>3. ASSUME NEW c \in threads, ClosureStep(c) PROVE [Next]_vars
      BY <3>3, ZenonT(60) DEF ClosureStep, Next, Closure
    <3> QED  BY <2>4, <3>2, <3>3, ZenonT(60) DEF ThreadGoes
  <2>5. ASSUME NEW a \in AP, CpuGoes(a) PROVE [Next]_vars
    <3>1. Cpu(a) \in Actor
      BY ZenonT(60) DEF Actor
    <3> QED  BY <2>1, <2>5, <3>1, ZenonT(60) DEF CpuGoes, CpuStep, Next
  <2>6. ASSUME NEW a \in AP, HangStep(a) PROVE [Next]_vars
    BY <2>6, ZenonT(60) DEF HangStep, Next
  <2>7. CASE UNCHANGED all
    BY <2>7, ZenonT(60) DEF all
  <2> QED  BY <1>2, <2>2, <2>3, <2>4, <2>5, <2>6, <2>7, ZenonT(60) DEF LNext, Progress
<1> QED  BY <1>1, <1>2, PTL DEF LSpec, Spec

\* So all of it holds while the processors wait for each other's memory, too: the
\* trampoline is shared in time, stacks and GDTs are their processors' own, submit
\* never fails and the one MODE fits (smp.rs, apic.rs, tables/mod.rs, exec.rs).
THEOREM SafeUnderLocks ==
  LSpec => [](SmpTypeOK /\ ApicAgrees /\ TimerRuns /\ OneByOneInTime /\ OwnStack /\ OwnGdt
                /\ NeverFull)
BY LocksOnlyDelay, SmpSafe, PTL
=============================================================================
