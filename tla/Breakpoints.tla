----------------------------- MODULE Breakpoints -----------------------------
(***************************************************************************)
(* Software breakpoints and the debugger stop path                         *)
(* (jotunheimkernel/src/debug/breakpoint.rs, debug/mod.rs, the #DB, #BP,   *)
(* #GP, #PF and #DF handlers, and the commands of the gdb stub that set,   *)
(* clear and resume).  Each processor runs a piece of kernel text; the     *)
(* debugger at the other end of COM2 may send any command at any stop.     *)
(* Every critical section of BP_TABLE is one step; what a handler does     *)
(* between two of them is not.                                             *)
(*                                                                         *)
(* Every instruction is one byte long and the addresses are mapped.  A set *)
(* bit TF of a trap frame is TRUE in stepping.                             *)
(***************************************************************************)
EXTENDS Integers, FiniteSets, FiniteSetsExt

CONSTANTS
  Cpu,               \* the processors that execute the text
  TEXT_LEN,          \* the text is at the addresses 0 .. TEXT_LEN - 1
  Orig,              \* the byte the linker put at each address
  Jumps,             \* pairs of addresses: the branches of the text
  Faulting,          \* addresses of instructions that may raise #GP, #PF, #DF
  Rom,               \* addresses that do not take a write
  MAX_BP,            \* entries of BP_TABLE
  DebugAssertions    \* cfg!(debug_assertions)

Addr == 0 .. (TEXT_LEN - 1)
INT3 == 204          \* 0xCC
Byte == 0 .. 255

ASSUME BpConstants ==
  /\ TEXT_LEN \in Nat \ {0}
  /\ Orig \in [Addr -> Byte]
  /\ Jumps \subseteq Addr \X Addr
  /\ Faulting \subseteq Addr /\ Rom \subseteq Addr
  /\ MAX_BP \in Nat \ {0}
  /\ DebugAssertions \in BOOLEAN

VARIABLES
  text,                \* the bytes of the text now
  BP_TABLE,            \* the breakpoint table; NoBp is an empty slot
  REPLANT_AFTER_STEP,
  ACTIVE,              \* a debugger session is open
  at,                  \* where each processor is
  rip, stepping,       \* rip and TF of its trap frame, or of the processor
  vec,                 \* the exception it handles
  last_hit,            \* local of its handler
  out,                 \* outcome of its session
  ip,                  \* history: the instruction its program is to execute
  deferred             \* history: breakpoints whose re-arming a step put off

vars == <<text, BP_TABLE, REPLANT_AFTER_STEP, ACTIVE, at, rip, stepping, vec,
          last_hit, out, ip, deferred>>
cpus == <<at, rip, stepping, vec, last_hit, out, ip>>

Slot    == 1 .. MAX_BP
Bp      == [addr : Addr, orig : Byte, armed : BOOLEAN]
NoBp    == [addr |-> -1]
None    == -1
Place   == {"run", "trap", "serve", "session", "close", "resume", "dead"}
Vector  == {"none", "DB", "BP", "fault"}
Outcome == {"Continue", "SingleStep", "KillTask"}

Init ==
  /\ text = Orig
  /\ BP_TABLE = [i \in Slot |-> NoBp]
  /\ REPLANT_AFTER_STEP = None /\ ACTIVE = FALSE /\ deferred = {}
  /\ at = [c \in Cpu |-> "run"]
  /\ rip = [c \in Cpu |-> 0] /\ ip = rip
  /\ stepping = [c \in Cpu |-> FALSE]
  /\ vec = [c \in Cpu |-> "none"]
  /\ last_hit = [c \in Cpu |-> None]
  /\ out = [c \in Cpu |-> "Continue"]

-----------------------------------------------------------------------------
(* The table *)

SlotsOf(addr) == {i \in Slot : BP_TABLE[i].addr = addr}
FreeSlots     == SlotsOf(None)

\* A write through with_wp_disabled; one to Rom does not stick.
Written(addr, val) ==
  IF addr \in Rom THEN text ELSE [text EXCEPT ![addr] = val]

\* Mutant: a free slot is taken before the rest of the table is searched.
find_slot_first_free(addr) ==
  IF FreeSlots # {} THEN Min(FreeSlots)
  ELSE IF SlotsOf(addr) # {} THEN Min(SlotsOf(addr)) ELSE 0

\* The entry of addr wherever it is, else the first free one, else none (0).
find_slot(addr) ==
  IF SlotsOf(addr) # {} THEN Min(SlotsOf(addr))
  ELSE IF FreeSlots # {} THEN Min(FreeSlots) ELSE 0

ArmedAt(i) == BP_TABLE[i] # NoBp /\ BP_TABLE[i].armed

\* insert changes something: there is a slot, not armed, and the write sticks.
Plants(addr) ==
  /\ find_slot(addr) # 0 /\ ~ArmedAt(find_slot(addr))
  /\ Written(addr, INT3)[addr] = INT3

\* Mutant: the byte is patched before the table is known to have room.
insert_unchecked(addr) ==
  /\ text' = Written(addr, INT3)
  /\ BP_TABLE' =
       IF Plants(addr)
       THEN [BP_TABLE EXCEPT ![find_slot(addr)] =
               [addr |-> addr, orig |-> text[addr], armed |-> TRUE]]
       ELSE BP_TABLE
  /\ deferred' = IF Plants(addr) THEN deferred \ {addr} ELSE deferred

insert(addr) ==
  /\ text' = IF Plants(addr) THEN Written(addr, INT3) ELSE text
  /\ BP_TABLE' =
       IF Plants(addr)
       THEN [BP_TABLE EXCEPT ![find_slot(addr)] =
               [addr |-> addr, orig |-> text[addr], armed |-> TRUE]]
       ELSE BP_TABLE
  /\ deferred' = IF Plants(addr) THEN deferred \ {addr} ELSE deferred

remove(addr) ==
  /\ IF SlotsOf(addr) = {} THEN UNCHANGED <<text, BP_TABLE>>
     ELSE LET i == Min(SlotsOf(addr)) IN
          /\ text' = IF BP_TABLE[i].armed THEN Written(addr, BP_TABLE[i].orig)
                     ELSE text
          /\ BP_TABLE' = [BP_TABLE EXCEPT ![i] = NoBp]
  /\ deferred' = deferred \ {addr}

\* The slot of the armed breakpoint one byte before pc.
Hits(pc) == {i \in Slot : ArmedAt(i) /\ BP_TABLE[i].addr = pc - 1}

\* Mutant: the breakpoint is unpatched and rip is not rewound.
on_breakpoint_enter_norewind(c) ==
  IF Hits(rip[c]) = {}
  THEN /\ last_hit' = [last_hit EXCEPT ![c] = None]
       /\ UNCHANGED <<text, BP_TABLE, rip>>
  ELSE LET i == Min(Hits(rip[c])) IN
       /\ text' = Written(rip[c] - 1, BP_TABLE[i].orig)
       /\ BP_TABLE' = [BP_TABLE EXCEPT ![i] =
                         [addr |-> BP_TABLE[i].addr, orig |-> BP_TABLE[i].orig,
                          armed |-> FALSE]]
       /\ last_hit' = [last_hit EXCEPT ![c] = rip[c] - 1]
       /\ UNCHANGED rip

\* Any exception that opens the debugger: unpatch and rewind.
on_breakpoint_enter(c) ==
  IF Hits(rip[c]) = {}
  THEN /\ last_hit' = [last_hit EXCEPT ![c] = None]
       /\ UNCHANGED <<text, BP_TABLE, rip>>
  ELSE LET i == Min(Hits(rip[c])) IN
       /\ text' = Written(rip[c] - 1, BP_TABLE[i].orig)
       /\ rip' = [rip EXCEPT ![c] = @ - 1]
       /\ BP_TABLE' = [BP_TABLE EXCEPT ![i] =
                         [addr |-> BP_TABLE[i].addr, orig |-> BP_TABLE[i].orig,
                          armed |-> FALSE]]
       /\ last_hit' = [last_hit EXCEPT ![c] = rip[c] - 1]

\* Mutant: nothing is planted again on continue.
on_resume_continue_forgets(c) ==
  UNCHANGED <<text, BP_TABLE, deferred, REPLANT_AFTER_STEP>>

on_resume_continue(c) ==
  /\ IF last_hit[c] = None THEN UNCHANGED <<text, BP_TABLE, deferred>>
     ELSE insert(last_hit[c])
  /\ UNCHANGED REPLANT_AFTER_STEP

on_resume_step(c) ==
  /\ REPLANT_AFTER_STEP' = last_hit[c]
  /\ deferred' = deferred \cup ({last_hit[c]} \ {None})
  /\ UNCHANGED <<text, BP_TABLE>>

-----------------------------------------------------------------------------
(* The processor *)

Succ(a) == {b \in Addr : b = a + 1 \/ <<a, b>> \in Jumps}

Moves(c, from, to) == at[c] = from /\ at' = [at EXCEPT ![c] = to]

\* An instruction of the program; with TF set it ends in #DB.
Execute(c) ==
  /\ rip[c] \in Addr /\ text[rip[c]] # INT3
  /\ Moves(c, "run", IF stepping[c] THEN "trap" ELSE "run")
  /\ vec' = IF stepping[c] THEN [vec EXCEPT ![c] = "DB"] ELSE vec
  /\ \E b \in Succ(rip[c]) :
       rip' = [rip EXCEPT ![c] = b] /\ ip' = [ip EXCEPT ![c] = b]
  /\ UNCHANGED <<text, BP_TABLE, REPLANT_AFTER_STEP, ACTIVE, stepping, last_hit,
                 out, deferred>>

\* INT3: a planted one is not an instruction of the program.
Int3(c) ==
  /\ rip[c] \in Addr /\ text[rip[c]] = INT3
  /\ Moves(c, "run", "trap")
  /\ vec' = [vec EXCEPT ![c] = "BP"]
  /\ rip' = [rip EXCEPT ![c] = @ + 1]
  /\ ip' = [ip EXCEPT ![c] = IF \E i \in SlotsOf(rip[c]) : ArmedAt(i) THEN rip[c]
                             ELSE rip[c] + 1]
  /\ UNCHANGED <<text, BP_TABLE, REPLANT_AFTER_STEP, ACTIVE, stepping, last_hit,
                 out, deferred>>

\* #GP, #PF, #DF: the frame holds the address of the instruction itself.  A
\* release build ends in exit_current.
Fault(c) ==
  /\ rip[c] \in Faulting /\ text[rip[c]] # INT3
  /\ Moves(c, "run", IF DebugAssertions THEN "trap" ELSE "dead")
  /\ vec' = [vec EXCEPT ![c] = "fault"]
  /\ ip' = [ip EXCEPT ![c] = rip[c]]
  /\ UNCHANGED <<text, BP_TABLE, REPLANT_AFTER_STEP, ACTIVE, rip, stepping,
                 last_hit, out, deferred>>

Enter(c) ==
  /\ Moves(c, "trap", "serve")
  /\ on_breakpoint_enter(c)
  /\ UNCHANGED <<REPLANT_AFTER_STEP, ACTIVE, stepping, vec, out, ip, deferred>>

\* rsp::serve: a stop that finds a session open is continued at once (out is
\* "Continue" here).
serve(c) ==
  /\ Moves(c, "serve", IF ACTIVE THEN "resume" ELSE "session")
  /\ ACTIVE' = TRUE
  /\ UNCHANGED <<text, BP_TABLE, REPLANT_AFTER_STEP, rip, stepping, vec,
                 last_hit, out, ip, deferred>>

SetBreakpoint(c, a) ==
  /\ at[c] = "session" /\ insert(a)
  /\ UNCHANGED <<cpus, REPLANT_AFTER_STEP, ACTIVE>>

ClearBreakpoint(c, a) ==
  /\ at[c] = "session" /\ remove(a)
  /\ UNCHANGED <<cpus, REPLANT_AFTER_STEP, ACTIVE>>

\* The commands c, s and k (and vCont;c, vCont;s) end the session.
EndSession(c, o) ==
  /\ Moves(c, "session", "close")
  /\ out' = [out EXCEPT ![c] = o]
  /\ stepping' = IF o = "KillTask" THEN stepping
                 ELSE [stepping EXCEPT ![c] = (o = "SingleStep")]
  /\ UNCHANGED <<text, BP_TABLE, REPLANT_AFTER_STEP, ACTIVE, rip, vec, last_hit,
                 ip, deferred>>

\* Mutant: a kill leaves the session marked open.
Close_unlesskilled(c) ==
  /\ Moves(c, "close", "resume")
  /\ ACTIVE' = (out[c] = "KillTask")
  /\ UNCHANGED <<text, BP_TABLE, REPLANT_AFTER_STEP, rip, stepping, vec,
                 last_hit, out, ip, deferred>>

Close(c) ==
  /\ Moves(c, "close", "resume")
  /\ ACTIVE' = FALSE
  /\ UNCHANGED <<text, BP_TABLE, REPLANT_AFTER_STEP, rip, stepping, vec,
                 last_hit, out, ip, deferred>>

\* The handler acts on the outcome and returns (its locals are gone), or ends in
\* exit_current.
Resume(c) ==
  /\ Moves(c, "resume", IF out[c] = "KillTask" THEN "dead" ELSE "run")
  /\ CASE out[c] = "Continue"   -> on_resume_continue(c)
       [] out[c] = "SingleStep" -> on_resume_step(c)
       [] out[c] = "KillTask"   ->
            UNCHANGED <<text, BP_TABLE, REPLANT_AFTER_STEP, deferred>>
  /\ IF out[c] = "KillTask" THEN UNCHANGED <<last_hit, out, vec>>
     ELSE /\ last_hit' = [last_hit EXCEPT ![c] = None]
          /\ out' = [out EXCEPT ![c] = "Continue"]
          /\ vec' = [vec EXCEPT ![c] = "none"]
  /\ UNCHANGED <<ACTIVE, rip, stepping, ip>>

Next ==
  \E c \in Cpu :
    \/ Execute(c) \/ Int3(c) \/ Fault(c) \/ Enter(c) \/ serve(c)
    \/ \E a \in Addr : SetBreakpoint(c, a) \/ ClearBreakpoint(c, a)
    \/ \E o \in Outcome : EndSession(c, o)
    \/ Close(c) \/ Resume(c)

Spec == Init /\ [][Next]_vars

-----------------------------------------------------------------------------
(* Properties *)

\* Every variable has its type.
TypeOK ==
  /\ text \in [Addr -> Byte]
  /\ BP_TABLE \in [Slot -> Bp \cup {NoBp}]
  /\ REPLANT_AFTER_STEP \in Addr \cup {None}
  /\ ACTIVE \in BOOLEAN
  /\ at \in [Cpu -> Place]
  /\ rip \in [Cpu -> 0 .. TEXT_LEN]
  /\ ip \in [Cpu -> 0 .. TEXT_LEN]
  /\ stepping \in [Cpu -> BOOLEAN]
  /\ vec \in [Cpu -> Vector]
  /\ last_hit \in [Cpu -> Addr \cup {None}]
  /\ out \in [Cpu -> Outcome]
  /\ deferred \subseteq Addr

IsArmed(a) == \E i \in Slot : ArmedAt(i) /\ BP_TABLE[i].addr = a

\* Whatever the debugger asks and however the processors interleave, a byte of
\* the text is INT3 where a breakpoint is armed and the linker's byte anywhere
\* else, the table remembers the linker's byte, and no address has two entries:
\* insert never saves a planted INT3 as the original (breakpoint.rs 58-89).
TextIntegrity ==
  /\ \A a \in Addr : text[a] = IF IsArmed(a) THEN INT3 ELSE Orig[a]
  /\ \A i \in Slot : BP_TABLE[i] # NoBp => BP_TABLE[i].orig = Orig[BP_TABLE[i].addr]
  /\ \A i, j \in Slot : BP_TABLE[i] # NoBp /\ BP_TABLE[i].addr = BP_TABLE[j].addr
                         => i = j

InSession(c) == at[c] \in {"session", "close"}

\* One processor at a time talks to the debugger, and ACTIVE says exactly
\* whether one does: it is not left set when a session ends, by kill included
\* (debug/mod.rs 54-71).
SingleSession ==
  /\ ACTIVE <=> \E c \in Cpu : InSession(c)
  /\ \A c, d \in Cpu : InSession(c) /\ InSession(d) => c = d

\* A breakpoint is out of the text only while a processor stands on it (or died
\* on it), or once a single step has put off its re-arming: a swallowed stop, a
\* remove or a second processor at the same address loses none.
DisarmedIsOwned ==
  \A i \in Slot : BP_TABLE[i] # NoBp /\ ~BP_TABLE[i].armed =>
    \/ BP_TABLE[i].addr \in deferred
    \/ \E c \in Cpu : last_hit[c] = BP_TABLE[i].addr /\ at[c] \notin {"run", "trap"}

\* With one processor, breakpoints and steps do not change what the program
\* executes, whatever commands the debugger sends: when a handler has entered the
\* debugger rip is where the program is, and it stays there until the next
\* instruction.  The one thing that moves the program is the rewind of a stop that is not
\* an INT3 and lies right behind an armed breakpoint: a single step over a branch
\* to there, or a fault (breakpoint.rs 111-130, isr/debug.rs 10-15).
Transparent ==
  [][\A c \in Cpu :
       at'[c] # "trap" /\ rip'[c] # ip'[c] =>
         \/ at[c] # "trap" /\ rip[c] # ip[c]
         \/ at[c] = "trap" /\ vec[c] # "BP" /\ IsArmed(rip[c] - 1)]_vars

\* "Called right as you enter the debugger on #BP (INT3)" (breakpoint.rs 109):
\* only an INT3 is taken for a hit, and rewound.
RewindOnlyOnInt3 ==
  \A c \in Cpu : at[c] = "serve" /\ vec[c] # "BP" => last_hit[c] = None

\* "we'll re-plant on continue, or after the single-step completes"
\* (breakpoint.rs 122-123): when the program runs freely again, after a step
\* and a continue, the breakpoint that the step put off is armed.
ReplantedAfterStep ==
  \A c \in Cpu : at[c] = "run" /\ ~stepping[c] =>
    \A i \in SlotsOf(REPLANT_AFTER_STEP) : BP_TABLE[i] # NoBp => BP_TABLE[i].armed
=============================================================================
