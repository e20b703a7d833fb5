-------------------------------- MODULE Apic --------------------------------
(***************************************************************************)
(* The local APICs as arch/x86_64/apic.rs drives them.  Every processor    *)
(* has its own, in xAPIC mode (registers in memory) or in x2APIC mode      *)
(* (registers are MSRs); one MODE for all of them says how the kernel      *)
(* reaches the registers.  An access of the wrong kind does nothing here;  *)
(* on the hardware it is a fault or reads garbage.  The page of the        *)
(* registers is taken to be mapped at its own address and behind HHDM.     *)
(***************************************************************************)
EXTENDS Integers

VARIABLES
  MODE,        \* "Unknown", "X2Apic", "XApicPhys", "XApic"
  HHDM,        \* HHDM_BASE is set
  hw,          \* external: the mode each local APIC is in, "x" or "x2"
  timer        \* external: the timer of the boot processor is programmed

apic == <<MODE, HHDM, hw, timer>>

\* early_init, ap_init and lapic_id all want the same of the processor's APIC.
Wanted(has_x2apic) == IF has_x2apic THEN "x2" ELSE "x"

\* Phase 1, on the boot processor.
early_init(c, x2) ==
  /\ hw' = [hw EXCEPT ![c] = Wanted(x2)]
  /\ MODE' = IF x2 THEN "X2Apic" ELSE "XApicPhys"
  /\ UNCHANGED <<HHDM, timer>>

\* Phase 2: the registers are behind HHDM now.
paging ==
  /\ HHDM' = TRUE
  /\ MODE' = IF MODE = "XApicPhys" THEN "XApic" ELSE MODE
  /\ UNCHANGED <<hw, timer>>

\* Mutant: an application processor leaves its APIC as the firmware set it.
ap_init_asis(c, x2) ==
  /\ HHDM' = TRUE
  /\ MODE' = IF x2 THEN "X2Apic" ELSE "XApic"
  /\ UNCHANGED <<hw, timer>>

\* On an application processor: its own APIC, and the MODE of all.
ap_init(c, x2) ==
  /\ hw' = [hw EXCEPT ![c] = Wanted(x2)]
  /\ HHDM' = TRUE
  /\ MODE' = IF x2 THEN "X2Apic" ELSE "XApic"
  /\ UNCHANGED timer

\* lapic_id first switches the APIC of the processor if it is in the wrong mode.
Healed(c, x2) ==
  /\ hw' = [hw EXCEPT ![c] = Wanted(x2)]
  /\ MODE' = IF hw[c] # Wanted(x2) /\ x2 THEN "X2Apic" ELSE MODE
  /\ UNCHANGED <<HHDM, timer>>

\* How lapic_id, eoi, send_init and send_startup reach the registers: without a
\* mode, in memory, at HHDM_BASE as far as it is known.
Access == IF MODE = "X2Apic" THEN "msr" ELSE "memory"

\* The registers a processor reaches are those of its APIC.
Reaches(c) == (Access = "msr") <=> (hw[c] = "x2")

\* open_all_irqs and start_timer_hz: without a final mode nothing happens.
start_timer_hz(c) ==
  /\ timer' = (timer \/ (MODE \in {"X2Apic", "XApic"} /\ Reaches(c)))
  /\ UNCHANGED <<MODE, HHDM, hw>>
=============================================================================
