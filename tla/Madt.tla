-------------------------------- MODULE Madt --------------------------------
(***************************************************************************)
(* How the kernel finds its processors: discover of acpi/madt.rs.          *)
(*                                                                         *)
(* acpi is what the firmware left: the configuration tables, among them    *)
(* RSDPs (whether signature and first checksum are right, whether the      *)
(* extension is; the root tables they name), and the ACPI tables by        *)
(* address.  A table has a signature and a length, its bytes add up or     *)
(* not, and it lists the addresses of others or the entries of the MADT.   *)
(* A MADT of len bytes has its entries one behind the other as far as      *)
(* their own lengths say, then zeroes.                                     *)
(***************************************************************************)
EXTENDS Integers, Sequences, FiniteSetsExt, Functions

NoTable == 0

PLAPIC == 0
IOAPIC == 1
LAPIC_ADDR_OVERRIDE == 5
PLX2APIC == 9

SDT_HEADER  == 36      \* bytes of an SdtHeader, and of a MadtHeader
MADT_HEADER == 44

\* The loader's find_rsdp: the first table of either ACPI version in the list of
\* the firmware.
NoRsdp == 0
find_rsdp(acpi) ==
  LET found == {i \in DOMAIN acpi.config : acpi.config[i].guid \in {"ACPI2", "ACPI"}}
  IN  IF found = {} THEN NoRsdp ELSE Min(found)
rsdp(acpi) == acpi.config[find_rsdp(acpi)]

sdt_valid(acpi, at) == acpi.tables[at].len >= SDT_HEADER /\ acpi.tables[at].sums

\* The first valid table of the signature that a root table lists (the RSDT and
\* the XSDT differ in the width of the addresses).
find_sdt_by_sig(acpi, root, want) ==
  LET listed == acpi.tables[root].lists
      found  == {i \in DOMAIN listed : sdt_valid(acpi, listed[i]) /\ acpi.tables[listed[i]].sig = want}
  IN  IF sdt_valid(acpi, root) /\ found # {} THEN listed[Min(found)] ELSE NoTable

\* The address of the XSDT, if the RSDP has one and its extension is right.
xsdt_addr(acpi) ==
  IF rsdp(acpi).rev >= 2 /\ rsdp(acpi).extended THEN rsdp(acpi).xsdt ELSE NoTable

\* Mutant: the RSDT is for firmware without XSDT.
madt_phys_nofallback(acpi) ==
  IF xsdt_addr(acpi) # NoTable THEN find_sdt_by_sig(acpi, xsdt_addr(acpi), "APIC")
  ELSE IF rsdp(acpi).rsdt # NoTable THEN find_sdt_by_sig(acpi, rsdp(acpi).rsdt, "APIC")
  ELSE NoTable

madt_phys(acpi) ==
  LET by_xsdt == IF xsdt_addr(acpi) = NoTable THEN NoTable
                 ELSE find_sdt_by_sig(acpi, xsdt_addr(acpi), "APIC")
  IN  IF by_xsdt # NoTable THEN by_xsdt
      ELSE IF rsdp(acpi).rsdt # NoTable THEN find_sdt_by_sig(acpi, rsdp(acpi).rsdt, "APIC")
      ELSE NoTable

-----------------------------------------------------------------------------
(* The entries *)

Start(madt, k) ==
  FoldFunctionOnSet(LAMBDA e, p : p + e.len, MADT_HEADER, madt.entries, 1 .. (k - 1))

\* The entries the loop comes to: it ends where a header does not fit, and at a
\* length of 0.
Visited(madt) ==
  {k \in DOMAIN madt.entries :
     \A j \in 1 .. k : madt.entries[j].len # 0 /\ Start(madt, j) + 2 <= madt.len}

\* The length an entry must have to be taken for one of its type, and the bytes
\* of it that are read.
Known == {PLAPIC, IOAPIC, LAPIC_ADDR_OVERRIDE, PLX2APIC}
Least(typ) == CASE typ = PLAPIC -> 8 [] typ = PLX2APIC -> 16 [] OTHER -> 12
Bytes(typ) == IF typ = PLAPIC THEN 8 ELSE 12

Taken(e) == e.typ \in Known /\ e.len >= Least(e.typ)

\* An entry that reaches past the end of the table is an index out of range.
Panics(madt) ==
  \E k \in Visited(madt) : LET e == madt.entries[k] IN
    Taken(e) /\ Start(madt, k) + Bytes(e.typ) > madt.len

\* The entry of an enabled processor.
Usable(e) == Taken(e) /\ e.typ \in {PLAPIC, PLX2APIC} /\ e.enabled

\* The ids of the enabled processors, in the order of their entries.
cpus(madt) ==
  LET order == SelectSeq([k \in DOMAIN madt.entries |-> k],
                         LAMBDA k : k \in Visited(madt) /\ Usable(madt.entries[k]))
  IN  [i \in DOMAIN order |-> madt.entries[order[i]].apic_id]

\* None, a panic, or the processors found.
discover(acpi) ==
  LET at == madt_phys(acpi)
      answer(is, ids) == [is |-> is, cpus |-> ids]
  IN  IF find_rsdp(acpi) = NoRsdp \/ ~rsdp(acpi).right \/ at = NoTable
      THEN answer("none", << >>)
      ELSE IF Panics(acpi.tables[at]) THEN answer("panic", << >>)
      ELSE answer("found", cpus(acpi.tables[at]))
=============================================================================
