------------------------------ MODULE MCSmpBoot ------------------------------
(* SmpLocks for TLC: machines with up to three application processors, and  *)
(* a queue of one slot.                                                     *)
EXTENDS SmpLocks

E(typ, len, id, enabled) == [typ |-> typ, len |-> len, apic_id |-> id, enabled |-> enabled]
T(sig, len, sums, lists, entries) ==
  [sig |-> sig, len |-> len, sums |-> sums, lists |-> lists, entries |-> entries]

Three == << E(0, 8, "bsp", TRUE), E(0, 8, "ap1", TRUE), E(0, 8, "ap2", TRUE), E(9, 16, "ap3", TRUE) >>

\* An I/O APIC, an entry of another type, one that is disabled, one too short,
\* and zeroes behind the last.
Mixed == << E(1, 12, "io", TRUE), E(0, 8, "ap1", TRUE), E(2, 10, "irq", TRUE), E(0, 8, "bsp", TRUE),
            E(0, 8, "ap2", FALSE), E(0, 4, "ap2", TRUE), E(9, 16, "ap3", TRUE), E(0, 0, "none", FALSE) >>
Bad   == << E(0, 8, "bsp", TRUE), E(0, 8, "ap2", TRUE) >>

\* Tables 1 and 2 are the XSDT and the RSDT, 3 is the MADT, 4 another table and 5
\* a damaged MADT.
Tables(xsdt, rsdt, len, entries, good) ==
  << T("XSDT", 60, good, xsdt, << >>), T("RSDT", 48, TRUE, rsdt, << >>),
     T("APIC", len, TRUE, << >>, entries), T("FACP", 244, TRUE, << >>, << >>),
     T("APIC", 60, FALSE, << >>, Bad) >>

Rsdp(guid, right, rev, extended) ==
  [guid |-> guid, right |-> right, rev |-> rev, extended |-> extended, xsdt |-> 1, rsdt |-> 2]
Smbios == [Rsdp("SMBIOS", TRUE, 0, FALSE) EXCEPT !.xsdt = 0]
Acpi1  == [Rsdp("ACPI", TRUE, 0, FALSE) EXCEPT !.xsdt = 0]
Acpi2(right, extended) == Rsdp("ACPI2", right, 2, extended)

Machine(config, tables, x2, left_x2, low) ==
  [acpi |-> [config |-> config, tables |-> tables], x2 |-> x2, left_x2 |-> left_x2, low_cr3 |-> low]

Whole == Tables(<<4, 3>>, <<4, 3>>, 128, Mixed, TRUE)

MCMachines ==
  { Machine(<<Smbios, Acpi2(TRUE, TRUE)>>, Tables(<<4, 3>>, <<4, 3>>, 84, Three, TRUE), TRUE, FALSE, TRUE),
    Machine(<<Acpi1, Acpi2(TRUE, TRUE)>>, Whole, FALSE, FALSE, TRUE),
    Machine(<<Acpi2(TRUE, FALSE)>>, Whole, TRUE, TRUE, TRUE),
    Machine(<<Acpi2(TRUE, TRUE)>>, Tables(<<3>>, <<5, 3>>, 128, Mixed, FALSE), FALSE, FALSE, TRUE),
    Machine(<<Acpi2(TRUE, TRUE)>>, Tables(<<4, 5>>, <<3>>, 128, Mixed, TRUE), TRUE, FALSE, TRUE),
    Machine(<<Acpi2(TRUE, TRUE)>>, Tables(<<4>>, <<5>>, 128, Mixed, TRUE), TRUE, TRUE, TRUE),
    Machine(<<Acpi2(TRUE, TRUE)>>, Tables(<<3>>, <<3>>, 76, Three, TRUE), TRUE, TRUE, TRUE),
    Machine(<<Acpi2(TRUE, TRUE)>>, Whole, TRUE, TRUE, FALSE),
    Machine(<<Acpi2(FALSE, TRUE)>>, Whole, TRUE, TRUE, TRUE),
    Machine(<<Smbios>>, Whole, FALSE, FALSE, TRUE) }
=============================================================================
