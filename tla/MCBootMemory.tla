---------------------------- MODULE MCBootMemory ----------------------------
(* Sixteen pages of RAM; a page is two bytes, so that ranges may be unaligned. *)
EXTENDS BootMemory

MCFirmware == {0, 7}
MCApPages  == {1, 2}

\* Text, read-only data in the same page, data with a byte of bss, and an empty
\* segment; pages 4 and 5, the second behind the first 2 MiB.
Segment(v, fsz, msz, align) == [v |-> v, fsz |-> fsz, msz |-> msz, align |-> align]
MCSegments == << Segment(8, 1, 1, 2), Segment(9, 1, 1, 1), Segment(10, 1, 2, 4), Segment(0, 0, 0, 1) >>
=============================================================================
