-------------------------- MODULE BreakpointsProofs --------------------------
(***************************************************************************)
(* TLAPS proofs about Breakpoints, for every number of processors, every   *)
(* text and every table size.                                              *)
(***************************************************************************)
EXTENDS Breakpoints, WellFoundedInduction, TLAPS

\* A nonempty set of naturals has a least element (the first slot or frame that
\* a scan finds).
LEMMA MinIn ==
  ASSUME NEW S \in SUBSET Nat, S # {}
  PROVE  Min(S) \in S /\ \A y \in S : Min(S) <= y
<1> DEFINE R == OpToRel(<, Nat)
<1>1. IsWellFoundedOn(R, Nat)
  BY NatLessThanWellFounded, ZenonT(60)
<1>2. \E x \in S : \A y \in S : ~(<<y, x>> \in R)
  <2> HIDE DEF R
  <2> QED  BY <1>1, WFMin, ZenonT(60)
<1>3. \A x, y \in Nat : ~(<<y, x>> \in R) => x <= y
  BY DEF OpToRel
<1>4. \E x \in S : \A y \in S : x <= y
  <2> HIDE DEF R
  <2> QED  BY <1>2, <1>3, ZenonT(60)
<1> QED  BY <1>4, ZenonT(60) DEF Min

USE BpConstants, SMTT(60)

\* What the table operations keep: the types of the text and of the table, the
\* integrity of the text, and the bytes that cannot be written.
TableInv ==
  /\ text \in [Addr -> Byte]
  /\ BP_TABLE \in [Slot -> Bp \cup {NoBp}]
  /\ TextIntegrity
  /\ \A a \in Rom : text[a] = Orig[a]
  /\ \A i \in Slot : BP_TABLE[i] # NoBp /\ BP_TABLE[i].addr \in Rom
                    => Orig[BP_TABLE[i].addr] = INT3

\* A step that writes neither the text nor the table keeps it.
LEMMA TableSame ==
  ASSUME TableInv, text' = text, BP_TABLE' = BP_TABLE
  PROVE  TableInv'
BY DEF TableInv, TextIntegrity, IsArmed, ArmedAt

\* An entry is a breakpoint exactly when its address is one.
LEMMA Entries ==
  ASSUME TableInv, NEW i \in Slot
  PROVE  /\ BP_TABLE[i] = NoBp <=> BP_TABLE[i].addr = None
         /\ BP_TABLE[i] # NoBp => /\ BP_TABLE[i] \in Bp
                                  /\ BP_TABLE[i].addr \in Addr
                                  /\ BP_TABLE[i].orig = Orig[BP_TABLE[i].addr]
                                  /\ BP_TABLE[i].armed \in BOOLEAN
<1>1. BP_TABLE[i] \in Bp \cup {NoBp}
  BY DEF TableInv
<1>2. NoBp.addr = None /\ None \notin Addr
  BY DEF NoBp, None, Addr
<1>3. CASE BP_TABLE[i] = NoBp
  BY <1>2, <1>3
<1>4. CASE BP_TABLE[i] # NoBp
  <2>1. BP_TABLE[i] \in Bp
    BY <1>1, <1>4
  <2>2. BP_TABLE[i].addr \in Addr /\ BP_TABLE[i].armed \in BOOLEAN
    BY <2>1 DEF Bp
  <2> QED  BY <1>2, <1>4, <2>1, <2>2 DEF TableInv, TextIntegrity
<1> QED  BY <1>3, <1>4

\* The entry of an address, if it has one, is its only entry.
LEMMA OnlySlot ==
  ASSUME TableInv, NEW a \in Addr, NEW i \in SlotsOf(a)
  PROVE  SlotsOf(a) = {i} /\ Min(SlotsOf(a)) = i /\ BP_TABLE[i] # NoBp
<1>1. a # None
  BY DEF Addr, None
<1>2. \A j \in SlotsOf(a) : j \in Slot /\ BP_TABLE[j].addr = a /\ BP_TABLE[j] # NoBp
  BY <1>1, Entries DEF SlotsOf
<1>3. SlotsOf(a) = {i}
  BY <1>2 DEF TableInv, TextIntegrity
<1>4. i \in Nat
  BY <1>2 DEF Slot
<1>5. Min({i}) = i
  BY <1>4 DEF Min
<1> QED  BY <1>2, <1>3, <1>5

\* find_slot returns the entry of the address, or else a free one.
LEMMA FindSlot ==
  ASSUME TableInv, NEW a \in Addr, find_slot(a) # 0
  PROVE  /\ find_slot(a) \in Slot
         /\ \/ BP_TABLE[find_slot(a)] # NoBp /\ BP_TABLE[find_slot(a)].addr = a
            \/ /\ BP_TABLE[find_slot(a)] = NoBp
               /\ \A j \in Slot : BP_TABLE[j] # NoBp => BP_TABLE[j].addr # a
<1>1. CASE SlotsOf(a) # {}
  <2>1. PICK i \in SlotsOf(a) : TRUE
    BY <1>1
  <2>2. find_slot(a) = i
    BY <1>1, <2>1, OnlySlot DEF find_slot
  <2> QED  BY <2>1, <2>2, OnlySlot, ZenonT(60) DEF SlotsOf
<1>2. CASE SlotsOf(a) = {} /\ FreeSlots # {}
  <2>1. FreeSlots \in SUBSET Nat
    BY DEF FreeSlots, SlotsOf, Slot
  <2>2. find_slot(a) \in FreeSlots
    BY <1>2, <2>1, MinIn DEF find_slot
  <2>3. find_slot(a) \in Slot /\ BP_TABLE[find_slot(a)].addr = None
    BY <2>2 DEF FreeSlots, SlotsOf
  <2> QED  BY <1>2, <2>3, Entries DEF SlotsOf
<1> QED  BY <1>1, <1>2 DEF find_slot

\* An address whose entry is not armed, or that has none, holds its own byte.
LEMMA NotArmed ==
  ASSUME TableInv, NEW a \in Addr, NEW i \in Slot, ~ArmedAt(i),
         \/ BP_TABLE[i] # NoBp /\ BP_TABLE[i].addr = a
         \/ \A j \in Slot : BP_TABLE[j] # NoBp => BP_TABLE[j].addr # a
  PROVE  ~IsArmed(a) /\ text[a] = Orig[a]
<1>1. ~IsArmed(a)
  BY DEF IsArmed, ArmedAt, TableInv, TextIntegrity
<1> QED  BY <1>1 DEF TableInv, TextIntegrity

\* Writing a byte changes that byte, or nothing if it is read-only.
LEMMA WrittenByte ==
  ASSUME TableInv, NEW a \in Addr, NEW v \in Byte
  PROVE  /\ Written(a, v) \in [Addr -> Byte]
         /\ \A b \in Addr \ {a} : Written(a, v)[b] = text[b]
         /\ a \notin Rom => Written(a, v)[a] = v
         /\ a \in Rom => Written(a, v)[a] = text[a]
BY DEF Written, TableInv

\* Replacing one entry i that is the entry of a, or free while a has none, by an
\* entry of a, or by none, keeps the table if the text follows.
LEMMA ReplaceEntry ==
  ASSUME TableInv, NEW a \in Addr, NEW i \in Slot, NEW e \in Bp \cup {NoBp},
         \/ BP_TABLE[i] # NoBp /\ BP_TABLE[i].addr = a
         \/ /\ BP_TABLE[i] = NoBp
            /\ \A j \in Slot : BP_TABLE[j] # NoBp => BP_TABLE[j].addr # a,
         e # NoBp => e.addr = a /\ e.orig = Orig[a],
         e # NoBp /\ a \in Rom => Orig[a] = INT3,
         BP_TABLE' = [BP_TABLE EXCEPT ![i] = e],
         text' \in [Addr -> Byte],
         \A b \in Addr \ {a} : text'[b] = text[b],
         text'[a] = IF e # NoBp /\ e.armed THEN INT3 ELSE Orig[a],
         a \in Rom => text'[a] = Orig[a]
  PROVE  TableInv'
<1>1. BP_TABLE' \in [Slot -> Bp \cup {NoBp}]
  BY DEF TableInv
<1>2. BP_TABLE'[i] = e /\ \A j \in Slot \ {i} : BP_TABLE'[j] = BP_TABLE[j]
  BY DEF TableInv
<1>3. \A j \in Slot \ {i} : BP_TABLE[j] # NoBp => BP_TABLE[j].addr # a
  BY DEF TableInv, TextIntegrity
<1>4. IsArmed(a)' <=> e # NoBp /\ e.armed
  BY <1>2, <1>3 DEF IsArmed, ArmedAt
<1>5. \A b \in Addr \ {a} : IsArmed(b)' <=> IsArmed(b)
  <2> TAKE b \in Addr \ {a}
  <2>1. ASSUME IsArmed(b)' PROVE IsArmed(b)
    BY <1>2, <2>1 DEF IsArmed, ArmedAt
  <2>2. ASSUME IsArmed(b) PROVE IsArmed(b)'
    <3>1. PICK j \in Slot : BP_TABLE[j] # NoBp /\ BP_TABLE[j].armed /\ BP_TABLE[j].addr = b
      BY <2>2 DEF IsArmed, ArmedAt
    <3>2. j # i
      BY <3>1
    <3> QED  BY <1>2, <3>1, <3>2 DEF IsArmed, ArmedAt
  <2> QED  BY <2>1, <2>2
<1>6. \A b \in Addr : text'[b] = IF IsArmed(b)' THEN INT3 ELSE Orig[b]
  BY <1>4, <1>5 DEF TableInv, TextIntegrity
<1>7. \A j \in Slot : BP_TABLE'[j] # NoBp => BP_TABLE'[j].orig = Orig[BP_TABLE'[j].addr]
  BY <1>2 DEF TableInv, TextIntegrity
<1>8. \A j, k \in Slot : BP_TABLE'[j] # NoBp /\ BP_TABLE'[j].addr = BP_TABLE'[k].addr
                         => j = k
  <2> SUFFICES ASSUME NEW j \in Slot, NEW k \in Slot, BP_TABLE'[j] # NoBp,
                      BP_TABLE'[j].addr = BP_TABLE'[k].addr
               PROVE  j = k
    OBVIOUS
  <2>1. CASE j # i /\ k # i
    BY <1>2, <2>1 DEF TableInv, TextIntegrity
  <2>2. CASE j = i /\ k # i
    <3>1. BP_TABLE[k].addr = a
      BY <1>2, <2>2
    <3>2. BP_TABLE[k] # NoBp
      BY <3>1, Entries DEF Addr, None
    <3> QED  BY <1>3, <2>2, <3>1, <3>2
  <2>3. CASE j # i /\ k = i
    <3>1. BP_TABLE[j] # NoBp /\ BP_TABLE[j].addr = e.addr
      BY <1>2, <2>3
    <3>2. e # NoBp
      BY <3>1, Entries DEF NoBp, None
    <3> QED  BY <1>3, <2>3, <3>1, <3>2
  <2> QED  BY <2>1, <2>2, <2>3
<1>9. \A b \in Rom : text'[b] = Orig[b]
  BY DEF TableInv
<1>10. \A j \in Slot : BP_TABLE'[j] # NoBp /\ BP_TABLE'[j].addr \in Rom
                      => Orig[BP_TABLE'[j].addr] = INT3
  BY <1>2 DEF TableInv
<1> QED
  BY <1>1, <1>6, <1>7, <1>8, <1>9, <1>10 DEF TableInv, TextIntegrity

\* The entries that are in the table and not in the text.
Disarmed(a) == \E i \in Slot : BP_TABLE[i] # NoBp /\ ~BP_TABLE[i].armed
                               /\ BP_TABLE[i].addr = a

\* insert keeps the table, disarms nothing, and leaves its address armed if it
\* has an entry.
LEMMA InsertInv ==
  ASSUME TableInv, NEW a \in Addr, insert(a)
  PROVE  /\ TableInv'
         /\ \A b \in Addr : Disarmed(b)' => Disarmed(b) /\ b # a
         /\ \A b \in Addr \ {a} : b \in deferred => b \in deferred'
         /\ deferred' \subseteq deferred
<1> DEFINE i == find_slot(a)
           e == [addr |-> a, orig |-> text[a], armed |-> TRUE]
<1>1. CASE Plants(a)
  <2>1. i \in Slot /\ i # 0 /\ ~ArmedAt(i)
    BY <1>1, FindSlot DEF Plants
  <2>2. text[a] = Orig[a]
    BY <1>1, <2>1, FindSlot, NotArmed
  <2>3. e \in Bp /\ e # NoBp /\ e.addr = a /\ e.orig = Orig[a] /\ e.armed = TRUE
    <3>1. e \in Bp
      BY DEF Bp, TableInv
    <3>2. e.addr = a /\ NoBp.addr = -1
      BY DEF NoBp
    <3>3. e # NoBp
      BY <3>2 DEF Addr
    <3> QED  BY <2>2, <3>1, <3>2, <3>3
  <2>4. BP_TABLE' = [BP_TABLE EXCEPT ![i] = e] /\ text' = Written(a, INT3)
        /\ Written(a, INT3)[a] = INT3 /\ deferred' = deferred \ {a}
    BY <1>1 DEF insert, Plants
  <2>5. INT3 \in Byte
    BY DEF INT3, Byte
  <2>6. text' \in [Addr -> Byte] /\ text'[a] = INT3
        /\ \A b \in Addr \ {a} : text'[b] = text[b]
    BY <2>4, <2>5, WrittenByte
  <2>7. a \in Rom => Orig[a] = INT3
    BY <2>2, <2>4, <2>5, WrittenByte
  <2>8. \/ BP_TABLE[i] # NoBp /\ BP_TABLE[i].addr = a
        \/ /\ BP_TABLE[i] = NoBp
           /\ \A j \in Slot : BP_TABLE[j] # NoBp => BP_TABLE[j].addr # a
    BY <2>1, FindSlot
  <2> HIDE DEF i, e
  <2>9. TableInv'
    <3>1. /\ e \in Bp \cup {NoBp} /\ (e # NoBp => e.addr = a /\ e.orig = Orig[a])
          /\ (e # NoBp /\ a \in Rom => Orig[a] = INT3)
      BY <2>3, <2>7, ZenonT(60)
    <3>2. /\ text'[a] = IF e # NoBp /\ e.armed THEN INT3 ELSE Orig[a]
          /\ (a \in Rom => text'[a] = Orig[a])
      BY <2>3, <2>6, <2>7, ZenonT(60)
    <3> QED  BY <2>1, <2>4, <2>6, <2>8, <3>1, <3>2, ReplaceEntry, ZenonT(60)
  <2>10. \A b \in Addr : Disarmed(b)' => Disarmed(b) /\ b # a
    <3>1. BP_TABLE'[i] = e /\ \A j \in Slot \ {i} : BP_TABLE'[j] = BP_TABLE[j]
      BY <2>1, <2>4 DEF TableInv
    <3>2. \A j \in Slot \ {i} : BP_TABLE[j] # NoBp => BP_TABLE[j].addr # a
      BY <2>1, <2>8 DEF TableInv, TextIntegrity
    <3> QED  BY <2>3, <3>1, <3>2 DEF Disarmed
  <2> QED  BY <2>4, <2>9, <2>10
<1>2. CASE ~Plants(a)
  <2>1. text' = text /\ BP_TABLE' = BP_TABLE /\ deferred' = deferred
    BY <1>2 DEF insert
  <2>2. TableInv'
    BY <2>1, TableSame
  <2>3. ~Disarmed(a)
    <3> SUFFICES ASSUME NEW j \in Slot, BP_TABLE[j] # NoBp, ~BP_TABLE[j].armed,
                        BP_TABLE[j].addr = a
                 PROVE  FALSE
      BY DEF Disarmed
    <3>1. find_slot(a) = j
      BY OnlySlot, ZenonT(60) DEF SlotsOf, find_slot
    <3>2. ~ArmedAt(j) /\ j # 0
      BY DEF ArmedAt, Slot
    <3>3. text[a] = Orig[a] /\ (a \in Rom => Orig[a] = INT3)
      BY <3>2, NotArmed DEF TableInv
    <3>4. Written(a, INT3)[a] = INT3
      <4>1. INT3 \in Byte
        BY DEF INT3, Byte
      <4> QED  BY <3>3, <4>1, WrittenByte
    <3> QED  BY <1>2, <3>1, <3>2, <3>4 DEF Plants
  <2>4. \A b \in Addr : Disarmed(b)' => Disarmed(b)
    BY <2>1 DEF Disarmed
  <2> QED  BY <2>1, <2>2, <2>3, <2>4
<1> QED  BY <1>1, <1>2

\* remove keeps the table and disarms nothing.
LEMMA RemoveInv ==
  ASSUME TableInv, NEW a \in Addr, remove(a)
  PROVE  /\ TableInv'
         /\ \A b \in Addr : Disarmed(b)' => Disarmed(b) /\ b # a
         /\ \A b \in Addr \ {a} : b \in deferred => b \in deferred'
         /\ deferred' \subseteq deferred
<1>0. deferred' = deferred \ {a}
  BY DEF remove
<1>1. CASE SlotsOf(a) = {}
  <2>1. text' = text /\ BP_TABLE' = BP_TABLE
    BY <1>1 DEF remove
  <2>2. TableInv'
    BY <2>1, TableSame
  <2>3. \A b \in Addr : Disarmed(b)' => Disarmed(b) /\ b # a
    BY <1>1, <2>1 DEF Disarmed, SlotsOf
  <2> QED  BY <1>0, <2>2, <2>3
<1>2. CASE SlotsOf(a) # {}
  <2>1. PICK i \in SlotsOf(a) : TRUE
    BY <1>2
  <2>2. /\ i \in Slot /\ BP_TABLE[i] # NoBp /\ BP_TABLE[i].addr = a
        /\ Min(SlotsOf(a)) = i
    BY <2>1, OnlySlot, ZenonT(60) DEF SlotsOf
  <2>3. BP_TABLE[i].orig = Orig[a]
    BY <2>2, Entries
  <2>4. /\ BP_TABLE' = [BP_TABLE EXCEPT ![i] = NoBp]
        /\ text' = IF BP_TABLE[i].armed THEN Written(a, Orig[a]) ELSE text
    BY <1>2, <2>2, <2>3 DEF remove
  <2>5. Orig[a] \in Byte
    OBVIOUS
  <2>6. /\ text' \in [Addr -> Byte] /\ text'[a] = Orig[a]
        /\ \A b \in Addr \ {a} : text'[b] = text[b]
    <3>1. CASE BP_TABLE[i].armed
      BY <2>4, <2>5, <3>1, WrittenByte DEF TableInv
    <3>2. CASE ~BP_TABLE[i].armed
      <4>1. text[a] = Orig[a]
        BY <2>2, <3>2, NotArmed DEF ArmedAt
      <4> QED  BY <2>4, <3>2, <4>1 DEF TableInv
    <3> QED  BY <3>1, <3>2
  <2>7. TableInv'
    BY <2>2, <2>4, <2>6, ReplaceEntry, ZenonT(60)
  <2>8. \A b \in Addr : Disarmed(b)' => Disarmed(b) /\ b # a
    <3>1. BP_TABLE'[i] = NoBp /\ \A j \in Slot \ {i} : BP_TABLE'[j] = BP_TABLE[j]
      BY <2>2, <2>4 DEF TableInv
    <3>2. \A j \in Slot \ {i} : BP_TABLE[j] # NoBp => BP_TABLE[j].addr # a
      BY <2>2 DEF TableInv, TextIntegrity
    <3> QED  BY <3>1, <3>2 DEF Disarmed
  <2> QED  BY <1>0, <2>7, <2>8
<1> QED  BY <1>1, <1>2

\* Entering the debugger keeps the table; what it disarms is the hit it returns.
LEMMA EnterInv ==
  ASSUME TableInv, NEW c \in Cpu, rip \in [Cpu -> 0 .. TEXT_LEN],
         last_hit \in [Cpu -> Addr \cup {None}], on_breakpoint_enter(c)
  PROVE  /\ TableInv'
         /\ rip' \in [Cpu -> 0 .. TEXT_LEN]
         /\ last_hit' \in [Cpu -> Addr \cup {None}]
         /\ \A d \in Cpu \ {c} : last_hit'[d] = last_hit[d]
         /\ \A b \in Addr : Disarmed(b)' => Disarmed(b) \/ last_hit'[c] = b
<1>1. CASE Hits(rip[c]) = {}
  <2>1. text' = text /\ BP_TABLE' = BP_TABLE /\ rip' = rip
        /\ last_hit' = [last_hit EXCEPT ![c] = None]
    BY <1>1 DEF on_breakpoint_enter
  <2>2. TableInv'
    BY <2>1, TableSame
  <2>3. \A b \in Addr : Disarmed(b)' => Disarmed(b)
    BY <2>1 DEF Disarmed
  <2> QED  BY <2>1, <2>2, <2>3
<1>2. CASE Hits(rip[c]) # {}
  <2> DEFINE a == rip[c] - 1
  <2>1. PICK i \in Hits(rip[c]) : TRUE
    BY <1>2
  <2>2. i \in Slot /\ BP_TABLE[i] # NoBp /\ BP_TABLE[i].armed /\ BP_TABLE[i].addr = a
    BY <2>1 DEF Hits, ArmedAt
  <2>3. a \in Addr /\ BP_TABLE[i].orig = Orig[a] /\ Orig[a] \in Byte
    BY <2>2, Entries
  <2>4. Hits(rip[c]) = {i}
    BY <2>1, <2>2 DEF Hits, ArmedAt, TableInv, TextIntegrity
  <2>5. Min(Hits(rip[c])) = i
    <3>1. i \in Nat
      BY <2>2 DEF Slot
    <3> QED  BY <2>4, <3>1 DEF Min
  <2> DEFINE e == [addr |-> a, orig |-> Orig[a], armed |-> FALSE]
  <2>6. /\ text' = Written(a, Orig[a]) /\ rip' = [rip EXCEPT ![c] = a]
        /\ BP_TABLE' = [BP_TABLE EXCEPT ![i] = e]
        /\ last_hit' = [last_hit EXCEPT ![c] = a]
    BY <1>2, <2>2, <2>3, <2>5 DEF on_breakpoint_enter
  <2>7. e \in Bp /\ e # NoBp /\ e.addr = a /\ e.orig = Orig[a] /\ ~e.armed
    <3>1. e \in Bp
      BY <2>3 DEF Bp
    <3>2. e.addr = a /\ NoBp.addr = -1
      BY DEF NoBp
    <3>3. e # NoBp
      BY <2>3, <3>2 DEF Addr
    <3> QED  BY <3>1, <3>3
  <2>8. a \in 0 .. TEXT_LEN
    BY <2>3 DEF Addr
  <2>9. a \in Rom => Orig[a] = INT3
    BY <2>2 DEF TableInv
  <2> HIDE DEF a, e
  <2>10. /\ text' \in [Addr -> Byte] /\ text'[a] = Orig[a]
         /\ \A b \in Addr \ {a} : text'[b] = text[b]
    BY <2>3, <2>6, WrittenByte DEF TableInv
  <2>11. TableInv'
    <3>1. e \in Bp \cup {NoBp} /\ BP_TABLE' = [BP_TABLE EXCEPT ![i] = e]
      BY <2>6, <2>7
    <3>2. /\ e # NoBp => e.addr = a /\ e.orig = Orig[a]
          /\ e # NoBp /\ a \in Rom => Orig[a] = INT3
          /\ a \in Rom => text'[a] = Orig[a]
      BY <2>7, <2>9, <2>10
    <3>3. text'[a] = IF e # NoBp /\ e.armed THEN INT3 ELSE Orig[a]
      BY <2>7, <2>10
    <3>4. /\ text' \in [Addr -> Byte]
          /\ \A b \in Addr \ {a} : text'[b] = text[b]
      BY <2>10
    <3>5. BP_TABLE[i] # NoBp /\ BP_TABLE[i].addr = a
      BY <2>2 DEF a
    <3>6. a \in Addr /\ i \in Slot
      BY <2>2, <2>3
    <3> QED  BY <3>1, <3>2, <3>3, <3>4, <3>5, <3>6, ReplaceEntry, ZenonT(60)
  <2>12. BP_TABLE'[i] = e /\ \A j \in Slot \ {i} : BP_TABLE'[j] = BP_TABLE[j]
    BY <2>2, <2>6 DEF TableInv
  <2>13. last_hit'[c] = a
    BY <2>6
  <2>14. \A b \in Addr : Disarmed(b)' => Disarmed(b) \/ last_hit'[c] = b
    BY <2>7, <2>12, <2>13 DEF Disarmed
  <2> QED  BY <2>3, <2>6, <2>8, <2>11, <2>14
<1> QED  BY <1>1, <1>2

-----------------------------------------------------------------------------
(* The invariant *)

Owned(b) == \E c \in Cpu : last_hit[c] = b /\ at[c] \notin {"run", "trap"}

IInv ==
  /\ TypeOK /\ TableInv /\ SingleSession
  /\ \A b \in Addr : Disarmed(b) => b \in deferred \/ Owned(b)

\* A step that leaves the table alone disarms nothing.
LEMMA DisarmedSame ==
  ASSUME BP_TABLE' = BP_TABLE
  PROVE  \A b \in Addr : Disarmed(b)' <=> Disarmed(b)
BY ZenonT(60) DEF Disarmed

\* A step that opens and closes no session keeps at most one open.
LEMMA SessionsSame ==
  ASSUME SingleSession, ACTIVE' = ACTIVE,
         \A d \in Cpu : InSession(d)' <=> InSession(d)
  PROVE  SingleSession'
BY ZenonT(60) DEF SingleSession

\* The invariant holds of the table as it is linked.
LEMMA InitInv == Init => IInv
<1> SUFFICES ASSUME Init PROVE IInv
  OBVIOUS
<1>1. \A i \in Slot : BP_TABLE[i] = NoBp
  BY DEF Init
<1>2. 0 \in 0 .. TEXT_LEN
  OBVIOUS
<1>3. TypeOK
  BY <1>2, ZenonT(60) DEF Init, TypeOK, Place, Vector, Outcome, None
<1>4. TableInv
  BY <1>1 DEF Init, TableInv, TextIntegrity, IsArmed, ArmedAt
<1>5. SingleSession
  BY DEF Init, SingleSession, InSession
<1> QED
  BY <1>1, <1>3, <1>4, <1>5 DEF IInv, Disarmed

\* A step of one processor outside the table and outside a session.
LEMMA QuietInv ==
  ASSUME IInv, TypeOK', NEW c \in Cpu, NEW p, NEW q, Moves(c, p, q),
         UNCHANGED <<text, BP_TABLE, deferred, ACTIVE>>,
         p \notin {"session", "close"}, q \notin {"session", "close"},
         p \in {"run", "trap"}, last_hit' = last_hit
  PROVE  IInv'
<1>1. at[c] = p /\ at'[c] = q /\ \A d \in Cpu \ {c} : at'[d] = at[d]
  <2>1. at \in [Cpu -> Place]
    BY ZenonT(60) DEF IInv, TypeOK
  <2> QED  BY <2>1 DEF Moves
<1>2. TableInv'
  BY TableSame, ZenonT(60) DEF IInv
<1>3. \A d \in Cpu : InSession(d)' <=> InSession(d)
  BY <1>1 DEF InSession
<1>4. SingleSession'
  BY <1>3, SessionsSame, ZenonT(60) DEF IInv
<1>5. \A b \in Addr : Owned(b) => Owned(b)'
  BY <1>1, ZenonT(60) DEF Owned
<1>6. \A b \in Addr : Disarmed(b)' => b \in deferred' \/ Owned(b)'
  BY <1>5, DisarmedSame, ZenonT(60) DEF IInv
<1> QED  BY <1>2, <1>4, <1>6, ZenonT(60) DEF IInv

\* Where a step takes one processor, and nobody else.
LEMMA OneMoves ==
  ASSUME TypeOK, NEW c \in Cpu, NEW p, NEW q \in Place, Moves(c, p, q)
  PROVE  /\ at' \in [Cpu -> Place] /\ at[c] = p /\ at'[c] = q
         /\ \A d \in Cpu \ {c} : at'[d] = at[d]
BY DEF Moves, TypeOK

\* Instructions, INT3 and faults.
LEMMA RunInv ==
  ASSUME IInv, NEW c \in Cpu, Execute(c) \/ Int3(c) \/ Fault(c)
  PROVE  IInv'
<1>1. CASE Execute(c)
  <2>1. PICK b \in Succ(rip[c]) :
          rip' = [rip EXCEPT ![c] = b] /\ ip' = [ip EXCEPT ![c] = b]
    BY <1>1, ZenonT(60) DEF Execute
  <2>2. b \in 0 .. TEXT_LEN
    BY <2>1 DEF Succ, Addr
  <2>3. PICK q \in {"run", "trap"} : Moves(c, "run", q)
    BY <1>1, ZenonT(60) DEF Execute
  <2>4. at' \in [Cpu -> Place]
    BY <2>3, OneMoves DEF IInv, Place
  <2>5. TypeOK'
    BY <1>1, <2>1, <2>2, <2>4, ZenonT(60) DEF Execute, IInv, TypeOK, Vector
  <2> QED  BY <1>1, <2>3, <2>5, QuietInv, ZenonT(60) DEF Execute
<1>2. CASE Int3(c)
  <2>1. rip[c] + 1 \in 0 .. TEXT_LEN
    BY <1>2 DEF Int3, Addr
  <2>2. Moves(c, "run", "trap")
    BY <1>2 DEF Int3
  <2>3. at' \in [Cpu -> Place]
    BY <2>2, OneMoves DEF IInv, Place
  <2>4. TypeOK'
    BY <1>2, <2>1, <2>3, ZenonT(60) DEF Int3, IInv, TypeOK, Vector
  <2> QED  BY <1>2, <2>2, <2>4, QuietInv DEF Int3
<1>3. CASE Fault(c)
  <2>1. PICK q \in {"trap", "dead"} : Moves(c, "run", q)
    BY <1>3, ZenonT(60) DEF Fault
  <2>2. at' \in [Cpu -> Place]
    BY <2>1, OneMoves DEF IInv, Place
  <2>3. TypeOK'
    BY <1>3, <2>2, ZenonT(60) DEF Fault, IInv, TypeOK, Vector
  <2> QED  BY <1>3, <2>1, <2>3, QuietInv, ZenonT(60) DEF Fault
<1> QED  BY <1>1, <1>2, <1>3

\* A processor that enters the debugger owns the breakpoint it disarms.
LEMMA StopInv ==
  ASSUME IInv, NEW c \in Cpu, Enter(c)
  PROVE  IInv'
<1>1. /\ at' \in [Cpu -> Place] /\ at[c] = "trap" /\ at'[c] = "serve"
      /\ \A d \in Cpu \ {c} : at'[d] = at[d]
  BY OneMoves DEF Enter, IInv, Place
<1>2. /\ TableInv'
      /\ rip' \in [Cpu -> 0 .. TEXT_LEN]
      /\ last_hit' \in [Cpu -> Addr \cup {None}]
      /\ \A d \in Cpu \ {c} : last_hit'[d] = last_hit[d]
      /\ \A b \in Addr : Disarmed(b)' => Disarmed(b) \/ last_hit'[c] = b
  <2>1. /\ TableInv /\ rip \in [Cpu -> 0 .. TEXT_LEN] /\ on_breakpoint_enter(c)
        /\ last_hit \in [Cpu -> Addr \cup {None}]
    BY ZenonT(60) DEF Enter, IInv, TypeOK
  <2> QED  BY <2>1, EnterInv
<1>3. TypeOK'
  BY <1>1, <1>2 DEF Enter, IInv, TypeOK, TableInv
<1>4. SingleSession'
  <2>1. \A d \in Cpu : InSession(d)' <=> InSession(d)
    BY <1>1 DEF InSession
  <2> QED  BY <2>1, SessionsSame, ZenonT(60) DEF Enter, IInv
<1>5. \A b \in Addr : Disarmed(b)' => b \in deferred' \/ Owned(b)'
  <2>1. \A b \in Addr : Owned(b) \/ last_hit'[c] = b => Owned(b)'
    BY <1>1, <1>2, ZenonT(60) DEF Owned
  <2> QED  BY <1>2, <2>1, ZenonT(60) DEF Enter, IInv
<1> QED  BY <1>2, <1>3, <1>4, <1>5, ZenonT(60) DEF IInv

\* The steps of a session that do not touch the table.
LEMMA SessionInv ==
  ASSUME IInv, NEW c \in Cpu,
         serve(c) \/ Close(c) \/ \E o \in Outcome : EndSession(c, o)
  PROVE  IInv'
<1>1. UNCHANGED <<text, BP_TABLE, last_hit, deferred>>
  BY ZenonT(60) DEF serve, Close, EndSession
<1>2. TableInv'
  BY <1>1, TableSame DEF IInv
<1>3. PICK p \in {"serve", "session", "close"}, q \in {"session", "close", "resume"} :
        Moves(c, p, q)
  BY ZenonT(60) DEF serve, Close, EndSession
<1>4. /\ at' \in [Cpu -> Place] /\ at[c] = p /\ at'[c] = q
      /\ \A d \in Cpu \ {c} : at'[d] = at[d]
  BY <1>3, OneMoves DEF IInv, Place
<1>5. TypeOK'
  <2>1. CASE serve(c) \/ Close(c)
    BY <1>1, <1>4, <2>1, ZenonT(60) DEF serve, Close, IInv, TypeOK
  <2>2. CASE \E o \in Outcome : EndSession(c, o)
    <3>1. PICK o \in Outcome : EndSession(c, o)
      BY <2>2
    <3> DEFINE v == (o = "SingleStep")
    <3>2. v \in BOOLEAN
      OBVIOUS
    <3>3. stepping' = IF o = "KillTask" THEN stepping ELSE [stepping EXCEPT ![c] = v]
      BY <3>1, ZenonT(60) DEF EndSession
    <3> HIDE DEF v
    <3>4. stepping' \in [Cpu -> BOOLEAN]
      BY <3>2, <3>3 DEF IInv, TypeOK
    <3>5. /\ UNCHANGED <<REPLANT_AFTER_STEP, ACTIVE, rip, ip, vec>>
          /\ out' = [out EXCEPT ![c] = o]
      BY <3>1, ZenonT(60) DEF EndSession
    <3> QED  BY <1>1, <1>4, <3>4, <3>5 DEF IInv, TypeOK
  <2> QED  BY <2>1, <2>2, ZenonT(60)
<1>6. \A b \in Addr : Disarmed(b)' => b \in deferred' \/ Owned(b)'
  <2>1. \A b \in Addr : Owned(b) => Owned(b)'
    BY <1>1, <1>4 DEF Owned
  <2> QED  BY <1>1, <2>1, DisarmedSame, ZenonT(60) DEF IInv
<1>7. SingleSession'
  <2>1. SingleSession /\ at \in [Cpu -> Place]
    BY ZenonT(60) DEF IInv, TypeOK
  <2>2. CASE serve(c)
    <3>1. /\ at[c] = "serve" /\ ACTIVE' = TRUE
          /\ at'[c] = IF ACTIVE THEN "resume" ELSE "session"
      BY <2>1, <2>2 DEF serve, Moves
    <3> QED  BY <1>4, <2>1, <3>1 DEF SingleSession, InSession
  <2>3. CASE Close(c)
    <3>1. at[c] = "close" /\ at'[c] = "resume" /\ ACTIVE' = FALSE
      BY <2>1, <2>3 DEF Close, Moves
    <3> QED  BY <1>4, <2>1, <3>1 DEF SingleSession, InSession
  <2>4. CASE \E o \in Outcome : EndSession(c, o)
    <3>1. at[c] = "session" /\ at'[c] = "close" /\ ACTIVE' = ACTIVE
      BY <2>1, <2>4 DEF EndSession, Moves
    <3>2. \A d \in Cpu : InSession(d)' <=> InSession(d)
      BY <1>4, <3>1 DEF InSession
    <3> QED  BY <2>1, <3>1, <3>2, SessionsSame, ZenonT(60)
  <2> QED  BY <2>2, <2>3, <2>4, ZenonT(60)
<1> QED  BY <1>2, <1>5, <1>6, <1>7, ZenonT(60) DEF IInv

\* Z0 and z0.
LEMMA CommandInv ==
  ASSUME IInv, NEW c \in Cpu, NEW a \in Addr,
         SetBreakpoint(c, a) \/ ClearBreakpoint(c, a)
  PROVE  IInv'
<1>1. UNCHANGED <<cpus, REPLANT_AFTER_STEP, ACTIVE>>
  BY DEF SetBreakpoint, ClearBreakpoint
<1>2. /\ TableInv'
      /\ \A b \in Addr : Disarmed(b)' => Disarmed(b) /\ b # a
      /\ \A b \in Addr \ {a} : b \in deferred => b \in deferred'
      /\ deferred' \subseteq deferred
  <2>1. insert(a) \/ remove(a)
    BY DEF SetBreakpoint, ClearBreakpoint
  <2>2. TableInv
    BY DEF IInv
  <2> QED  BY <2>1, <2>2, InsertInv, RemoveInv
<1>3. TypeOK'
  BY <1>1, <1>2 DEF cpus, IInv, TypeOK, TableInv
<1>4. SingleSession'
  <2>1. \A d \in Cpu : InSession(d)' <=> InSession(d)
    BY <1>1 DEF cpus, InSession
  <2> QED  BY <1>1, <2>1, SessionsSame, ZenonT(60) DEF IInv
<1>5. \A b \in Addr : Disarmed(b)' => b \in deferred' \/ Owned(b)'
  BY <1>1, <1>2, ZenonT(60) DEF cpus, IInv, Owned
<1> QED  BY <1>2, <1>3, <1>4, <1>5, ZenonT(60) DEF IInv

\* The handler returns: a continue plants what its stop disarmed, a step puts
\* it off, and a killed task keeps it.
LEMMA ResumeInv ==
  ASSUME IInv, NEW c \in Cpu, Resume(c)
  PROVE  IInv'
<1>1. PICK q \in {"dead", "run"} :
        Moves(c, "resume", q) /\ (out[c] = "KillTask" <=> q = "dead")
  BY DEF Resume
<1>2. /\ at' \in [Cpu -> Place] /\ at[c] = "resume" /\ at'[c] = q
      /\ \A d \in Cpu \ {c} : at'[d] = at[d]
  <2>1. TypeOK /\ q \in Place
    BY DEF IInv, Place
  <2> QED  BY <1>1, <2>1, OneMoves, ZenonT(60)
<1>3. SingleSession'
  <2>1. \A d \in Cpu : InSession(d)' <=> InSession(d)
    BY <1>2 DEF InSession
  <2> QED  BY <2>1, SessionsSame, ZenonT(60) DEF Resume, IInv
<1>4. /\ last_hit' \in [Cpu -> Addr \cup {None}]
      /\ out' \in [Cpu -> Outcome] /\ vec' \in [Cpu -> Vector]
      /\ \A d \in Cpu \ {c} : last_hit'[d] = last_hit[d]
      /\ out[c] = "KillTask" => last_hit' = last_hit
  BY DEF Resume, IInv, TypeOK, Outcome, Vector
<1>5. out[c] \in Outcome /\ last_hit[c] \in Addr \cup {None} /\ TableInv
  BY DEF IInv, TypeOK
<1>6. /\ TableInv' /\ deferred' \subseteq Addr
      /\ REPLANT_AFTER_STEP' \in Addr \cup {None}
      /\ \A b \in Addr : Disarmed(b)' =>
           /\ Disarmed(b)
           /\ b \in deferred => b \in deferred'
           /\ \/ last_hit[c] # b
              \/ b \in deferred'
              \/ out[c] = "KillTask"
  <2>1. CASE out[c] = "Continue" /\ last_hit[c] # None
    <3>1. insert(last_hit[c]) /\ REPLANT_AFTER_STEP' = REPLANT_AFTER_STEP
      BY <2>1 DEF Resume, on_resume_continue
    <3>2. last_hit[c] \in Addr
      BY <1>5, <2>1
    <3>3. /\ TableInv'
          /\ \A b \in Addr : Disarmed(b)' => Disarmed(b) /\ b # last_hit[c]
          /\ \A b \in Addr \ {last_hit[c]} : b \in deferred => b \in deferred'
          /\ deferred' \subseteq deferred
      BY <1>5, <3>1, <3>2, InsertInv, ZenonT(60)
    <3> QED  BY <3>1, <3>3 DEF IInv, TypeOK
  <2>2. CASE ~(out[c] = "Continue" /\ last_hit[c] # None)
    <3>1. text' = text /\ BP_TABLE' = BP_TABLE
      BY <1>5, <2>2, ZenonT(60) DEF Resume, on_resume_continue, on_resume_step, Outcome
    <3>2. TableInv'
      BY <1>5, <3>1, TableSame
    <3>3. \A b \in Addr : Disarmed(b)' => Disarmed(b)
      BY <3>1, DisarmedSame, ZenonT(60)
    <3>4. None \notin Addr
      BY DEF None, Addr
    <3>5. CASE out[c] = "SingleStep"
      <4>1. /\ REPLANT_AFTER_STEP' = last_hit[c]
            /\ deferred' = deferred \cup ({last_hit[c]} \ {None})
        BY <3>5 DEF Resume, on_resume_step
      <4> QED  BY <1>5, <3>2, <3>3, <3>4, <4>1 DEF IInv, TypeOK
    <3>6. CASE out[c] # "SingleStep"
      <4>1. REPLANT_AFTER_STEP' = REPLANT_AFTER_STEP /\ deferred' = deferred
        BY <1>5, <2>2, <3>6, ZenonT(60) DEF Resume, on_resume_continue, Outcome
      <4>2. out[c] = "KillTask" \/ last_hit[c] = None
        BY <1>5, <2>2, <3>6 DEF Outcome
      <4> QED  BY <3>2, <3>3, <3>4, <4>1, <4>2 DEF IInv, TypeOK
    <3> QED  BY <3>5, <3>6, ZenonT(60)
  <2> QED  BY <2>1, <2>2, ZenonT(60)
<1>7. TypeOK'
  BY <1>2, <1>4, <1>6 DEF Resume, IInv, TypeOK, TableInv
<1>8. \A b \in Addr : Disarmed(b)' => b \in deferred' \/ Owned(b)'
  <2> SUFFICES ASSUME NEW b \in Addr, Disarmed(b)', b \notin deferred'
               PROVE  Owned(b)'
    OBVIOUS
  <2>1. Owned(b)
    BY <1>6, ZenonT(60) DEF IInv
  <2>2. PICK d \in Cpu : last_hit[d] = b /\ at[d] \notin {"run", "trap"}
    BY <2>1 DEF Owned
  <2>3. last_hit'[d] = b /\ at'[d] \notin {"run", "trap"}
    BY <1>1, <1>2, <1>4, <1>6, <2>2, ZenonT(60)
  <2> QED  BY <2>3 DEF Owned
<1> QED  BY <1>3, <1>6, <1>7, <1>8, ZenonT(60) DEF IInv

\* For any number of processors, any text and any sequence of debugger
\* commands: the text holds INT3 exactly under armed breakpoints and its own
\* bytes elsewhere, one session is open at a time, and every disarmed
\* breakpoint belongs to a stopped processor or to a step that put it off
\* (breakpoint.rs, debug/mod.rs serve and the exception handlers).
THEOREM BreakpointsSafe ==
  Spec => [](TypeOK /\ TextIntegrity /\ SingleSession /\ DisarmedIsOwned)
<1>1. IInv /\ [Next]_vars => IInv'
  <2> SUFFICES ASSUME IInv, [Next]_vars PROVE IInv'
    OBVIOUS
  <2>1. ASSUME NEW c \in Cpu, Execute(c) \/ Int3(c) \/ Fault(c) PROVE IInv'
    BY <2>1, RunInv
  <2>2. ASSUME NEW c \in Cpu, Enter(c) PROVE IInv'
    BY <2>2, StopInv
  <2>3. ASSUME NEW c \in Cpu,
               serve(c) \/ Close(c) \/ \E o \in Outcome : EndSession(c, o)
        PROVE  IInv'
    BY <2>3, SessionInv
  <2>4. ASSUME NEW c \in Cpu, NEW a \in Addr,
               SetBreakpoint(c, a) \/ ClearBreakpoint(c, a)
        PROVE  IInv'
    BY <2>4, CommandInv
  <2>5. ASSUME NEW c \in Cpu, Resume(c) PROVE IInv'
    BY <2>5, ResumeInv
  <2>6. CASE UNCHANGED vars
    <3>1. TypeOK'
      BY <2>6, ZenonT(60) DEF vars, IInv, TypeOK
    <3>2. TableInv'
      BY <2>6, TableSame, ZenonT(60) DEF vars, IInv
    <3>3. SingleSession'
      BY <2>6, SessionsSame, ZenonT(60) DEF vars, IInv, InSession
    <3>4. \A b \in Addr : Disarmed(b)' => b \in deferred' \/ Owned(b)'
      BY <2>6, DisarmedSame, ZenonT(60) DEF vars, IInv, Owned
    <3> QED  BY <3>1, <3>2, <3>3, <3>4, ZenonT(60) DEF IInv
  <2> QED
    BY <2>1, <2>2, <2>3, <2>4, <2>5, <2>6 DEF Next
<1>2. IInv => TypeOK /\ TextIntegrity /\ SingleSession /\ DisarmedIsOwned
  <2> SUFFICES ASSUME IInv PROVE TextIntegrity /\ DisarmedIsOwned
    BY DEF IInv
  <2>1. TextIntegrity /\ TableInv
    BY DEF IInv, TableInv
  <2>2. DisarmedIsOwned
    BY <2>1, Entries DEF IInv, DisarmedIsOwned, Disarmed, Owned
  <2> QED  BY <2>1, <2>2
<1> QED
  BY <1>1, <1>2, InitInv, PTL DEF Spec

\* No two processors talk to the debugger at once (debug/mod.rs serve).
THEOREM SessionsExclude == Spec => []SingleSession
BY BreakpointsSafe, PTL

\* A breakpoint is out of the text only while a processor stands on it, or once a
\* single step has put off its re-arming (breakpoint.rs on_breakpoint_enter,
\* on_resume_continue).
THEOREM DisarmedOwned == Spec => []DisarmedIsOwned
BY BreakpointsSafe, PTL
=============================================================================
