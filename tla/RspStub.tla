------------------------------- MODULE RspStub -------------------------------
(***************************************************************************)
(* The packet layer of the gdb stub (debug/rsp/core.rs, arch_x86_64.rs,    *)
(* memory.rs, transport.rs) between a debugger and the breakpoints of      *)
(* module Breakpoints.  The line carries bytes to the stub and may lose or *)
(* damage a few of them; the other way it may lose an acknowledgement or a *)
(* packet.  The debugger repeats a packet that is refused or that it hears *)
(* nothing of, and keeps what it has been told.                            *)
(*                                                                         *)
(* A payload is the bytes the stub decides by: the first, and for Z0, z0,  *)
(* m, M and G a digit that stands for the argument.  Framing, checksum and *)
(* acknowledgements are the real ones.                                     *)
(***************************************************************************)
EXTENDS Breakpoints, SequencesExt

CONSTANTS
  Plans,         \* sets of requests: the debugger keeps to one of them.  A request is a
                 \* record of a kind k and an argument a
  Readable,      \* arguments of m that can_read allows
  Window,        \* arguments of m near rsp
  Mapped,        \* arguments of m whose page is mapped
  Noise,         \* bytes a damaged byte may turn into
  INBUF_LEN,     \* bytes of a payload that are kept
  MAX_TRIES,     \* times the debugger sends a packet before it gives up
  MAX_LINE,      \* bytes on the line with which the debugger still sends a new packet,
  MAX_LATE,      \* and answers
  MAX_FAULTS     \* bytes, acknowledgements and packets the line damages or loses

Request == UNION Range(Plans)

ASSUME RspConstants ==
  /\ Request \subseteq [k : {"Z", "z", "c", "s", "k", "?", "Q", "g", "G", "m", "M"}, a : 0 .. 9]
  /\ Noise \subseteq Byte
  /\ INBUF_LEN \in Nat /\ MAX_TRIES \in Nat /\ MAX_LINE \in Nat /\ MAX_LATE \in Nat /\ MAX_FAULTS \in Nat

VARIABLES
  up,            \* bytes on the way to the stub
  down,          \* acknowledgements and packets on the way to the debugger
  NO_ACK,
  regs,          \* rax and rflags of the trap frame
  cell, TMP,     \* a byte of data that M writes, and its buffer
  wedged,        \* the stub re-executes a faulting read for ever
  misread,       \* history: the stub has accepted a payload nobody sent
  ghosts,        \* history: breakpoints a continue has put back after they were cleared
  peer,          \* the debugger: see PeerInit
  faults         \* the line may still commit

stub == <<up, down, NO_ACK, regs, cell, TMP, wedged, misread>>
line == <<peer, faults, ghosts>>
all  == <<vars, stub, line>>

-----------------------------------------------------------------------------
(* Bytes *)

Dollar == 36
Hash   == 35
CtrlC  == 3

hex4(n) == IF n < 10 THEN 48 + n ELSE 87 + n

\* Mutant: letters are no digits.
from_hex_decimal(h) == IF h \in 48 .. 57 THEN h - 48 ELSE -1

\* -1 for a byte that is no digit.
from_hex(h) ==
  CASE h \in 48 .. 57  -> h - 48
    [] h \in 97 .. 102 -> h - 87
    [] h \in 65 .. 70  -> h - 55
    [] OTHER -> -1

cks(payload) ==
  LET sum[i \in 0 .. Len(payload)] == IF i = 0 THEN 0 ELSE (sum[i - 1] + payload[i]) % 256
  IN  sum[Len(payload)]

Packet(payload) ==
  <<Dollar>> \o payload \o <<Hash, hex4(cks(payload) \div 16), hex4(cks(payload) % 16)>>

KeyByte == [Z |-> <<90, 48, 44>>, z |-> <<122, 48, 44>>, c |-> <<99>>, s |-> <<115>>,
            k |-> <<107>>, Q |-> <<81>>, g |-> <<103>>, G |-> <<71>>, m |-> <<109>>, M |-> <<77>>]
HasArgument == {"Z", "z", "G", "m", "M"}

Payload(r) ==
  IF r.k = "?" THEN <<63>>
  ELSE KeyByte[r.k] \o IF r.k \in HasArgument THEN <<48 + r.a>> ELSE << >>

PayloadOf == [r \in Request |-> Payload(r)]
PacketOf  == [r \in Request |-> Packet(PayloadOf[r])]

\* Requests by their payload.
Asked(payload) == {r \in Request : PayloadOf[r] = payload}

-----------------------------------------------------------------------------
(* recv_pkt_len *)

Firsts(s) == {i \in DOMAIN s : s[i] \in {Dollar, CtrlC}}
Hashes(s, i) == {j \in DOMAIN s : j > i /\ s[j] = Hash}
From(s, i) == SubSeq(s, i, Len(s))

\* What is kept of the bytes between '$' and '#'; a '$' among them is one of them.
Body(s, i, j) == LET b == SubSeq(s, i + 1, j - 1)
                 IN  SubSeq(b, 1, IF Len(b) < INBUF_LEN THEN Len(b) ELSE INBUF_LEN)

\* Mutant: digits that are none are taken for a match.
Matches_any(h1, h2, b) ==
  from_hex(h1) = -1 \/ from_hex(h2) = -1 \/ 16 * from_hex(h1) + from_hex(h2) = cks(b)

Matches(h1, h2, b) ==
  /\ from_hex(h1) # -1 /\ from_hex(h2) # -1
  /\ 16 * from_hex(h1) + from_hex(h2) = cks(b)

\* The first thing recv_pkt_len makes of the bytes: it returns a payload or ^C, or
\* refuses a packet; otherwise it waits for more.
Scan(s) ==
  IF Firsts(s) = {} THEN [is |-> "wait", body |-> << >>, rest |-> << >>]
  ELSE LET i == Min(Firsts(s)) IN
       IF s[i] = CtrlC THEN [is |-> "break", body |-> << >>, rest |-> From(s, i + 1)]
       ELSE IF Hashes(s, i) = {} \/ Min(Hashes(s, i)) + 2 > Len(s)
       THEN [is |-> "wait", body |-> << >>, rest |-> From(s, i)]
       ELSE LET j == Min(Hashes(s, i)) IN
            [is   |-> IF Matches(s[j + 1], s[j + 2], Body(s, i, j)) THEN "packet" ELSE "bad",
             body |-> Body(s, i, j), rest |-> From(s, j + 3)]

-----------------------------------------------------------------------------
(* Registers: the fields of g and of G, with their digits *)

Regs64 == <<"rax", "rbx", "rcx", "rdx", "rsi", "rdi", "rbp", "rsp", "r8", "r9", "r10",
            "r11", "r12", "r13", "r14", "r15", "rip">>
Wide == [i \in DOMAIN Regs64 |-> <<Regs64[i], 16>>]

write_g ==
  Wide \o << <<"eflags", 8>>, <<"cs", 8>>, <<"ss", 8>>, <<"segments", 32>>, <<"x87", 200>>,
             <<"bases", 32>> >>

read_g == Wide \o << <<"orig_rax", 16>>, <<"eflags", 8>>, <<"segments", 48>>, <<"bases", 32>> >>

Digits(layout) == FoldLeft(LAMBDA n, f : n + f[2], 0, layout)
Before(layout, i) == Digits(SubSeq(layout, 1, i - 1))

\* The field of a g reply that G takes for register r.
TakenFrom(r) ==
  LET i == CHOOSE i \in DOMAIN read_g : read_g[i][1] = r
      j == {j \in DOMAIN write_g : /\ Before(write_g, j) = Before(read_g, i)
                                   /\ write_g[j][2] = read_g[i][2]}
  IN  IF j = {} THEN "mixed" ELSE write_g[Min(j)][1]

Rax == <<"r0", "r1">>

\* The frame after G with an image in which rax has the value of argument a.
Restored(a) ==
  [rax    |-> IF TakenFrom("rax") = "rax" THEN Rax[a + 1] ELSE TakenFrom("rax"),
   eflags |-> TakenFrom("eflags")]

-----------------------------------------------------------------------------
(* RspServer::run *)

Ack      == [t |-> "+", ans |-> "", rax |-> ""]
Nak      == [t |-> "-", ans |-> "", rax |-> ""]
Reply(a) == [t |-> "$", ans |-> a, rax |-> IF a = "regs" THEN regs.rax ELSE ""]
Answers(s) == [i \in DOMAIN s |-> Reply(s[i])]

\* The stub's acknowledgement, if it sends them.
Acked(token) == IF NO_ACK THEN << >> ELSE <<token>>

\* Mutant: insert is taken to succeed.
Inserted_always(a) == TRUE

Inserted(a) == (find_slot(a) # 0 /\ ArmedAt(find_slot(a))) \/ Plants(a)

can_read(a)  == a \in Readable
m_allowed(a) == can_read(a) \/ a \in Window

\* What a command answers.  An M with a bad digit goes on after its error.
BadDigit == 9
Replies(r) ==
  CASE r.k = "Z" -> <<IF Inserted(r.a) THEN "OK" ELSE "E01">>
    [] r.k = "z" -> <<IF SlotsOf(r.a) # {} THEN "OK" ELSE "E01">>
    [] r.k = "?" -> <<"S05">>
    [] r.k \in {"Q", "G"} -> <<"OK">>
    [] r.k = "g" -> <<"regs">>
    [] r.k = "m" -> IF ~m_allowed(r.a) THEN <<"E01">>
                    ELSE IF r.a \in Mapped THEN <<"data">> ELSE << >>
    [] r.k = "M" -> IF r.a = BadDigit THEN <<"E00", "OK">> ELSE <<"OK">>
    [] OTHER -> << >>

\* Mutant: so does an M.
Outcomes_M == [c |-> "Continue", s |-> "SingleStep", k |-> "KillTask", M |-> "Continue"]

\* The commands that end the session.
Outcomes == [c |-> "Continue", s |-> "SingleStep", k |-> "KillTask"]

\* What it does.
Obey(c, r) ==
  /\ CASE r.k = "Z" -> SetBreakpoint(c, r.a)
       [] r.k = "z" -> ClearBreakpoint(c, r.a)
       [] r.k \in DOMAIN Outcomes -> EndSession(c, Outcomes[r.k])
       [] OTHER -> UNCHANGED vars
  /\ NO_ACK' = (NO_ACK \/ r.k = "Q")
  /\ regs' = IF r.k = "G" THEN Restored(r.a) ELSE regs
  /\ TMP' = IF r.k = "M" /\ r.a # BadDigit THEN r.a ELSE TMP
  /\ cell' = IF r.k = "M" THEN TMP' ELSE cell
  /\ wedged' = (r.k = "m" /\ m_allowed(r.a) /\ r.a \notin Mapped)
  /\ ghosts' = IF r.k \in {"Z", "z"} THEN ghosts \ {r.a} ELSE ghosts
  /\ UNCHANGED misread

\* A stop that opens a session is announced.
Serve(c) ==
  /\ serve(c)
  /\ down' = IF ACTIVE THEN down ELSE Append(down, Reply("T05"))
  /\ UNCHANGED <<up, NO_ACK, regs, cell, TMP, wedged, misread, line>>

Listens(c) == at[c] = "session" /\ ~wedged

\* A packet with a wrong checksum.
Refuse ==
  /\ down' = down \o Acked(Nak)
  /\ UNCHANGED <<vars, NO_ACK, regs, cell, TMP, wedged, misread, ghosts>>

\* ^C between packets, in a session.
Break ==
  /\ down' = Append(down, Reply("S02"))
  /\ UNCHANGED <<vars, NO_ACK, regs, cell, TMP, wedged, misread, ghosts>>

\* A payload that matches no request would be obeyed as well.
Command(c, payload) ==
  LET r == Asked(payload) IN
  IF r = {}
  THEN misread' = TRUE /\ UNCHANGED <<vars, down, NO_ACK, regs, cell, TMP, wedged, ghosts>>
  ELSE \E q \in r : down' = down \o Acked(Ack) \o Answers(Replies(q)) /\ Obey(c, q)

Receive(c) ==
  /\ Listens(c)
  /\ LET p == Scan(up) IN
     /\ up' = p.rest
     /\ CASE p.is = "bad"    -> Refuse
          [] p.is = "break"  -> Break
          [] p.is = "packet" -> Command(c, p.body)
          [] OTHER -> FALSE
  /\ UNCHANGED <<peer, faults>>

-----------------------------------------------------------------------------
(* The debugger and the line: external *)

Nothing == [k |-> "none", a |-> 0]

PeerInit ==
  [plan  |-> 1,
   mode  |-> "running",                  \* idle, unacked, waiting, running, failed, gone
   cmd   |-> Nothing,                    \* its request
   tries |-> 1, noack |-> FALSE,
   twice |-> FALSE,                      \* history: it has repeated a resume unheard
   bp    |-> [a \in Addr |-> "out"],     \* what it knows of the breakpoints,
   rax   |-> "?", cell |-> 0]            \* of rax and of the byte of data

Damaged(p) ==
  {RemoveAt(p, i) : i \in DOMAIN p} \cup {ReplaceAt(p, i, b) : i \in DOMAIN p, b \in Noise}

\* What the stub would pass over does not matter any more.
Arrive(bytes) ==
  LET s == up \o bytes IN up' = IF Firsts(s) = {} THEN << >> ELSE From(s, Min(Firsts(s)))

Transmit(bytes) ==
  \/ Arrive(bytes) /\ UNCHANGED faults
  \/ /\ faults > 0 /\ faults' = faults - 1
     /\ \E d \in Damaged(bytes) \ {bytes} : Arrive(d)

Untouched == UNCHANGED <<vars, NO_ACK, regs, cell, TMP, wedged, misread, ghosts>>

\* The mode once a request is acknowledged.
AfterAck(r) == CASE r.k \in {"c", "s"} -> "running" [] r.k = "k" -> "gone" [] OTHER -> "waiting"

Send(r) ==
  /\ peer.mode = "idle"
  /\ ~peer.twice /\ Len(up) <= MAX_LINE /\ Len(down) <= MAX_LATE
  /\ Transmit(PacketOf[r])
  /\ peer' = [peer EXCEPT !.cmd = r, !.tries = 1,
                          !.mode = IF peer.noack THEN AfterAck(r) ELSE "unacked"]
  /\ Untouched /\ UNCHANGED down

\* Nothing more will come: the stub waits for bytes, or the program runs.
Quiet == down = << >> /\ \A c \in Cpu : Listens(c) => Scan(up).is = "wait"

Again(twice) ==
  IF peer.tries = MAX_TRIES
  THEN peer' = [peer EXCEPT !.mode = "failed"] /\ UNCHANGED <<up, faults>>
  ELSE /\ Transmit(PacketOf[peer.cmd])
       /\ peer' = [peer EXCEPT !.tries = @ + 1, !.twice = @ \/ twice]

Resend ==
  /\ peer.mode = "unacked" /\ Quiet
  /\ Again(\A c \in Cpu : ~Listens(c))
  /\ Untouched /\ UNCHANGED down

\* What an answer tells; "lost" is no answer.
Learnt(ans, rax) ==
  LET r == peer.cmd  ok == ans = "OK" IN
  [peer EXCEPT
    !.mode  = "idle", !.cmd = Nothing,
    !.bp    = IF r.k \in {"Z", "z"}
              THEN [@ EXCEPT ![r.a] = IF ans = "lost" THEN "?"
                                      ELSE IF r.k = "Z" /\ ok THEN "in" ELSE "out"]
              ELSE @,
    !.rax   = IF r.k = "g" /\ ans = "regs" THEN rax
              ELSE IF r.k = "G" THEN (IF ok THEN Rax[r.a + 1] ELSE "?") ELSE @,
    !.cell  = IF r.k = "M" THEN (IF ok THEN r.a ELSE BadDigit) ELSE @,
    !.noack = @ \/ (r.k = "Q" /\ ok)]

\* The debugger takes what comes: a packet before its acknowledgement is dropped.
Hear ==
  /\ down # << >> /\ down' = Tail(down)
  /\ LET h == Head(down) IN
     CASE peer.mode = "unacked" /\ h.t = "+" ->
            peer' = [peer EXCEPT !.mode = AfterAck(peer.cmd), !.tries = 1] /\ UNCHANGED <<up, faults>>
       [] peer.mode = "unacked" /\ h.t = "-" -> Again(FALSE)
       [] peer.mode = "waiting" /\ h.t = "$" ->
            peer' = Learnt(h.ans, h.rax) /\ UNCHANGED <<up, faults>>
       [] peer.mode = "running" /\ h.ans \in {"T05", "S02"} ->
            peer' = [peer EXCEPT !.mode = "idle", !.cmd = Nothing] /\ UNCHANGED <<up, faults>>
       [] OTHER -> UNCHANGED <<up, peer, faults>>
  /\ Untouched

Lose ==
  /\ down # << >> /\ faults > 0
  /\ down' = Tail(down) /\ faults' = faults - 1
  /\ Untouched /\ UNCHANGED <<up, peer>>

\* An answer that was lost is given up; from a wedged stub there is nothing more
\* to be had.
GiveUp ==
  /\ peer.mode = "waiting" /\ Quiet /\ ~wedged
  /\ peer' = Learnt("lost", "?")
  /\ Untouched /\ UNCHANGED <<up, down, faults>>

\* The user interrupts a program that runs, or whose stop was lost.
Interrupt ==
  /\ peer.mode = "running" /\ down = << >> /\ CtrlC \notin Range(up)
  /\ up' = Append(up, CtrlC)
  /\ Untouched /\ UNCHANGED <<down, peer, faults>>

\* A new debugger takes the place of one that had asked for no acknowledgements.
Attach ==
  /\ peer.mode = "idle" /\ peer.noack
  /\ peer' = [PeerInit EXCEPT !.plan = peer.plan, !.mode = "idle", !.bp = [a \in Addr |-> "?"], !.cell = BadDigit]
  /\ Untouched /\ UNCHANGED <<up, down, faults>>

-----------------------------------------------------------------------------

StubInit ==
  /\ Init
  /\ up = << >> /\ down = << >> /\ NO_ACK = FALSE
  /\ regs = [rax |-> "r0", eflags |-> "eflags"]
  /\ cell = 0 /\ TMP = 0 /\ wedged = FALSE /\ misread = FALSE
  /\ ghosts = {} /\ peer \in {[PeerInit EXCEPT !.plan = n] : n \in DOMAIN Plans} /\ faults = MAX_FAULTS

Runs(c) ==
  /\ Execute(c) \/ Int3(c) \/ Fault(c) \/ Enter(c) \/ Close(c)
  /\ UNCHANGED <<stub, line>>

Resumes(c) ==
  /\ Resume(c)
  /\ ghosts' = ghosts \cup {a \in Addr : SlotsOf(a) = {} /\ SlotsOf(a)' # {}}
  /\ UNCHANGED <<stub, peer, faults>>

Stub(c) == Serve(c) \/ Receive(c)

StubNext ==
  \/ \E c \in Cpu : Runs(c) \/ Resumes(c) \/ Stub(c)
  \/ \E r \in Plans[peer.plan] : Send(r)
  \/ Resend \/ Hear \/ Lose \/ GiveUp \/ Interrupt \/ Attach

StubSpec == StubInit /\ [][StubNext]_all

-----------------------------------------------------------------------------
(* Properties *)

\* Every variable of the stub has its type, and the line holds no more than the
\* attempts at one packet and a ^C behind what was there before.
StubTypeOK ==
  /\ up \in Seq(Byte) /\ Len(up) <= MAX_LINE + MAX_TRIES * 8 + 1
  /\ \A i \in DOMAIN down : down[i].t \in {"+", "-", "$"}
  /\ NO_ACK \in BOOLEAN /\ wedged \in BOOLEAN
  /\ regs \in [rax : Range(Rax), eflags : {"eflags", "ss"}]
  /\ cell \in 0 .. 9 /\ TMP \in 0 .. 9
  /\ peer.mode \in {"idle", "unacked", "waiting", "running", "failed", "gone"}
  /\ peer.tries \in 1 .. MAX_TRIES /\ faults \in 0 .. MAX_FAULTS

\* Nothing the line damages is taken for another command: framing and checksum
\* turn one bad byte into a refusal, also when it merges two packets.
NothingMisread == ~misread

\* With acknowledgements, what the debugger has been told is so: a breakpoint it
\* was told is set has an entry and one it was told is not has none, the byte of
\* data is the one it wrote and rax the one it read or wrote.  Neither a packet it
\* repeats, nor a lost answer, nor a ^C answered late puts it out of step.  The
\* exception: a breakpoint cleared while the program stands on it comes back when
\* the program continues (on_resume_continue uses the address taken at the stop).
Agreement ==
  (peer.mode \in {"idle", "unacked", "waiting"} /\ ~NO_ACK /\ ~peer.twice) =>
    LET busy(k) == peer.mode # "idle" /\ peer.cmd.k \in k IN
    /\ \A a \in Addr :
         \/ busy({"Z", "z"}) /\ peer.cmd.a = a
         \/ peer.bp[a] = "?" \/ a \in ghosts
         \/ (peer.bp[a] = "in") = (SlotsOf(a) # {})
    /\ busy({"M"}) \/ peer.cell \in {cell, BadDigit}
    /\ busy({"G"}) \/ peer.rax \in {regs.rax, "?"}

\* One fault costs the debugger no more than two repetitions, so that its third
\* attempt gets through: when it gives up, the stub does not listen, because the
\* program runs or a read has wedged it, or does not acknowledge.
GetsThrough ==
  [][peer'.mode = "failed" => peer.mode = "failed" \/ NO_ACK \/ \E c \in Cpu : ~Listens(c)]_all

\* With acknowledgements, and as long as nothing is lost, a session ends only because
\* the debugger has asked and still waits to hear of it.
Invited ==
  [][faults = MAX_FAULTS /\ ~NO_ACK =>
       \A c \in Cpu : at[c] = "session" /\ at'[c] = "close" =>
          peer.cmd.k \in {"c", "s", "k"} /\ peer.mode = "unacked"]_all
=============================================================================
