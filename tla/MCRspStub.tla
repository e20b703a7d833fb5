------------------------------ MODULE MCRspStub ------------------------------
(* An instance of RspStub for TLC. *)
EXTENDS RspStub, TLC

CONSTANT c1

\* Four bytes, the first the INT3 of debug::setup; the last jumps to the first or
\* right behind the breakpoint at 1.
StubText  == 0 :> 204 @@ 1 :> 85 @@ 2 :> 93 @@ 3 :> 195
StubJumps == {<<3, 0>>, <<3, 2>>}

Req(k, args) == {[k |-> k, a |-> a] : a \in args}

Resuming == Req("c", {0}) \cup Req("s", {0}) \cup Req("k", {0})

\* The plans: two breakpoints, set and cleared; more than the table holds and one
\* that does not stick, at address 3; registers and memory, where argument 0 of m is in a
\* section, 1 outside all of them, 2 in a page near rsp that is not mapped; and
\* no acknowledgements.
MCPlans ==
  << Resuming \cup Req("Z", {0, 1}) \cup Req("z", {0, 1}),
     Req("c", {0}) \cup Req("Z", Addr),
     Req("c", {0}) \cup Req("Z", {1}) \cup Req("z", {1}) \cup Req("g", {0}) \cup Req("G", {1})
       \cup Req("m", {0, 1, 2}) \cup Req("M", {1, BadDigit}) \cup Req("?", {0}),
     Req("c", {0}) \cup Req("Q", {0}) >>
=============================================================================
