------------------------------ MODULE RoundRobin ------------------------------
(***************************************************************************)
(* What the scheduler promises: the tasks that wait stand in one line, the *)
(* processor always goes to the head of the line, and the task that had it *)
(* goes to the end.  A new task may enter the line anywhere, but nothing   *)
(* else changes the order of two tasks that wait.  So while a task waits,  *)
(* no other task gets the processor twice.                                 *)
(***************************************************************************)
EXTENDS Integers, Sequences

CONSTANTS TaskIds, NoOne   \* NoOne is not a task

VARIABLES
  running,   \* the task that has the processor, NoOne before the first
  line,      \* the tasks that wait, in the order they will run
  stopped    \* the processor has been halted for good

ring == <<running, line, stopped>>

Init == running = NoOne /\ line = <<>> /\ stopped = FALSE

Admitted == {line[i] : i \in DOMAIN line} \cup {running}

\* The two tasks every system has from the start.
Boot(a, b) ==
  /\ line = <<>> /\ running = NoOne /\ a # b
  /\ line' = <<a, b>>
  /\ UNCHANGED <<running, stopped>>

\* A new task t enters the line at place k.
Admit(t, k) ==
  /\ t \notin Admitted
  /\ line' = [i \in 1 .. (Len(line) + 1) |->
                IF i < k THEN line[i] ELSE IF i = k THEN t ELSE line[i - 1]]
  /\ UNCHANGED <<running, stopped>>

Dispatch ==
  /\ ~stopped /\ line # <<>>
  /\ running' = Head(line)
  /\ line' = IF running = NoOne THEN Tail(line) ELSE Append(Tail(line), running)
  /\ UNCHANGED stopped

Stop == stopped' = TRUE /\ UNCHANGED <<running, line>>

Next ==
  \/ \E a, b \in TaskIds : Boot(a, b)
  \/ \E t \in TaskIds, k \in 1 .. (Len(line) + 1) : Admit(t, k)
  \/ Dispatch
  \/ Stop

Spec     == Init /\ [][Next]_ring
FairSpec == Spec /\ WF_ring(Dispatch)
=============================================================================
