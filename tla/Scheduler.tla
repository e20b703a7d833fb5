------------------------------ MODULE Scheduler ------------------------------
(***************************************************************************)
(* The preemptive round-robin scheduler of the kernel                      *)
(* (jotunheimkernel/src/sched/mod.rs), as it runs on the bootstrap         *)
(* processor.  Every operation on the run queue is one critical section of *)
(* with_rq_locked (interrupts off, RQ held), so every operation is one     *)
(* step.  What interleaves is the timer interrupt with the code of the     *)
(* task that has the processor.                                            *)
(*                                                                         *)
(* A trap frame is abstracted to the number of the execution context it    *)
(* resumes.  Context k is the one task k was created with; context 0 is    *)
(* idle_main, context 1 the reaper closure, and every later one a closure  *)
(* given to spawn.  The table index of the code is one less than here.     *)
(***************************************************************************)
EXTENDS Integers, SequencesExt

CONSTANTS
  DEFAULT_SLICE,  \* quantum of a task, in ticks
  U32_MAX,        \* the time_slice that marks an idle task
  MAX_TASKS       \* bound on the tasks ever created (the code has none)

ASSUME SchedConstants ==
  /\ DEFAULT_SLICE \in Nat \ {0}
  /\ U32_MAX \in Nat /\ U32_MAX > 2 * DEFAULT_SLICE
  /\ MAX_TASKS \in Nat /\ MAX_TASKS >= 3

VARIABLES
  tasks,          \* RunQueue.tasks
  current,        \* RunQueue.current; NoTask for None
  next_id,        \* RunQueue.next_id
  need_resched,   \* RunQueue.need_resched
  cpu,            \* the context the processor executes
  halted,         \* contexts that are in the hlt loop of exit_current
  phase           \* how far _start is; interrupts are on exactly in "up"

vars == <<tasks, current, next_id, need_resched, cpu, halted, phase>>

TaskState == {"Ready", "Running", "Dead"}
Phase     == {"reset", "booting", "up", "hung"}
NoTask    == 0
BootCtx   == -1      \* _start itself
IdleCtx   == 0
ReaperCtx == 1
Task      == [id : Nat, state : TaskState, time_slice : Nat, trap : Int]

NewTask(id) ==
  [id |-> id, state |-> "Ready", time_slice |-> DEFAULT_SLICE, trap |-> id]

\* RQ is created empty, with need_resched set, by its first user.
Init ==
  /\ tasks = <<>> /\ current = NoTask /\ next_id = 0 /\ need_resched = TRUE
  /\ cpu = BootCtx /\ halted = {} /\ phase = "reset"

-----------------------------------------------------------------------------
(* Operations on the run queue *)

IsReady(ts, i) == ts[i].state = "Ready"

\* The index d places after the current one, cyclically (1 <= d < n).
After(d, n) == IF current + d <= n THEN current + d ELSE current + d - n

FirstReady(ts) ==
  CHOOSE i \in DOMAIN ts :
    IsReady(ts, i) /\ \A j \in DOMAIN ts : IsReady(ts, j) => i <= j

\* Mutant: the scan goes backwards from the current entry.
NextReady_backwards(ts) ==
  LET n == Len(ts)
      D == {d \in 1 .. (n - 1) : IsReady(ts, After(d, n))}
  IN  After(CHOOSE d \in D : \A e \in D : d >= e, n)

NextReady(ts) ==
  LET n == Len(ts)
      D == {d \in 1 .. (n - 1) : IsReady(ts, After(d, n))}
  IN  After(CHOOSE d \in D : \A e \in D : d <= e, n)

\* Mutant: the scan always starts at the front of the table.
pick_next_front(ts) ==
  IF \E i \in DOMAIN ts : IsReady(ts, i) THEN FirstReady(ts) ELSE NoTask

\* With a current task, the next ready one after it; else the first ready one.
\* The fallback to entry 0 selects a task only if that is the current one.
pick_next(ts) ==
  IF current = NoTask
  THEN IF \E i \in DOMAIN ts : IsReady(ts, i) THEN FirstReady(ts) ELSE NoTask
  ELSE IF \E i \in DOMAIN ts \ {current} : IsReady(ts, i) THEN NextReady(ts)
  ELSE IF ts # <<>> /\ IsReady(ts, 1) THEN 1 ELSE NoTask

\* Mutant: the index of the current task is not shifted.
spawn_kthread_noshift ==
  /\ tasks' = <<NewTask(next_id)>> \o tasks
  /\ next_id' = next_id + 1
  /\ UNCHANGED <<current, need_resched>>

spawn_kthread ==
  /\ tasks' = <<NewTask(next_id)>> \o tasks
  /\ next_id' = next_id + 1
  /\ current' = IF current = NoTask THEN NoTask ELSE current + 1
  /\ UNCHANGED need_resched

\* Mutant: a killed task has no quantum left.
Killed_spent(t) ==
  [id |-> t.id, state |-> "Dead", trap |-> t.trap, time_slice |-> 0]

Killed(t) ==
  [id |-> t.id, state |-> "Dead", trap |-> t.trap,
   time_slice |-> 2 * DEFAULT_SLICE]

kill_current ==
  /\ tasks' = IF current = NoTask THEN tasks
              ELSE [tasks EXCEPT ![current] = Killed(@)]
  /\ UNCHANGED <<current, next_id, need_resched>>

\* A tick of a quantum of s: an idle or a used-up one is left alone, and a new
\* one follows the last tick.
Spend(s) ==
  IF s \in {0, U32_MAX} THEN s ELSE IF s = 1 THEN DEFAULT_SLICE ELSE s - 1

\* The table once tick has charged the current task.
Charged ==
  IF current = NoTask THEN tasks
  ELSE [tasks EXCEPT ![current].time_slice = Spend(@)]

\* The quantum was used up by this tick, or there is nothing to run yet.
Resched ==
  current # NoTask => need_resched \/ tasks[current].time_slice = 1

\* The idle task gives way at once; idle is the task with a U32_MAX slice.
Extra ==
  current # NoTask =>
    /\ Charged[current].time_slice = U32_MAX
    /\ \E i \in DOMAIN tasks \ {current} : IsReady(tasks, i)

Switches == (Resched \/ Extra) /\ pick_next(Charged) # NoTask

\* Mutant: a Dead task stays Dead, so that the reaper finds it.
Preempted_dead(t) ==
  [id |-> t.id, state |-> IF t.state = "Dead" THEN "Dead" ELSE "Ready",
   trap |-> cpu,
   time_slice |-> IF t.time_slice = U32_MAX THEN U32_MAX ELSE DEFAULT_SLICE]

\* The outgoing task becomes Ready, whatever its state was, and gets the frame
\* of the interrupted context.
Preempted(t) ==
  [id |-> t.id, state |-> "Ready", trap |-> cpu,
   time_slice |-> IF t.time_slice = U32_MAX THEN U32_MAX ELSE DEFAULT_SLICE]

SaveCurrent(ts) ==
  IF current = NoTask THEN ts ELSE [ts EXCEPT ![current] = Preempted(@)]

\* One scan of the reaper: a Dead task is counted down, and one that is at 0
\* is to be removed.  The search for a task's entry stops at the first entry
\* that is NOT that task's, and that entry is removed.
Expired(t) == t.state = "Dead" /\ t.time_slice = 0

CountedDown(ts) ==
  [i \in DOMAIN ts |->
     IF ts[i].state = "Dead" /\ ts[i].time_slice > 0
     THEN [ts[i] EXCEPT !.time_slice = @ - 1] ELSE ts[i]]

Others(ts, id) == {i \in DOMAIN ts : ts[i].id # id}

RemoveFor(ts, id) ==
  IF Others(ts, id) = {} THEN ts
  ELSE RemoveAt(ts, CHOOSE i \in Others(ts, id) :
                      \A j \in Others(ts, id) : i <= j)

RemoveExpired(ts) ==
  FoldLeft(LAMBDA acc, t : RemoveFor(acc, t.id),
           CountedDown(ts), Reverse(SelectSeq(ts, Expired)))

Reaped(ts) ==
  IF \E i \in DOMAIN ts : Expired(ts[i]) THEN RemoveExpired(ts)
  ELSE CountedDown(ts)

-----------------------------------------------------------------------------
(* Steps *)

\* sched::init: the idle task, then spawn of the reaper.
init ==
  /\ phase = "reset" /\ phase' = "booting"
  /\ tasks' = <<NewTask(ReaperCtx), NewTask(IdleCtx)>>
  /\ next_id' = 2
  /\ UNCHANGED <<current, need_resched, cpu, halted>>

\* The rest of _start: spawn the main thread, enable interrupts, hlt.
start ==
  /\ phase = "booting" /\ phase' = "up"
  /\ spawn_kthread
  /\ UNCHANGED <<cpu, halted>>

tick_stay ==
  /\ phase = "up" /\ ~Switches
  /\ tasks' = Charged
  /\ need_resched' = Resched
  /\ UNCHANGED <<current, next_id, cpu, halted, phase>>

tick_switch ==
  LET next == pick_next(Charged)
      saved == SaveCurrent(Charged)
  IN  /\ phase = "up" /\ Switches
      /\ tasks' = [saved EXCEPT ![next].state = "Running"]
      /\ current' = next
      /\ cpu' = saved[next].trap
      /\ need_resched' = FALSE
      /\ UNCHANGED <<next_id, halted, phase>>

tick == tick_stay \/ tick_switch

\* A thread body: any context but _start, idle and reaper, until it exits.
InBody == phase = "up" /\ cpu > ReaperCtx /\ cpu \notin halted

spawn ==
  /\ InBody /\ next_id < MAX_TASKS
  /\ spawn_kthread
  /\ UNCHANGED <<cpu, halted, phase>>

\* thread_main: the body returns, exit_current kills the task and halts.
exit_current ==
  /\ InBody
  /\ kill_current
  /\ halted' = halted \cup {cpu}
  /\ UNCHANGED <<cpu, phase>>

reap ==
  /\ phase = "up" /\ cpu = ReaperCtx
  /\ tasks' = Reaped(tasks)
  /\ UNCHANGED <<current, next_id, need_resched, cpu, halted, phase>>

\* An exception handler calls exit_current.  It runs behind an interrupt gate,
\* so its hlt loop is entered with interrupts off and nothing wakes it.
fault ==
  /\ phase = "up" /\ phase' = "hung"
  /\ kill_current
  /\ UNCHANGED <<cpu, halted>>

Next == init \/ start \/ tick \/ spawn \/ exit_current \/ reap \/ fault

Spec == Init /\ [][Next]_vars

\* The LAPIC timer is periodic and interrupts stay enabled: ticks keep coming.
\* _start runs to its end.
Fairness == WF_vars(init) /\ WF_vars(start) /\ WF_vars(tick)
FairSpec == Spec /\ Fairness

-----------------------------------------------------------------------------
(* Properties *)

Ids(ts) == {ts[i].id : i \in DOMAIN ts}
Waiting == DOMAIN tasks \ {current}

\* Every variable has its type; current names an entry of the table.
TypeOK ==
  /\ tasks \in Seq(Task)
  /\ current \in 0 .. Len(tasks)
  /\ next_id \in Nat
  /\ need_resched \in BOOLEAN
  /\ cpu \in Int
  /\ halted \subseteq Nat
  /\ phase \in Phase

\* The processor executes the context of the current task, and the frame saved
\* in any other task resumes that task: tick (mod.rs 294-308) never hands one
\* task's context to another, although spawn_kthread moves every index.
ContextOwnership ==
  /\ current # NoTask => cpu = tasks[current].id
  /\ \A i \in Waiting : tasks[i].trap = tasks[i].id
  /\ \A i, j \in DOMAIN tasks : tasks[i].id = tasks[j].id => i = j

\* Only the current task can be Running or Dead; every other task is Ready, so
\* pick_next (57-86) finds a task whenever there are two, and a request to
\* reschedule never outlives the tick that raised it.
OnlyCurrentNotReady ==
  /\ \A i \in Waiting : tasks[i].state = "Ready"
  /\ current # NoTask => tasks[current].state # "Ready"
  /\ need_resched => current = NoTask

\* A waiting task has a whole quantum, and the current task has a nonzero one,
\* so that each tick brings its end nearer: tick (254) ignores a zero slice.
QuantumLeft ==
  /\ \A i \in Waiting : tasks[i].time_slice = DEFAULT_SLICE
  /\ current # NoTask => tasks[current].time_slice \in
       1 .. (IF tasks[current].state = "Dead" THEN 2 * DEFAULT_SLICE
             ELSE DEFAULT_SLICE)

\* What the three invariants above rest on: ids are handed out in order, a Dead
\* task is one whose context halts in exit_current, idle and reaper never do,
\* and while interrupts are off at boot no task has been dispatched.
SchedInv ==
  /\ ContextOwnership /\ OnlyCurrentNotReady /\ QuantumLeft
  /\ \A i \in DOMAIN tasks : tasks[i].id < next_id
  /\ current # NoTask /\ tasks[current].state = "Dead" =>
       cpu \in halted \/ phase = "hung"
  /\ \A c \in halted : c > ReaperCtx
  /\ phase \in {"reset", "booting"} => current = NoTask
  /\ phase = "booting" => next_id = 2
  /\ current = NoTask => cpu = BootCtx
  /\ phase = "reset" => tasks = <<>>
  /\ phase # "reset" => Len(tasks) >= 2

KeepsLiveTasks ==
  /\ \A i \in DOMAIN tasks :
       tasks[i].state # "Dead" => tasks[i].id \in Ids(tasks')
  /\ current # NoTask /\ cpu' = cpu =>
       current' # NoTask /\ tasks'[current'].id = tasks[current].id

\* A task that is not Dead stays in the table: the reaper (156-175) never
\* drops a live task, and the index current keeps naming the same task in
\* every step but a switch.
LiveTasksStay == [][KeepsLiveTasks]_vars

\* Every task that was created gets the processor again and again, unless an
\* exception handler has stopped the machine.
EveryTaskRuns ==
  \A id \in 0 .. (MAX_TASKS - 1) :
    (id < next_id) ~> (cpu = id \/ phase = "hung")

\* A context that has called exit_current does not keep the processor.
ExitYields ==
  (cpu \in halted) ~> (cpu \notin halted \/ phase = "hung")

-----------------------------------------------------------------------------
(* The scheduler implements RoundRobin.  The line is the table read from the *)
(* entry after the current one, around to the entry before it.               *)

Line ==
  [k \in 1 .. (IF current = NoTask THEN Len(tasks) ELSE Len(tasks) - 1) |->
     tasks[After(k, Len(tasks))].id]

Ring == INSTANCE RoundRobin WITH
  TaskIds <- 0 .. (MAX_TASKS - 1),
  NoOne   <- BootCtx,
  running <- IF current = NoTask THEN BootCtx ELSE tasks[current].id,
  line    <- Line,
  stopped <- phase = "hung"

\* tick, spawn and the reaper keep the order of the waiting tasks: pick_next
\* takes the head of the line, and spawn_kthread, which inserts at index 0 and
\* shifts current, only adds to it.
ImplementsRing == Ring!Spec

\* The same with the promise that the head of the line is served.
ImplementsFairRing == Ring!FairSpec
=============================================================================
