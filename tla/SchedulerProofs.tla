--------------------------- MODULE SchedulerProofs ---------------------------
(***************************************************************************)
(* TLAPS proofs about Scheduler, for every quantum and every number of     *)
(* tasks.                                                                  *)
(***************************************************************************)
EXTENDS Scheduler, TLAPS

USE SchedConstants, ZenonT(60)

IInv == TypeOK /\ SchedInv

\* Replacing the quantum of a task leaves a task.
LEMMA SliceUpdate ==
  ASSUME NEW t \in Task, NEW s \in Nat
  PROVE  LET u == [t EXCEPT !.time_slice = s]
         IN  /\ u \in Task /\ u.id = t.id /\ u.state = t.state
             /\ u.trap = t.trap /\ u.time_slice = s
BY DEF Task

\* Charging the current task changes no entry but its time_slice.
LEMMA ChargedShape ==
  ASSUME IInv
  PROVE  /\ Charged \in Seq(Task)
         /\ Len(Charged) = Len(tasks) /\ DOMAIN Charged = DOMAIN tasks
         /\ \A i \in DOMAIN tasks :
              /\ Charged[i].id = tasks[i].id
              /\ Charged[i].state = tasks[i].state
              /\ Charged[i].trap = tasks[i].trap
              /\ i # current => Charged[i] = tasks[i]
         /\ current # NoTask =>
              /\ Charged[current].time_slice = Spend(tasks[current].time_slice)
              /\ Charged[current].time_slice \in 1 .. (2 * DEFAULT_SLICE)
              /\ tasks[current].time_slice \in 1 .. DEFAULT_SLICE
                   => Charged[current].time_slice \in 1 .. DEFAULT_SLICE
<1> USE DEF IInv, TypeOK
<1>1. CASE current = NoTask
  BY <1>1 DEF Charged, NoTask
<1>2. CASE current # NoTask
  <2>1. current \in 1 .. Len(tasks) /\ tasks[current] \in Task
    BY <1>2, SMTT(60) DEF NoTask
  <2>2. tasks[current].time_slice \in 1 .. (2 * DEFAULT_SLICE)
    BY <1>2, <2>1, SMTT(60) DEF SchedInv, QuantumLeft
  <2> DEFINE s == Spend(tasks[current].time_slice)
             t == [tasks[current] EXCEPT !.time_slice = s]
  <2>3. /\ s \in 1 .. (2 * DEFAULT_SLICE)
        /\ tasks[current].time_slice \in 1 .. DEFAULT_SLICE => s \in 1 .. DEFAULT_SLICE
    BY <2>2, SMTT(60) DEF Spend
  <2>4. Charged = [tasks EXCEPT ![current] = t]
    BY <1>2, <2>1 DEF Charged
  <2> HIDE DEF s
  <2>5. t \in Task /\ t.id = tasks[current].id /\ t.state = tasks[current].state
        /\ t.trap = tasks[current].trap /\ t.time_slice = s
    <3>1. s \in Nat  BY <2>3, SMTT(60)
    <3> QED  BY <2>1, <3>1, SliceUpdate
  <2> HIDE DEF t
  <2>6. Charged \in Seq(Task) /\ Len(Charged) = Len(tasks) /\ DOMAIN Charged = DOMAIN tasks
    BY <2>1, <2>4, <2>5, SMTT(60)
  <2>7. Charged[current] = t /\ \A i \in DOMAIN tasks : i # current => Charged[i] = tasks[i]
    BY <2>1, <2>4, SMTT(60)
  <2> QED
    BY <2>3, <2>5, <2>6, <2>7 DEF s
<1> QED  BY <1>1, <1>2

\* Every task but the current one is Ready, so the scan of pick_next ends at its
\* first step: at the entry after the current one, or at the first entry.
LEMMA PickNext ==
  ASSUME IInv, Len(tasks) >= 2
  PROVE  /\ current = NoTask => pick_next(Charged) = 1
         /\ current # NoTask => pick_next(Charged) = After(1, Len(tasks))
<1> DEFINE n == Len(tasks)
<1>1. n \in Nat /\ n >= 2 /\ DOMAIN tasks = 1 .. n /\ current \in 0 .. n
  BY SMTT(60) DEF IInv, TypeOK
<1>2. \A i \in 1 .. n : i # current => IsReady(Charged, i)
  BY <1>1, ChargedShape DEF IInv, SchedInv, OnlyCurrentNotReady, Waiting, IsReady
<1>3. DOMAIN Charged = 1 .. n /\ Len(Charged) = n
  BY <1>1, ChargedShape
<1> HIDE DEF n
<1>4. ASSUME current = NoTask PROVE pick_next(Charged) = 1
  <2>1. \A i \in 1 .. n : IsReady(Charged, i)
    BY <1>2, <1>4, SMTT(60) DEF NoTask
  <2>2. FirstReady(Charged) = 1
    BY <1>1, <1>3, <2>1, SMTT(60) DEF FirstReady
  <2> QED
    BY <1>1, <1>3, <1>4, <2>1, <2>2, SMTT(60) DEF pick_next
<1>5. ASSUME current # NoTask PROVE pick_next(Charged) = After(1, n)
  <2>1. current \in 1 .. n
    BY <1>1, <1>5, SMTT(60) DEF NoTask
  <2>2. \A d \in 1 .. (n - 1) : After(d, n) \in (1 .. n) \ {current}
    BY <1>1, <2>1, SMTT(60) DEF After
  <2>3. \A d \in 1 .. (n - 1) : IsReady(Charged, After(d, n))
    BY <1>2, <2>2
  <2> DEFINE D == {d \in 1 .. (n - 1) : IsReady(Charged, After(d, n))}
  <2>4. D = 1 .. (n - 1)
    BY <2>3
  <2>5. (CHOOSE d \in D : \A e \in D : d <= e) = 1
    <3>1. 1 \in 1 .. (n - 1) /\ \A e \in 1 .. (n - 1) : 1 <= e
      BY <1>1, SMTT(60)
    <3> HIDE DEF D
    <3> QED  BY <1>1, <2>4, <3>1, SMTT(60)
  <2>6. NextReady(Charged) = After(1, n)
    BY <1>3, <2>5 DEF NextReady
  <2>7. \E i \in DOMAIN Charged \ {current} : IsReady(Charged, i)
    BY <1>1, <1>3, <2>2, <2>3, SMTT(60)
  <2> QED
    BY <1>5, <2>6, <2>7 DEF pick_next
<1> QED  BY <1>4, <1>5 DEF n

\* The entry that gets the processor is another one than the current one.
LEMMA Picked ==
  ASSUME IInv, Len(tasks) >= 2
  PROVE  /\ pick_next(Charged) \in DOMAIN tasks
         /\ pick_next(Charged) # current
         /\ pick_next(Charged) # NoTask
BY PickNext, SMTT(60) DEF IInv, TypeOK, After, NoTask

\* spawn_kthread puts a new task in front and moves every other entry by one.
LEMMA SpawnShape ==
  ASSUME IInv, spawn_kthread
  PROVE  /\ tasks' \in Seq(Task) /\ Len(tasks') = Len(tasks) + 1
         /\ tasks'[1] = NewTask(next_id)
         /\ \A i \in 1 .. Len(tasks) : tasks'[i + 1] = tasks[i]
         /\ next_id' = next_id + 1
<1>1. NewTask(next_id) \in Task
  BY SMTT(60) DEF NewTask, Task, TaskState, IInv, TypeOK
<1> QED
  BY <1>1, SMTT(60) DEF spawn_kthread, IInv, TypeOK

\* The outgoing task of a switch.
LEMMA PreemptedTask ==
  ASSUME NEW t \in Task, t.time_slice # U32_MAX
  PROVE  Preempted(t) = [id |-> t.id, state |-> "Ready",
                         time_slice |-> DEFAULT_SLICE, trap |-> cpu]
BY DEF Preempted, Task

\* A switch changes two entries: the outgoing task waits with a new quantum
\* and the interrupted context, the incoming one is Running.
LEMMA SwitchShape ==
  ASSUME IInv, tick_switch, Len(tasks) >= 2
  PROVE  /\ tasks' \in Seq(Task) /\ Len(tasks') = Len(tasks)
         /\ current' \in DOMAIN tasks /\ current' # current
         /\ current' = pick_next(Charged)
         /\ tasks'[current'] = [tasks[current'] EXCEPT !.state = "Running"]
         /\ current # NoTask =>
              tasks'[current] = [id |-> tasks[current].id, state |-> "Ready",
                                 time_slice |-> DEFAULT_SLICE, trap |-> cpu]
         /\ \A i \in DOMAIN tasks \ {current, current'} : tasks'[i] = tasks[i]
         /\ cpu' = tasks[current'].trap
<1> DEFINE p == pick_next(Charged)
           saved == SaveCurrent(Charged)
           out == [id |-> tasks[current].id, state |-> "Ready",
                   time_slice |-> DEFAULT_SLICE, trap |-> cpu]
<1>1. p \in DOMAIN tasks /\ p # current
  BY Picked
<1>2. current' = p /\ cpu' = saved[p].trap
      /\ tasks' = [saved EXCEPT ![p].state = "Running"]
  BY DEF tick_switch
<1> HIDE DEF p
<1>3. /\ saved \in Seq(Task) /\ Len(saved) = Len(tasks)
      /\ \A i \in DOMAIN tasks \ {current} : saved[i] = tasks[i]
      /\ current # NoTask => saved[current] = out
  <2>1. CASE current = NoTask
    BY <2>1, ChargedShape DEF SaveCurrent
  <2>2. CASE current # NoTask
    <3>1. current \in DOMAIN tasks /\ tasks[current] \in Task
      BY <2>2, SMTT(60) DEF NoTask, IInv, TypeOK
    <3>2. Charged[current].time_slice \in 1 .. (2 * DEFAULT_SLICE)
      BY <2>2, ChargedShape
    <3>3. Charged[current].time_slice # U32_MAX
      BY <3>2, SMTT(60)
    <3>4. Charged[current] \in Task /\ Charged[current].id = tasks[current].id
      BY <3>1, ChargedShape, SMTT(60)
    <3>5. saved = [Charged EXCEPT ![current] = out]
      <4>1. Preempted(Charged[current]) = out
        BY <3>3, <3>4, PreemptedTask
      <4> QED
        BY <2>2, <4>1 DEF SaveCurrent
    <3>6. out \in Task
      BY <3>1 DEF Task, TaskState, IInv, TypeOK
    <3> HIDE DEF out, saved
    <3> QED
      BY <3>1, <3>5, <3>6, ChargedShape, SMTT(60)
  <2> QED  BY <2>1, <2>2
<1>4. tasks[p] \in Task
  BY <1>1, SMTT(60) DEF IInv, TypeOK
<1> DEFINE in == [tasks[p] EXCEPT !.state = "Running"]
<1>5. in \in Task /\ saved[p] = tasks[p]
  BY <1>1, <1>3, <1>4 DEF Task, TaskState
<1> HIDE DEF saved, out
<1>6. tasks' = [saved EXCEPT ![p] = in]
  BY <1>1, <1>2, <1>5
<1> HIDE DEF in
<1>7. tasks' \in Seq(Task) /\ Len(tasks') = Len(tasks) /\ tasks'[p] = in
      /\ \A i \in DOMAIN tasks \ {p} : tasks'[i] = saved[i]
  BY <1>1, <1>3, <1>5, <1>6, SMTT(60) DEF IInv, TypeOK
<1>8. current # NoTask => current \in DOMAIN tasks
  BY SMTT(60) DEF IInv, TypeOK, NoTask
<1> QED
  BY <1>1, <1>2, <1>3, <1>5, <1>7, <1>8 DEF in, out, p

\* kill_current changes the current entry only.
LEMMA KillShape ==
  ASSUME IInv, kill_current
  PROVE  /\ tasks' \in Seq(Task) /\ Len(tasks') = Len(tasks)
         /\ current' = current
         /\ current # NoTask => tasks'[current] = Killed(tasks[current])
         /\ \A i \in DOMAIN tasks \ {current} : tasks'[i] = tasks[i]
<1>1. CASE current = NoTask
  BY <1>1 DEF kill_current, IInv, TypeOK
<1>2. CASE current # NoTask
  <2>1. current \in DOMAIN tasks /\ tasks[current] \in Task
    BY <1>2, SMTT(60) DEF IInv, TypeOK, NoTask
  <2>2. Killed(tasks[current]) \in Task
    BY <2>1, SMTT(60) DEF Killed, Task, TaskState
  <2> QED
    BY <1>2, <2>1, <2>2, SMTT(60) DEF kill_current, IInv, TypeOK
<1> QED  BY <1>1, <1>2

\* No task is Dead while the reaper runs: it is itself the current task, and
\* the current task is the only one that could be.  Its scan changes nothing.
LEMMA ReapIdle ==
  ASSUME IInv, reap
  PROVE  tasks' = tasks
<1>1. \A i \in DOMAIN tasks : tasks[i].state # "Dead"
  <2>1. cpu = ReaperCtx /\ phase = "up" /\ ReaperCtx \notin halted
    BY SMTT(60) DEF reap, IInv, SchedInv, ReaperCtx
  <2> QED
    BY <2>1, SMTT(60) DEF IInv, SchedInv, OnlyCurrentNotReady, Waiting, ReaperCtx, BootCtx, TypeOK
<1>2. Reaped(tasks) = CountedDown(tasks)
  BY <1>1 DEF Reaped, Expired
<1>3. CountedDown(tasks) = tasks
  BY <1>1, SMTT(60) DEF CountedDown, IInv, TypeOK
<1> QED
  BY <1>2, <1>3 DEF reap

\* What the three invariants say of a waiting task, and of the current one.
Rested(t) == t.trap = t.id /\ t.state = "Ready" /\ t.time_slice = DEFAULT_SLICE

Active(t, c) ==
  /\ c = t.id /\ t.state # "Ready"
  /\ t.time_slice \in 1 .. (IF t.state = "Dead" THEN 2 * DEFAULT_SLICE
                             ELSE DEFAULT_SLICE)

\* The three invariants, task by task.
LEMMA InvByTask ==
  ContextOwnership /\ OnlyCurrentNotReady /\ QuantumLeft <=>
    /\ \A i \in Waiting : Rested(tasks[i])
    /\ current # NoTask => Active(tasks[current], cpu)
    /\ \A i, j \in DOMAIN tasks : tasks[i].id = tasks[j].id => i = j
    /\ need_resched => current = NoTask
BY DEF ContextOwnership, OnlyCurrentNotReady, QuantumLeft, Rested, Active

\* The queue _start finds is empty, and no task has the processor.
LEMMA InitInv == Init => IInv
BY SMTT(60) DEF Init, IInv, TypeOK, SchedInv, ContextOwnership, OnlyCurrentNotReady,
       QuantumLeft, Waiting, Phase, NoTask, BootCtx, ReaperCtx

\* A spawn, by a thread or by _start, keeps the invariant.
LEMMA SpawnInv ==
  ASSUME IInv, spawn_kthread, cpu' = cpu, halted' = halted,
         \/ phase = "up" /\ phase' = "up"
         \/ phase = "booting" /\ phase' = "up"
  PROVE  IInv'
<1> DEFINE n == Len(tasks)
<1>1. n \in Nat /\ n >= 2 /\ DOMAIN tasks = 1 .. n /\ current \in 0 .. n
      /\ tasks \in Seq(Task)
  BY SMTT(60) DEF IInv, TypeOK, SchedInv
<1>2. DOMAIN tasks' = 1 .. (n + 1)
  BY <1>1, SpawnShape, SMTT(60)
<1>3. current' \in 0 .. (n + 1) /\ (current' = NoTask <=> current = NoTask)
      /\ (current # NoTask => current' = current + 1)
      /\ need_resched' = need_resched
  BY <1>1, SMTT(60) DEF spawn_kthread, NoTask
<1>4. tasks'[1] = NewTask(next_id) /\ next_id' = next_id + 1
  BY SpawnShape
<1>5. \A i \in 2 .. (n + 1) : i - 1 \in 1 .. n /\ tasks'[i] = tasks[i - 1]
  <2> TAKE i \in 2 .. (n + 1)
  <2>1. i - 1 \in 1 .. n /\ (i - 1) + 1 = i
    BY <1>1, SMTT(60)
  <2> QED  BY <2>1, SpawnShape
<1>6. \A i \in 1 .. (n + 1) : i = 1 \/ i \in 2 .. (n + 1)
  BY <1>1, SMTT(60)
<1>7. TypeOK'
  BY <1>1, <1>3, <1>4, SpawnShape, SMTT(60) DEF IInv, TypeOK, Phase
<1> HIDE DEF n
<1>8. \A i \in 1 .. n : tasks[i].id < next_id /\ tasks[i].id # next_id
  <2> TAKE i \in 1 .. n
  <2>1. tasks[i] \in Task
    BY <1>1, SMTT(60)
  <2>2. tasks[i].id \in Nat /\ next_id \in Nat
    BY <2>1 DEF Task, IInv, TypeOK
  <2>3. tasks[i].id < next_id
    BY <1>1 DEF IInv, SchedInv
  <2> QED  BY <2>2, <2>3, SMTT(60)
<1>9. current # NoTask => current \in 1 .. n /\ tasks'[current'] = tasks[current]
  <2> SUFFICES ASSUME current # NoTask
               PROVE  current \in 1 .. n /\ tasks'[current'] = tasks[current]
    OBVIOUS
  <2>1. current \in 1 .. n
    BY <1>1, SMTT(60) DEF NoTask
  <2>2. current' = current + 1
    BY <1>3
  <2> QED  BY <2>1, <2>2, SpawnShape DEF n
<1>10. \A i \in DOMAIN tasks' \ {current'} : Rested(tasks'[i])
  <2> SUFFICES ASSUME NEW i \in 1 .. (n + 1), i # current'
               PROVE  Rested(tasks'[i])
    BY <1>2
  <2>1. CASE i = 1
    BY <2>1, <1>4, SMTT(60) DEF Rested, NewTask
  <2>2. CASE i \in 2 .. (n + 1)
    <3>1. i - 1 \in 1 .. n /\ tasks'[i] = tasks[i - 1]
      BY <2>2, <1>5
    <3>2. i - 1 # current
      BY <1>1, <1>3, <2>2, <3>1, SMTT(60) DEF NoTask
    <3>3. Rested(tasks[i - 1])
      BY <1>1, <3>1, <3>2, InvByTask DEF IInv, SchedInv, Waiting
    <3> QED  BY <3>1, <3>3
  <2> QED  BY <1>6, <2>1, <2>2
<1>11. current' # NoTask => Active(tasks'[current'], cpu')
  <2>1. current # NoTask => Active(tasks[current], cpu)
    BY InvByTask DEF IInv, SchedInv
  <2> QED  BY <1>3, <1>9, <2>1 DEF Active
<1>12. \A i, j \in DOMAIN tasks' : tasks'[i].id = tasks'[j].id => i = j
  <2> SUFFICES ASSUME NEW i \in 1 .. (n + 1), NEW j \in 1 .. (n + 1),
                      tasks'[i].id = tasks'[j].id
               PROVE  i = j
    BY <1>2
  <2>0. NewTask(next_id).id = next_id
    BY DEF NewTask
  <2>1. CASE i = 1 /\ j = 1
    BY <2>1
  <2>2. CASE i = 1 /\ j \in 2 .. (n + 1)
    BY <2>0, <2>2, <1>4, <1>5, <1>8
  <2>3. CASE j = 1 /\ i \in 2 .. (n + 1)
    BY <2>0, <2>3, <1>4, <1>5, <1>8
  <2>4. CASE i \in 2 .. (n + 1) /\ j \in 2 .. (n + 1)
    <3>1. \A k, l \in 1 .. n : tasks[k].id = tasks[l].id => k = l
      BY <1>1 DEF IInv, SchedInv, ContextOwnership
    <3>2. i - 1 = j - 1
      BY <2>4, <1>5, <3>1, SMTT(60)
    <3> QED  BY <2>4, <3>2, SMTT(60)
  <2> QED  BY <1>6, <2>1, <2>2, <2>3, <2>4
<1>13. \A i \in DOMAIN tasks' : tasks'[i].id < next_id'
  <2> SUFFICES ASSUME NEW i \in 1 .. (n + 1)
               PROVE  tasks'[i].id < next_id + 1
    BY <1>2, <1>4
  <2>1. tasks'[i].id = next_id \/ \E k \in 1 .. n : tasks'[i].id = tasks[k].id
    BY <1>4, <1>5, <1>6, SMTT(60) DEF NewTask
  <2>2. next_id \in Nat /\ \A k \in 1 .. n : tasks[k] \in Task
    BY <1>1, SMTT(60) DEF IInv, TypeOK
  <2>3. \A k \in 1 .. n : tasks[k].id \in Nat
    BY <2>2 DEF Task
  <2> QED  BY <1>8, <2>1, <2>2, <2>3, SMTT(60)
<1>14. Len(tasks') >= 2
  BY <1>1, SpawnShape, SMTT(60) DEF n
<1>15. need_resched' => current' = NoTask
  BY <1>3 DEF IInv, SchedInv, OnlyCurrentNotReady
<1>16. (ContextOwnership /\ OnlyCurrentNotReady /\ QuantumLeft)'
  BY <1>10, <1>11, <1>12, <1>15 DEF ContextOwnership, OnlyCurrentNotReady,
     QuantumLeft, Waiting, Rested, Active
<1> QED
  BY <1>3, <1>7, <1>9, <1>13, <1>14, <1>16 DEF IInv, SchedInv

\* sched::init leaves the idle task and the reaper, both waiting.
LEMMA BootInv ==
  ASSUME IInv, init
  PROVE  IInv'
<1> DEFINE r == NewTask(1)
           d == NewTask(0)
<1>1. r \in Task /\ d \in Task /\ r.id = 1 /\ d.id = 0 /\ Rested(r) /\ Rested(d)
  BY SMTT(60) DEF NewTask, Task, TaskState, Rested
<1>2. tasks' = <<r, d>> /\ current' = NoTask /\ cpu' = cpu /\ next_id' = 2
      /\ need_resched' \in BOOLEAN /\ halted' = halted /\ phase' = "booting"
      /\ cpu' = BootCtx
  BY DEF init, IInv, SchedInv, TypeOK, ReaperCtx, IdleCtx
<1> HIDE DEF r, d
<1>3. tasks' \in Seq(Task) /\ Len(tasks') = 2 /\ DOMAIN tasks' = 1 .. 2
      /\ tasks'[1] = r /\ tasks'[2] = d
  BY <1>1, <1>2, SMTT(60)
<1>4. TypeOK'
  BY <1>2, <1>3, SMTT(60) DEF IInv, TypeOK, NoTask, Phase
<1>5. \A i \in DOMAIN tasks' : Rested(tasks'[i]) /\ tasks'[i].id < next_id'
  BY <1>1, <1>2, <1>3, SMTT(60)
<1>6. \A i, j \in DOMAIN tasks' : tasks'[i].id = tasks'[j].id => i = j
  BY <1>1, <1>3, SMTT(60)
<1>7. (ContextOwnership /\ OnlyCurrentNotReady /\ QuantumLeft)'
  BY <1>2, <1>5, <1>6 DEF ContextOwnership, OnlyCurrentNotReady, QuantumLeft,
     Waiting, Rested
<1> QED
  BY <1>2, <1>3, <1>4, <1>5, <1>7, SMTT(60) DEF IInv, SchedInv

\* A step that keeps every entry's id keeps the ids distinct and below next_id.
LEMMA SameIds ==
  ASSUME IInv, Len(tasks') = Len(tasks), tasks' \in Seq(Task),
         next_id' = next_id,
         \A i \in DOMAIN tasks : tasks'[i].id = tasks[i].id
  PROVE  /\ DOMAIN tasks' = DOMAIN tasks
         /\ \A i, j \in DOMAIN tasks' : tasks'[i].id = tasks'[j].id => i = j
         /\ \A i \in DOMAIN tasks' : tasks'[i].id < next_id'
<1>1. DOMAIN tasks' = DOMAIN tasks
  BY SMTT(60) DEF IInv, TypeOK
<1> QED
  BY <1>1 DEF IInv, SchedInv, ContextOwnership

\* A tick that does not switch charges the current task, and it leaves no
\* request: with two tasks a tick that wants to switch does.
LEMMA StayInv ==
  ASSUME IInv, tick_stay
  PROVE  IInv'
<1>1. phase = "up" /\ Len(tasks) >= 2
  BY DEF tick_stay, IInv, SchedInv
<1>2. ~Resched
  BY <1>1, Picked DEF tick_stay, Switches
<1>3. current # NoTask /\ current \in DOMAIN tasks
  BY <1>2, SMTT(60) DEF Resched, IInv, TypeOK, NoTask
<1>4. /\ tasks' = Charged /\ current' = current /\ next_id' = next_id
      /\ cpu' = cpu /\ halted' = halted /\ phase' = phase /\ need_resched' = FALSE
  BY <1>2, SMTT(60) DEF tick_stay
<1>5. /\ DOMAIN tasks' = DOMAIN tasks
      /\ \A i, j \in DOMAIN tasks' : tasks'[i].id = tasks'[j].id => i = j
      /\ \A i \in DOMAIN tasks' : tasks'[i].id < next_id'
  BY <1>4, ChargedShape, SameIds
<1>6. TypeOK'
  BY <1>4, ChargedShape DEF IInv, TypeOK
<1>7. \A i \in DOMAIN tasks' \ {current'} : Rested(tasks'[i])
  BY <1>4, <1>5, ChargedShape, InvByTask DEF Waiting, IInv, SchedInv
<1>8. Active(tasks[current], cpu)
  BY <1>3, InvByTask DEF IInv, SchedInv
<1>9. tasks[current].state # "Dead" => tasks[current].time_slice \in 1 .. DEFAULT_SLICE
  BY <1>8 DEF Active
<1>10. Active(tasks'[current'], cpu')
  BY <1>3, <1>4, <1>8, <1>9, ChargedShape DEF Active
<1>11. (ContextOwnership /\ OnlyCurrentNotReady /\ QuantumLeft)'
  BY <1>4, <1>5, <1>7, <1>10 DEF ContextOwnership, OnlyCurrentNotReady,
     QuantumLeft, Waiting, Rested, Active
<1>12. tasks'[current'].state = tasks[current].state /\ Len(tasks') = Len(tasks)
  BY <1>3, <1>4, ChargedShape
<1> QED
  BY <1>1, <1>3, <1>4, <1>5, <1>6, <1>11, <1>12 DEF IInv, SchedInv

\* A task that is made Running keeps everything but its state.
LEMMA MadeRunning ==
  ASSUME NEW t \in Task
  PROVE  LET u == [t EXCEPT !.state = "Running"]
         IN  /\ u.id = t.id /\ u.state = "Running" /\ u.trap = t.trap
             /\ u.time_slice = t.time_slice
BY DEF Task

\* A switch: the outgoing task is saved whole, a rested one gets its own context.
LEMMA SwitchInv ==
  ASSUME IInv, tick_switch
  PROVE  IInv'
<1>1. phase = "up" /\ Len(tasks) >= 2
  BY DEF tick_switch, IInv, SchedInv
<1> DEFINE in == tasks[current']
           out == [id |-> tasks[current].id, state |-> "Ready",
                   time_slice |-> DEFAULT_SLICE, trap |-> cpu]
<1>2. /\ current' \in DOMAIN tasks /\ current' # current /\ current' # NoTask
      /\ tasks' \in Seq(Task) /\ Len(tasks') = Len(tasks)
  BY <1>1, SwitchShape, Picked
<1>3. /\ need_resched' = FALSE /\ next_id' = next_id /\ halted' = halted
      /\ phase' = phase
  BY DEF tick_switch
<1>4. in \in Task /\ Rested(in)
  BY <1>2, InvByTask, SMTT(60) DEF Waiting, IInv, SchedInv, TypeOK
<1>5. /\ tasks'[current'].id = in.id /\ tasks'[current'].state = "Running"
      /\ tasks'[current'].time_slice = DEFAULT_SLICE /\ cpu' = in.id
  <2>1. tasks'[current'] = [in EXCEPT !.state = "Running"] /\ cpu' = in.trap
    BY <1>1, SwitchShape
  <2> HIDE DEF in
  <2> QED  BY <1>4, <2>1, MadeRunning DEF Rested
<1>6. current # NoTask =>
        /\ current \in DOMAIN tasks /\ tasks'[current] = out
        /\ cpu = tasks[current].id
  BY <1>1, SwitchShape, SMTT(60) DEF IInv, TypeOK, NoTask, SchedInv, ContextOwnership
<1>7. current # NoTask => Rested(tasks'[current]) /\ tasks'[current].id = tasks[current].id
  BY <1>6, SMTT(60) DEF Rested
<1>8. \A i \in DOMAIN tasks \ {current, current'} : tasks'[i] = tasks[i] /\ Rested(tasks'[i])
  BY <1>1, SwitchShape, InvByTask DEF Waiting, IInv, SchedInv
<1> HIDE DEF in, out
<1>9. \A i \in DOMAIN tasks : i = current => current # NoTask
  BY SMTT(60) DEF IInv, TypeOK, NoTask
<1>10. \A i \in DOMAIN tasks : tasks'[i].id = tasks[i].id
  BY <1>5, <1>7, <1>8, <1>9 DEF in
<1>11. /\ DOMAIN tasks' = DOMAIN tasks
       /\ \A i, j \in DOMAIN tasks' : tasks'[i].id = tasks'[j].id => i = j
       /\ \A i \in DOMAIN tasks' : tasks'[i].id < next_id'
  BY <1>2, <1>3, <1>10, SameIds
<1>12. \A i \in DOMAIN tasks' \ {current'} : Rested(tasks'[i])
  BY <1>7, <1>8, <1>9, <1>11
<1>13. Active(tasks'[current'], cpu')
  BY <1>5, SMTT(60) DEF Active
<1>14. (ContextOwnership /\ OnlyCurrentNotReady /\ QuantumLeft)'
  BY <1>3, <1>11, <1>12, <1>13 DEF ContextOwnership, OnlyCurrentNotReady,
     QuantumLeft, Waiting, Rested, Active
<1>15. TypeOK'
  <2>1. in.id \in Int
    BY <1>4, SMTT(60) DEF Task
  <2>2. current' \in 0 .. Len(tasks')
    BY <1>2, SMTT(60) DEF IInv, TypeOK
  <2> QED  BY <1>2, <1>3, <1>5, <2>1, <2>2 DEF IInv, TypeOK
<1> QED
  BY <1>1, <1>2, <1>3, <1>5, <1>11, <1>14, <1>15 DEF IInv, SchedInv

\* exit_current, from a thread body or from an exception handler: the task is
\* Dead, and its context halts or the machine does.
LEMMA KillInv ==
  ASSUME IInv, kill_current, cpu' = cpu, phase \in {"up", "hung"},
         \/ phase' = phase /\ cpu > ReaperCtx /\ halted' = halted \cup {cpu}
         \/ phase' = "hung" /\ halted' = halted
  PROVE  IInv'
<1>1. /\ tasks' \in Seq(Task) /\ Len(tasks') = Len(tasks) /\ current' = current
      /\ current # NoTask => tasks'[current] = Killed(tasks[current])
      /\ \A i \in DOMAIN tasks \ {current} : tasks'[i] = tasks[i]
  BY KillShape
<1>2. next_id' = next_id /\ need_resched' = need_resched
  BY DEF kill_current
<1>3. current # NoTask => /\ tasks'[current].id = tasks[current].id
                          /\ tasks'[current].state = "Dead"
                          /\ tasks'[current].time_slice = 2 * DEFAULT_SLICE
  BY <1>1, SMTT(60) DEF Killed
<1>4. \A i \in DOMAIN tasks : tasks'[i].id = tasks[i].id
  BY <1>1, <1>3, SMTT(60) DEF IInv, TypeOK, NoTask
<1>5. /\ DOMAIN tasks' = DOMAIN tasks
      /\ \A i, j \in DOMAIN tasks' : tasks'[i].id = tasks'[j].id => i = j
      /\ \A i \in DOMAIN tasks' : tasks'[i].id < next_id'
  BY <1>1, <1>2, <1>4, SameIds
<1>6. \A i \in DOMAIN tasks' \ {current'} : Rested(tasks'[i])
  BY <1>1, <1>5, InvByTask DEF Waiting, IInv, SchedInv
<1>7. current' # NoTask => Active(tasks'[current'], cpu')
  BY <1>1, <1>3, SMTT(60) DEF Active, IInv, SchedInv, ContextOwnership
<1>8. (ContextOwnership /\ OnlyCurrentNotReady /\ QuantumLeft)'
  <2>1. need_resched' => current' = NoTask
    BY <1>1, <1>2 DEF IInv, SchedInv, OnlyCurrentNotReady
  <2> QED
    BY <1>5, <1>6, <1>7, <2>1 DEF ContextOwnership, OnlyCurrentNotReady,
       QuantumLeft, Waiting, Rested, Active
<1>9. TypeOK'
  <2>1. cpu > ReaperCtx => cpu \in Nat
    BY SMTT(60) DEF IInv, TypeOK, ReaperCtx
  <2>2. halted' \subseteq Nat
    BY <2>1 DEF IInv, TypeOK
  <2> QED  BY <1>1, <1>2, <2>2 DEF IInv, TypeOK, Phase
<1>10. \A c \in halted' : c > ReaperCtx
  BY DEF IInv, SchedInv
<1> QED
  BY <1>1, <1>5, <1>8, <1>9, <1>10 DEF IInv, SchedInv

\* Every step keeps the invariant.
LEMMA NextInv ==
  ASSUME IInv, [Next]_vars
  PROVE  IInv'
<1>1. CASE init  BY <1>1, BootInv
<1>2. CASE start
  BY <1>2, SpawnInv DEF start
<1>3. CASE tick
  BY <1>3, StayInv, SwitchInv DEF tick
<1>4. CASE spawn
  BY <1>4, SpawnInv DEF spawn, InBody
<1>5. CASE exit_current
  BY <1>5, KillInv DEF exit_current, InBody
<1>6. CASE reap
  <2>1. tasks' = tasks
    BY <1>6, ReapIdle
  <2> QED
    BY <1>6, <2>1 DEF reap, IInv, TypeOK, SchedInv, ContextOwnership,
       OnlyCurrentNotReady, QuantumLeft, Waiting
<1>7. CASE fault
  BY <1>7, KillInv DEF fault
<1>8. CASE UNCHANGED vars
  BY <1>8 DEF vars, IInv, TypeOK, SchedInv, ContextOwnership,
     OnlyCurrentNotReady, QuantumLeft, Waiting
<1> QED
  BY <1>1, <1>2, <1>3, <1>4, <1>5, <1>6, <1>7, <1>8 DEF Next

\* The run queue stays well formed whatever interleaving of ticks, spawns, exits
\* and exceptions the processor sees.
THEOREM SchedulerSafe == Spec => [](TypeOK /\ SchedInv)
<1>1. Init => IInv
  BY InitInv
<1>2. IInv /\ [Next]_vars => IInv'
  BY NextInv
<1> QED
  BY <1>1, <1>2, PTL DEF Spec, IInv

\* No task is ever resumed with the context of another (sched/mod.rs tick,
\* spawn_kthread), for every quantum and any number of tasks.
THEOREM ContextsKept == Spec => []ContextOwnership
<1>1. SchedInv => ContextOwnership
  BY DEF SchedInv
<1> QED  BY <1>1, SchedulerSafe, PTL

\* A step that keeps every entry's id and its current entry drops no task.
LEMMA SameIdsLive ==
  ASSUME IInv, Len(tasks') = Len(tasks), tasks' \in Seq(Task),
         \A i \in DOMAIN tasks : tasks'[i].id = tasks[i].id,
         current' = current
  PROVE  KeepsLiveTasks
<1>1. DOMAIN tasks' = DOMAIN tasks
  BY SMTT(60) DEF IInv, TypeOK
<1>2. current # NoTask => current \in DOMAIN tasks
  BY SMTT(60) DEF IInv, TypeOK, NoTask
<1> QED
  BY <1>1, <1>2 DEF KeepsLiveTasks, Ids

\* No step drops a task that is not Dead, or lets current slip to another one.
LEMMA StepLive ==
  ASSUME IInv, IInv', [Next]_vars
  PROVE  KeepsLiveTasks
<1>0. tasks \in Seq(Task) /\ tasks' \in Seq(Task) /\ current \in 0 .. Len(tasks)
  BY DEF IInv, TypeOK
<1>1. CASE init
  BY <1>1, SMTT(60) DEF init, IInv, SchedInv, KeepsLiveTasks
<1>2. CASE spawn_kthread
  <2>1. \A i \in 1 .. Len(tasks) : i + 1 \in DOMAIN tasks' /\ tasks'[i + 1] = tasks[i]
    BY <1>0, <1>2, SpawnShape, SMTT(60)
  <2>2. \A i \in DOMAIN tasks : tasks[i].id \in Ids(tasks')
    <3> TAKE i \in DOMAIN tasks
    <3>1. i \in 1 .. Len(tasks)
      BY <1>0, SMTT(60)
    <3> QED  BY <2>1, <3>1 DEF Ids
  <2>3. current # NoTask =>
          current' # NoTask /\ tasks'[current'] = tasks[current]
    BY <1>0, <1>2, <2>1, SMTT(60) DEF spawn_kthread, NoTask
  <2> QED  BY <2>2, <2>3 DEF KeepsLiveTasks
<1>3. CASE tick_stay
  BY <1>3, SameIdsLive, ChargedShape DEF tick_stay
<1>4. CASE tick_switch
  <2>1. Len(tasks) >= 2
    BY <1>4 DEF tick_switch, IInv, SchedInv
  <2>2. /\ current' \in DOMAIN tasks /\ current' # current
        /\ Len(tasks') = Len(tasks)
        /\ tasks'[current'] = [tasks[current'] EXCEPT !.state = "Running"]
        /\ cpu' = tasks[current'].trap
        /\ current # NoTask => tasks'[current].id = tasks[current].id
        /\ \A i \in DOMAIN tasks \ {current, current'} : tasks'[i] = tasks[i]
    BY <1>4, <2>1, SwitchShape, SMTT(60)
  <2>3. tasks'[current'].id = tasks[current'].id
    BY <1>0, <2>2, MadeRunning, SMTT(60)
  <2>4. DOMAIN tasks' = DOMAIN tasks
    BY <1>0, <2>2, SMTT(60)
  <2>5. \A i \in DOMAIN tasks : tasks'[i].id = tasks[i].id
    <3>1. \A i \in DOMAIN tasks : i = current => current # NoTask
      BY <1>0, SMTT(60) DEF NoTask
    <3> QED  BY <2>2, <2>3, <3>1
  <2>6. current # NoTask => cpu' # cpu
    BY <1>0, <2>2, SMTT(60) DEF IInv, SchedInv, ContextOwnership, Waiting, NoTask
  <2> QED  BY <2>4, <2>5, <2>6 DEF KeepsLiveTasks, Ids
<1>5. CASE kill_current
  <2>1. current # NoTask => tasks'[current].id = tasks[current].id
    BY <1>5, KillShape, SMTT(60) DEF Killed
  <2>2. \A i \in DOMAIN tasks : tasks'[i].id = tasks[i].id
    BY <1>0, <1>5, <2>1, KillShape, SMTT(60) DEF NoTask
  <2> QED  BY <1>5, <2>2, KillShape, SameIdsLive
<1>6. CASE reap
  BY <1>0, <1>6, ReapIdle, SameIdsLive DEF reap
<1>7. CASE UNCHANGED vars
  BY <1>0, <1>7, SameIdsLive DEF vars
<1> QED
  BY <1>1, <1>2, <1>3, <1>4, <1>5, <1>6, <1>7
  DEF Next, tick, start, spawn, exit_current, fault

\* The reaper never drops a live task, although its removal loop is wrong: no
\* task it can see is Dead.
THEOREM LiveTasksKept == Spec => LiveTasksStay
<1>1. IInv /\ IInv' /\ [Next]_vars => [KeepsLiveTasks]_vars
  BY StepLive
<1> QED
  BY <1>1, SchedulerSafe, PTL DEF Spec, IInv, LiveTasksStay

-----------------------------------------------------------------------------
(* Scheduler implements RoundRobin, for every quantum and every number of  *)
(* tasks.  The inductive invariant is what makes each step of the          *)
(* scheduler a step of the line.                                           *)

\* Sequences of the same length with the same elements are equal.
LEMMA SameSeq ==
  ASSUME NEW S, NEW s \in Seq(S), NEW t \in Seq(S), Len(s) = Len(t),
         \A k \in 1 .. Len(s) : s[k] = t[k]
  PROVE  s = t
BY SMTT(60)

\* Line, as a function of the table and the index.
Place(k, c, n) == IF c + k <= n THEN c + k ELSE c + k - n
LineLen(n, c) == IF c = NoTask THEN n ELSE n - 1
LineOf(ts, c) ==
  [k \in 1 .. LineLen(Len(ts), c) |-> ts[Place(k, c, Len(ts))].id]

\* The line is a sequence of ids of entries other than the current one.
LEMMA LineShape ==
  ASSUME NEW ts \in Seq(Task), NEW c \in 0 .. Len(ts)
  PROVE  /\ LineLen(Len(ts), c) \in Nat
         /\ LineOf(ts, c) \in Seq(Nat)
         /\ Len(LineOf(ts, c)) = LineLen(Len(ts), c)
         /\ \A k \in 1 .. LineLen(Len(ts), c) :
              /\ Place(k, c, Len(ts)) \in DOMAIN ts \ {c}
              /\ LineOf(ts, c)[k] = ts[Place(k, c, Len(ts))].id
<1> DEFINE n == Len(ts)
           m == LineLen(n, c)
<1>1. n \in Nat /\ DOMAIN ts = 1 .. n /\ c \in 0 .. n
  BY SMTT(60)
<1>2. m \in Nat /\ \A k \in 1 .. m : Place(k, c, n) \in (1 .. n) \ {c}
  BY <1>1, SMTT(60) DEF LineLen, Place, NoTask
<1>3. \A i \in DOMAIN ts : ts[i].id \in Nat
  <2>1. \A i \in DOMAIN ts : ts[i] \in Task
    BY SMTT(60)
  <2> QED  BY <2>1 DEF Task
<1>4. LineOf(ts, c) = [k \in 1 .. m |-> ts[Place(k, c, n)].id]
  BY DEF LineOf
<1>5. \A k \in 1 .. m : ts[Place(k, c, n)].id \in Nat
  BY <1>1, <1>2, <1>3
<1> HIDE DEF m, n
<1>6. LineOf(ts, c) \in Seq(Nat) /\ Len(LineOf(ts, c)) = m
  BY <1>2, <1>4, <1>5, SMTT(60)
<1> QED
  BY <1>1, <1>2, <1>4, <1>6 DEF m, n

\* Two tables with the same ids and the same index have the same line.
LEMMA LineSame ==
  ASSUME NEW ts \in Seq(Task), NEW us \in Seq(Task), NEW c \in 0 .. Len(ts),
         Len(us) = Len(ts), \A i \in DOMAIN ts : us[i].id = ts[i].id
  PROVE  LineOf(us, c) = LineOf(ts, c)
<1>1. \A k \in 1 .. LineLen(Len(ts), c) :
        us[Place(k, c, Len(ts))].id = ts[Place(k, c, Len(ts))].id
  BY LineShape
<1> QED
  BY <1>1 DEF LineOf

\* A dispatch moves the line by one: the head leaves and the task that had the
\* processor, if one did, goes to the end.
LEMMA LineShift ==
  ASSUME NEW ts \in Seq(Task), NEW c \in 0 .. Len(ts), Len(ts) >= 2,
         NEW d, d = Place(1, c, Len(ts))
  PROVE  /\ d \in 1 .. Len(ts)
         /\ LineOf(ts, c) # <<>>
         /\ ts[d].id = Head(LineOf(ts, c))
         /\ LineOf(ts, d) = IF c = NoTask THEN Tail(LineOf(ts, c))
                            ELSE Append(Tail(LineOf(ts, c)), ts[c].id)
<1> DEFINE n == Len(ts)
           l == LineOf(ts, c)
           m == LineLen(n, c)
<1>1. n \in Nat /\ n >= 2 /\ DOMAIN ts = 1 .. n /\ c \in 0 .. n
  BY SMTT(60)
<1>2. d \in 1 .. n /\ m \in Nat /\ m >= 1
  BY <1>1, SMTT(60) DEF Place, LineLen, NoTask
<1>3. l \in Seq(Nat) /\ Len(l) = m /\ \A k \in 1 .. m : l[k] = ts[Place(k, c, n)].id
  BY LineShape
<1>4. /\ LineOf(ts, d) \in Seq(Nat) /\ Len(LineOf(ts, d)) = n - 1
      /\ \A k \in 1 .. (n - 1) : LineOf(ts, d)[k] = ts[Place(k, d, n)].id
  <2>1. d \in 0 .. Len(ts) /\ d # 0
    BY <1>1, <1>2, SMTT(60)
  <2>2. LineLen(n, d) = n - 1
    BY <2>1 DEF LineLen, NoTask
  <2> QED  BY <2>1, <2>2, LineShape
<1>5. ts[d].id = Head(l) /\ l # <<>>
  BY <1>2, <1>3, SMTT(60)
<1>6. \A k \in 1 .. (m - 1) : Place(k, d, n) = Place(k + 1, c, n)
  BY <1>1, <1>2, SMTT(60) DEF Place, LineLen, NoTask
<1>7. c # NoTask => Place(n - 1, d, n) = c /\ c \in 1 .. n /\ m = n - 1
  BY <1>1, <1>2, SMTT(60) DEF Place, LineLen, NoTask
<1>8. c = NoTask => m = n
  BY DEF LineLen
<1>9. c # NoTask => ts[c].id \in Nat
  <2>1. c # NoTask => ts[c] \in Task
    BY <1>1, <1>7, SMTT(60)
  <2> QED  BY <2>1 DEF Task
<1> HIDE DEF l, m, n
<1>10. /\ Tail(l) \in Seq(Nat) /\ Len(Tail(l)) = m - 1
       /\ \A k \in 1 .. (m - 1) : Tail(l)[k] = l[k + 1]
  BY <1>2, <1>3, SMTT(60)
<1>11. \A k \in 1 .. (m - 1) : LineOf(ts, d)[k] = Tail(l)[k]
  <2> SUFFICES ASSUME NEW k \in 1 .. (m - 1)
               PROVE  LineOf(ts, d)[k] = Tail(l)[k]
    OBVIOUS
  <2>1. k \in 1 .. (n - 1) /\ k + 1 \in 1 .. m
    BY <1>1, <1>2, <1>7, <1>8, SMTT(60)
  <2> QED  BY <1>3, <1>4, <1>6, <1>10, <2>1
<1>12. CASE c = NoTask
  <2>1. LineOf(ts, d) = Tail(l)
    BY <1>1, <1>4, <1>8, <1>10, <1>11, <1>12, SameSeq
  <2> QED  BY <1>2, <1>5, <1>12, <2>1 DEF l, n
<1>13. CASE c # NoTask
  <2> DEFINE a == Append(Tail(l), ts[c].id)
  <2>1. /\ a \in Seq(Nat) /\ Len(a) = n - 1 /\ a[n - 1] = ts[c].id
        /\ \A k \in 1 .. (n - 2) : a[k] = Tail(l)[k]
    BY <1>1, <1>2, <1>7, <1>9, <1>10, <1>13, SMTT(60)
  <2> HIDE DEF a
  <2>2. \A k \in 1 .. (n - 1) : LineOf(ts, d)[k] = a[k]
    <3> SUFFICES ASSUME NEW k \in 1 .. (n - 1)
                 PROVE  LineOf(ts, d)[k] = a[k]
      OBVIOUS
    <3>1. CASE k = n - 1
      BY <1>1, <1>4, <1>7, <1>13, <2>1, <3>1
    <3>2. CASE k # n - 1
      <4>1. k \in 1 .. (n - 2) /\ k \in 1 .. (m - 1)
        BY <1>1, <1>7, <1>13, <3>2, SMTT(60)
      <4> QED  BY <1>11, <2>1, <4>1
    <3> QED  BY <3>1, <3>2
  <2>3. LineOf(ts, d) = a
    BY <1>1, <1>4, <2>1, <2>2, SameSeq
  <2> QED  BY <1>2, <1>5, <1>13, <2>3 DEF a, l, n
<1> QED  BY <1>12, <1>13

\* The task that has the processor, as RoundRobin sees it.
Runs(ts, c) == IF c = NoTask THEN BootCtx ELSE ts[c].id

\* The refinement mapping in terms of the two operators, before and after.
LEMMA Mapping ==
  /\ Line = LineOf(tasks, current) /\ Line' = LineOf(tasks', current')
BY DEF Line, LineOf, LineLen, Place, After

\* The sequence l with x inserted at place k.
Inserted(l, k, x) ==
  [i \in 1 .. (Len(l) + 1) |->
     IF i < k THEN l[i] ELSE IF i = k THEN x ELSE l[i - 1]]

\* The index of the current task after a spawn.
Shifted(c) == IF c = NoTask THEN NoTask ELSE c + 1

\* A spawn admits the new task at the place just before the current task's: at
\* the front of the table, which is the end of the line or, while no task has
\* run, its head.
LEMMA LineAdmit ==
  ASSUME NEW ts \in Seq(Task), NEW us \in Seq(Task), NEW c \in 0 .. Len(ts),
         Len(us) = Len(ts) + 1,
         \A i \in 1 .. Len(ts) : us[i + 1] = ts[i]
  PROVE  \E k \in 1 .. (Len(LineOf(ts, c)) + 1) :
           LineOf(us, Shifted(c)) = Inserted(LineOf(ts, c), k, us[1].id)
<1> DEFINE n == Len(ts)
           l == LineOf(ts, c)
           m == LineLen(n, c)
           k == IF c = NoTask THEN 1 ELSE n - c + 1
           e == Shifted(c)
<1>1. n \in Nat /\ c \in 0 .. n
  BY SMTT(60)
<1>2. l \in Seq(Nat) /\ Len(l) = m /\ m \in Nat
      /\ \A i \in 1 .. m : l[i] = ts[Place(i, c, n)].id
  BY LineShape
<1>3. k \in 1 .. (m + 1) /\ e \in 0 .. (n + 1) /\ LineLen(n + 1, e) = m + 1
  BY <1>1, SMTT(60) DEF LineLen, NoTask, Shifted
<1>4. LineOf(us, e) = [i \in 1 .. (m + 1) |-> us[Place(i, e, n + 1)].id]
  BY <1>3 DEF LineOf
<1>5. \A i \in 1 .. (m + 1) :
        /\ i < k => /\ Place(i, c, n) \in 1 .. n /\ i \in 1 .. m
                    /\ Place(i, e, n + 1) = Place(i, c, n) + 1
        /\ i = k => Place(i, e, n + 1) = 1
        /\ i > k => /\ i - 1 \in 1 .. m /\ Place(i - 1, c, n) \in 1 .. n
                    /\ Place(i, e, n + 1) = Place(i - 1, c, n) + 1
  <2> TAKE i \in 1 .. (m + 1)
  <2>1. CASE c = 0
    <3>1. e = 0 /\ k = 1 /\ m = n
      BY <2>1 DEF LineLen, NoTask, Shifted
    <3> HIDE DEF k, m, n, e
    <3> QED  BY <1>1, <2>1, <3>1, SMTT(60) DEF Place
  <2>2. CASE c # 0
    <3>1. e = c + 1 /\ k = n - c + 1 /\ m = n - 1 /\ c \in 1 .. n
      BY <1>1, <2>2, SMTT(60) DEF LineLen, NoTask, Shifted
    <3> HIDE DEF k, m, n, e
    <3>2. i < k => c + i <= n /\ e + i <= n + 1 /\ i \in 1 .. m
      BY <1>1, <3>1, SMTT(60)
    <3>3. i = k => ~(e + i <= n + 1) /\ e + i - (n + 1) = 1
      BY <1>1, <3>1, SMTT(60)
    <3>4. i > k => /\ ~(e + i <= n + 1) /\ ~(c + (i - 1) <= n)
                   /\ i - 1 \in 1 .. m /\ c + (i - 1) - n \in 1 .. n
                   /\ e + i - (n + 1) = c + (i - 1) - n + 1
      BY <1>1, <3>1, SMTT(60)
    <3> QED  BY <1>1, <3>1, <3>2, <3>3, <3>4, SMTT(60) DEF Place
  <2> QED  BY <2>1, <2>2
<1> HIDE DEF l, m, e
<1>6. \A i \in 1 .. (m + 1) :
        us[Place(i, e, n + 1)].id =
          IF i < k THEN l[i] ELSE IF i = k THEN us[1].id ELSE l[i - 1]
  <2> TAKE i \in 1 .. (m + 1)
  <2> HIDE DEF k
  <2>0. i \in Int /\ k \in Int
    BY <1>2, <1>3, SMTT(60)
  <2>1. CASE i < k
    BY <1>2, <1>5, <2>1
  <2>2. CASE i = k
    BY <1>5, <2>0, <2>2, SMTT(60)
  <2>3. CASE i > k
    BY <1>2, <1>5, <2>0, <2>3
  <2> QED  BY <2>0, <2>1, <2>2, <2>3, SMTT(60)
<1> HIDE DEF k
<1>7. LineOf(us, e) = [i \in 1 .. (m + 1) |->
        IF i < k THEN l[i] ELSE IF i = k THEN us[1].id ELSE l[i - 1]]
  BY <1>4, <1>6
<1>8. LineOf(us, e) = Inserted(l, k, us[1].id)
  BY <1>2, <1>7 DEF Inserted
<1> QED  BY <1>2, <1>3, <1>8 DEF l, e

\* The initial states correspond.
LEMMA RingInit == Init => Ring!Init
<1> SUFFICES ASSUME Init PROVE Ring!Init
  OBVIOUS
<1>1. tasks = <<>> /\ current = 0 /\ phase = "reset"
  BY DEF Init, NoTask
<1>2. Line \in Seq(Nat) /\ Len(Line) = 0
  <2>1. tasks \in Seq(Task) /\ Len(tasks) = 0 /\ current \in 0 .. Len(tasks)
    BY <1>1, SMTT(60)
  <2>2. LineLen(Len(tasks), current) = 0
    BY <1>1, <2>1 DEF LineLen, NoTask
  <2> QED  BY <2>1, <2>2, LineShape, Mapping
<1>3. Line = <<>>
  BY <1>2, SMTT(60)
<1> QED
  BY <1>1, <1>3 DEF Ring!Init, NoTask

\* A step that keeps the ids and the index does not move the line.
LEMMA RingStutter ==
  ASSUME IInv, tasks' \in Seq(Task), Len(tasks') = Len(tasks), current' = current,
         \A i \in DOMAIN tasks : tasks'[i].id = tasks[i].id
  PROVE  Line' = Line /\ Runs(tasks', current') = Runs(tasks, current)
<1>1. tasks \in Seq(Task) /\ current \in 0 .. Len(tasks)
  BY DEF IInv, TypeOK
<1>2. current # NoTask => current \in DOMAIN tasks
  BY <1>1, SMTT(60) DEF NoTask
<1>3. LineOf(tasks', current) = LineOf(tasks, current)
  BY <1>1, LineSame
<1> QED
  BY <1>2, <1>3, Mapping DEF Runs

\* kill_current and the reaper's scan do not move the line.
LEMMA RingKill ==
  ASSUME IInv, kill_current
  PROVE  Line' = Line /\ Runs(tasks', current') = Runs(tasks, current)
<1>1. current # NoTask => tasks'[current].id = tasks[current].id
  BY KillShape, SMTT(60) DEF Killed
<1>2. \A i \in DOMAIN tasks : tasks'[i].id = tasks[i].id
  BY <1>1, KillShape, SMTT(60) DEF IInv, TypeOK, NoTask
<1> QED
  BY <1>2, KillShape, RingStutter

\* A spawn is an Admit.
LEMMA RingSpawn ==
  ASSUME IInv, spawn_kthread, next_id < MAX_TASKS, phase # "hung", phase' # "hung"
  PROVE  Ring!Next
<1>1. /\ tasks \in Seq(Task) /\ current \in 0 .. Len(tasks) /\ next_id \in Nat
      /\ next_id \in 0 .. (MAX_TASKS - 1)
  BY SMTT(60) DEF IInv, TypeOK
<1>2. /\ tasks' \in Seq(Task) /\ Len(tasks') = Len(tasks) + 1
      /\ tasks'[1].id = next_id
      /\ \A i \in 1 .. Len(tasks) : tasks'[i + 1] = tasks[i]
      /\ current' = IF current = NoTask THEN NoTask ELSE current + 1
  BY SpawnShape, SMTT(60) DEF spawn_kthread, NewTask
<1>3. PICK k \in 1 .. (Len(Line) + 1) :
        Line' = Inserted(Line, k, next_id)
  <2>1. \E k \in 1 .. (Len(LineOf(tasks, current)) + 1) :
          LineOf(tasks', current') =
            Inserted(LineOf(tasks, current), k, tasks'[1].id)
    <3>1. current' = Shifted(current)
      BY <1>2 DEF Shifted
    <3>2. \E k \in 1 .. (Len(LineOf(tasks, current)) + 1) :
            LineOf(tasks', Shifted(current)) =
              Inserted(LineOf(tasks, current), k, tasks'[1].id)
      BY <1>1, <1>2, LineAdmit
    <3> QED  BY <3>1, <3>2
  <2>2. tasks'[1].id = next_id
    BY <1>2
  <2> QED  BY <2>1, <2>2, Mapping
<1>4. Runs(tasks', current') = Runs(tasks, current)
  BY <1>1, <1>2, SMTT(60) DEF Runs, NoTask
<1>5. \A i \in DOMAIN tasks : tasks[i].id \in Nat /\ tasks[i].id # next_id
  <2>1. \A i \in DOMAIN tasks : tasks[i] \in Task /\ tasks[i].id < next_id
    BY <1>1, SMTT(60) DEF IInv, SchedInv
  <2> QED  BY <1>1, <2>1, SMTT(60) DEF Task
<1>6. \A i \in DOMAIN Line : Line[i] # next_id
  <2>1. /\ Line \in Seq(Nat) /\ Len(Line) = LineLen(Len(tasks), current)
        /\ \A k2 \in 1 .. LineLen(Len(tasks), current) :
             /\ Place(k2, current, Len(tasks)) \in DOMAIN tasks
             /\ Line[k2] = tasks[Place(k2, current, Len(tasks))].id
    BY <1>1, LineShape, Mapping
  <2> QED  BY <1>5, <2>1, SMTT(60)
<1>7. Runs(tasks, current) # next_id
  BY <1>1, <1>5, SMTT(60) DEF Runs, NoTask, BootCtx
<1>8. Ring!Admit(next_id, k)
  BY <1>3, <1>4, <1>6, <1>7 DEF Ring!Admit, Ring!Admitted, Runs, Inserted
<1> QED
  BY <1>1, <1>3, <1>8 DEF Ring!Next

\* A switch is a Dispatch.
LEMMA RingSwitch ==
  ASSUME IInv, tick_switch
  PROVE  Ring!Dispatch
<1>1. /\ tasks \in Seq(Task) /\ current \in 0 .. Len(tasks) /\ Len(tasks) >= 2
      /\ phase = "up" /\ phase' = "up"
  BY DEF IInv, TypeOK, SchedInv, tick_switch
<1>2. /\ current' = Place(1, current, Len(tasks))
  BY <1>1, SwitchShape, PickNext, SMTT(60) DEF Place, After, NoTask
<1>3. /\ current' \in 1 .. Len(tasks) /\ Line # <<>>
      /\ tasks[current'].id = Head(Line)
      /\ LineOf(tasks, current') = IF current = NoTask THEN Tail(Line)
                                   ELSE Append(Tail(Line), tasks[current].id)
  BY <1>1, <1>2, LineShift, Mapping
<1>4. \A i \in DOMAIN tasks : tasks'[i].id = tasks[i].id
  <2>1. \A i \in DOMAIN tasks : i = current => current # NoTask
    BY <1>1, SMTT(60) DEF NoTask
  <2>2. tasks'[current'].id = tasks[current'].id
    <3>1. tasks'[current'] = [tasks[current'] EXCEPT !.state = "Running"]
      BY <1>1, SwitchShape
    <3>2. tasks[current'] \in Task
      BY <1>1, <1>3, SMTT(60)
    <3> QED  BY <3>1, <3>2, MadeRunning
  <2> QED  BY <1>1, <2>1, <2>2, SwitchShape, SMTT(60)
<1>5. Line' = LineOf(tasks, current')
  <2>1. tasks' \in Seq(Task) /\ Len(tasks') = Len(tasks) /\ current' \in 0 .. Len(tasks)
    BY <1>1, <1>3, SwitchShape, SMTT(60)
  <2> QED  BY <1>1, <1>4, <2>1, LineSame, Mapping
<1>6. tasks'[current'].id = Head(Line) /\ current' # NoTask
  BY <1>1, <1>3, <1>4, SMTT(60) DEF NoTask
<1>7. current # NoTask => tasks[current].id # BootCtx
  <2>1. current # NoTask => tasks[current] \in Task
    BY <1>1, SMTT(60) DEF NoTask
  <2> QED  BY <2>1, SMTT(60) DEF Task, BootCtx
<1> QED
  BY <1>1, <1>3, <1>5, <1>6, <1>7 DEF Ring!Dispatch

\* sched::init boots the line with the reaper before the idle task.
LEMMA RingBoot ==
  ASSUME IInv, init
  PROVE  Ring!Next
<1>1. /\ tasks = <<>> /\ current = 0 /\ current' = 0 /\ phase = "reset"
      /\ phase' = "booting" /\ tasks' = <<NewTask(1), NewTask(0)>>
  BY DEF init, IInv, SchedInv, NoTask, ReaperCtx, IdleCtx
<1>2. Line = <<>>
  <2>1. tasks \in Seq(Task) /\ Len(tasks) = 0 /\ current \in 0 .. Len(tasks)
    BY <1>1, SMTT(60)
  <2>2. LineLen(Len(tasks), current) = 0
    BY <1>1, <2>1 DEF LineLen, NoTask
  <2>3. Line \in Seq(Nat) /\ Len(Line) = 0
    BY <2>1, <2>2, LineShape, Mapping
  <2> QED  BY <2>3, SMTT(60)
<1>3. Line' = <<1, 0>>
  <2> DEFINE r == NewTask(1)
             d == NewTask(0)
  <2>1. r.id = 1 /\ d.id = 0 /\ r \in Task /\ d \in Task
    BY SMTT(60) DEF NewTask, Task, TaskState
  <2> HIDE DEF r, d
  <2>2. tasks' = <<r, d>>
    BY <1>1 DEF r, d
  <2>3. /\ tasks' \in Seq(Task) /\ Len(tasks') = 2 /\ current' \in 0 .. Len(tasks')
        /\ tasks'[1] = r /\ tasks'[2] = d
    BY <1>1, <2>1, <2>2, SMTT(60)
  <2>4. LineLen(Len(tasks'), current') = 2 /\ Place(1, current', 2) = 1
        /\ Place(2, current', 2) = 2
    BY <1>1, <2>3, SMTT(60) DEF LineLen, Place, NoTask
  <2>5. Line' \in Seq(Nat) /\ Len(Line') = 2 /\ Line'[1] = 1 /\ Line'[2] = 0
    <3>1. /\ LineOf(tasks', current') \in Seq(Nat)
          /\ Len(LineOf(tasks', current')) = 2
          /\ \A k \in 1 .. 2 :
               LineOf(tasks', current')[k] = tasks'[Place(k, current', 2)].id
      <4>1. /\ LineOf(tasks', current') \in Seq(Nat)
            /\ Len(LineOf(tasks', current')) = LineLen(Len(tasks'), current')
            /\ \A k \in 1 .. LineLen(Len(tasks'), current') :
                 LineOf(tasks', current')[k] =
                   tasks'[Place(k, current', Len(tasks'))].id
        BY <2>3, LineShape
      <4> QED  BY <2>3, <2>4, <4>1
    <3> QED  BY <2>1, <2>3, <2>4, <3>1, Mapping, SMTT(60)
  <2> QED  BY <2>5, SMTT(60)
<1>4. Ring!Boot(1, 0)
  BY <1>1, <1>2, <1>3, SMTT(60) DEF Ring!Boot, NoTask
<1>5. 1 \in 0 .. (MAX_TASKS - 1) /\ 0 \in 0 .. (MAX_TASKS - 1)
  BY SMTT(60)
<1> QED
  BY <1>4, <1>5 DEF Ring!Next

\* Every step of the scheduler is a step of the line, or leaves it alone.
LEMMA RingStep ==
  ASSUME IInv, [Next]_vars
  PROVE  [Ring!Next]_(Ring!ring)
<1>1. CASE init  BY <1>1, RingBoot
<1>2. CASE start
  <2>1. next_id < MAX_TASKS
    BY <1>2, SMTT(60) DEF start, IInv, SchedInv
  <2> QED  BY <1>2, <2>1, RingSpawn DEF start
<1>3. CASE tick_stay
  <2>1. Line' = Line /\ Runs(tasks', current') = Runs(tasks, current)
    BY <1>3, RingStutter, ChargedShape DEF tick_stay
  <2> QED  BY <1>3, <2>1 DEF tick_stay, Runs, Ring!ring
<1>4. CASE tick_switch
  BY <1>4, RingSwitch DEF Ring!Next
<1>5. CASE spawn
  BY <1>5, RingSpawn DEF spawn, InBody
<1>6. CASE exit_current
  <2>1. Line' = Line /\ Runs(tasks', current') = Runs(tasks, current)
    BY <1>6, RingKill DEF exit_current
  <2> QED  BY <1>6, <2>1 DEF exit_current, Runs, Ring!ring
<1>7. CASE reap
  <2>1. Line' = Line /\ Runs(tasks', current') = Runs(tasks, current)
    BY <1>7, ReapIdle, RingStutter DEF reap, IInv, TypeOK
  <2> QED  BY <1>7, <2>1 DEF reap, Runs, Ring!ring
<1>8. CASE fault
  <2>1. Line' = Line /\ Runs(tasks', current') = Runs(tasks, current)
    BY <1>8, RingKill DEF fault
  <2>2. Ring!Stop
    BY <1>8, <2>1 DEF fault, Runs, Ring!Stop
  <2> QED  BY <2>2 DEF Ring!Next
<1>9. CASE UNCHANGED vars
  BY <1>9 DEF vars, Line, After, Ring!ring
<1> QED
  BY <1>1, <1>2, <1>3, <1>4, <1>5, <1>6, <1>7, <1>8, <1>9 DEF Next, tick

\* The scheduler implements the line: ticks serve its head and send the task
\* that had the processor to its end, a spawn adds one task to it, and nothing
\* else moves it.
THEOREM SchedulerRefinesRing == Spec => ImplementsRing
<1>1. Init => Ring!Init
  BY RingInit
<1>2. IInv /\ [Next]_vars => [Ring!Next]_(Ring!ring)
  BY RingStep
<1> QED
  BY <1>1, <1>2, SchedulerSafe, PTL DEF Spec, IInv, ImplementsRing, Ring!Spec

=============================================================================
