----------------------------- MODULE Scheduler -----------------------------
(***************************************************************************)
(* Processes, threads and tasks of the kernel and the scheduler that       *)
(* multiplexes them on one CPU: src/fzboot/scheduler and                   *)
(* src/fzboot/process.                                                     *)
(*                                                                         *)
(* The running thread spawns and schedules others; the timer interrupt may *)
(* come between any two of its steps.  The handler runs with interrupts    *)
(* off, so it is one action, unless it waits for a lock: the owner cannot  *)
(* run before the handler returns, and the CPU spins for ever.  Registers  *)
(* and stacks are not modelled: a task resumes where its context stands.   *)
(* Init is the state at the enable_interrupts() that ends _kmain.          *)
(*                                                                         *)
(* Operators named ..._bug are deliberately wrong variants of the          *)
(* definition that follows them.  Nothing uses them; substituted for it,   *)
(* each makes TLC refute one of the properties at the end.                 *)
(***************************************************************************)
EXTENDS Integers, Sequences, FiniteSets, Functions

CONSTANTS MaxTasks,     \* bound on the tasks (and threads) ever created
          MaxProcs,     \* bound on the processes ever created
          MaxQueue,     \* bound on the length of the run queue
          Ops,          \* the calls that threads make
          ThreadFlags,  \* values of NO_PREEMPT that threads are created with
          ProcessFlags  \* values of NO_PREEMPT that processes are created with

ASSUME SchedulerAssumption ==
    /\ MaxTasks \in Nat \ {0} /\ MaxProcs \in Nat \ {0} /\ MaxQueue \in Nat \ {0}
    /\ Ops \subseteq {"process", "main_thread", "thread", "schedule", "switch"}
    /\ ThreadFlags \subseteq BOOLEAN /\ ProcessFlags \subseteq BOOLEAN

TaskIds == 0 .. (MaxTasks - 1)
Pids    == 0 .. (MaxProcs - 1)
NoOne   == -1

\* KERNEL_INIT_PID, KERNEL_INIT_TID and INIT_TASK
KernelInit == 0

\* the spin locks: GLOBAL_SCHEDULER, the allocator of kernel stacks, the write
\* side of the three registries, and the mutexes of the tasks, threads and processes
Registry(name) == <<name, 0>>
Locks == {Registry(n) : n \in {"SCHEDULER", "STACKS", "TASKS", "THREADS", "PROCESSES"}}
         \cup {<<"task", t>> : t \in TaskIds} \cup {<<"thread", t>> : t \in TaskIds}
         \cup {<<"process", p>> : p \in Pids}

VARIABLES tasks,      \* TASKS: [pid, tid, state] of the registered tasks
          threads,    \* THREAD_REGISTRY: [task, no_preempt]
          procs,      \* PROCESS_REGISTRY: [threads, no_preempt]
          queue,      \* kernel_queue, the task identifiers in round-robin order
          current,    \* CURRENT_TASK_ID, CURRENT_THREAD_ID, CURRENT_PROCESS_ID
          next,       \* LAST_TASK_ID, FIRST_AVAILABLE_TID, FIRST_AVAILABLE_PID
          lock,       \* the task that holds each lock, or NoOne
          ctx,        \* where each task stands in the call it makes
          cpu         \* "running", "irq_spins" or "panicked"

registries == <<tasks, threads, procs>>
vars == <<tasks, threads, procs, queue, current, next, lock, ctx, cpu>>

TaskStates == {"Running", "Waiting", "Uninitialized"}
Labels == {"run", "thread_init", "thread_init_match", "process_init",
           "process_write", "process_insert", "process_drop",
           "task_id", "stack_lock", "stack_alloc", "task_write", "task_insert",
           "task_get", "group_lock", "group_insert", "thread_write", "thread_insert",
           "sched_lock", "sched_push", "thread_drop", "switch"}

TaskRecords    == [pid : Pids, tid : TaskIds, state : TaskStates]
ThreadRecords  == [task : TaskIds, no_preempt : BOOLEAN]
ProcessRecords == [threads : SUBSET TaskIds, no_preempt : BOOLEAN]

\* the context of a task: its next step and the local variables of the call
Contexts == [pc : Labels, pid : Pids, tid : TaskIds, task : TaskIds, flag : BOOLEAN, init : Labels]
Call(pc, pid, tid, task, flag, init) ==
    [pc |-> pc, pid |-> pid, tid |-> tid, task |-> task, flag |-> flag, init |-> init]
Context(pc) == Call(pc, 0, 0, 0, FALSE, "run")

Register(f, key, value) == [k \in DOMAIN f \cup {key} |-> IF k = key THEN value ELSE f[k]]

Free(l) == lock[l] = NoOne

Init ==
    /\ tasks = [t \in {KernelInit} |-> [pid |-> KernelInit, tid |-> KernelInit, state |-> "Uninitialized"]]
    /\ threads = [t \in {KernelInit} |-> [task |-> KernelInit, no_preempt |-> FALSE]]
    /\ procs = [p \in {KernelInit} |-> [threads |-> {KernelInit}, no_preempt |-> FALSE]]
    /\ queue = <<KernelInit>>
    /\ current = [task |-> KernelInit, tid |-> KernelInit, pid |-> KernelInit]
    /\ next = [task |-> 1, tid |-> 1, pid |-> 1]
    /\ lock = [l \in Locks |-> NoOne]
    /\ ctx = [t \in TaskIds |-> Context("run")]
    /\ cpu = "running"

-----------------------------------------------------------------------------
(* The steps of the running thread.                                        *)

me == current.task
At(pc) == cpu = "running" /\ ctx[me].pc = pc
Become(c) == ctx' = [ctx EXCEPT ![me] = c]
Go(pc) == Become([ctx[me] EXCEPT !.pc = pc])
Return == Become(Context("run"))
Acquire(l) == Free(l) /\ lock' = [lock EXCEPT ![l] = me]
Release(l) == lock' = [lock EXCEPT ![l] = NoOne]

\* Process::spawn_process: take an identifier; alloc_page may fail
spawn_process(flag) ==
    /\ At("run") /\ next.pid < MaxProcs
    /\ next' = [next EXCEPT !.pid = @ + 1]
    /\ \/ UNCHANGED ctx
       \/ Become(Call("process_write", next.pid, 0, 0, flag, "run"))
    /\ UNCHANGED <<registries, queue, current, lock, cpu>>

spawn_process_lock ==
    /\ At("process_write")
    /\ Acquire(Registry("PROCESSES"))
    /\ Go("process_insert")
    /\ UNCHANGED <<registries, queue, current, next, cpu>>

spawn_process_insert ==
    /\ At("process_insert")
    /\ procs' = Register(procs, ctx[me].pid, [threads |-> {}, no_preempt |-> ctx[me].flag])
    /\ Release(Registry("PROCESSES"))
    /\ Go("process_drop")
    /\ UNCHANGED <<tasks, threads, queue, current, next, cpu>>

\* the new process is locked once more before the call returns
spawn_process_return ==
    /\ At("process_drop")
    /\ Free(<<"process", ctx[me].pid>>)
    /\ Return
    /\ UNCHANGED <<registries, queue, current, next, lock, cpu>>

\* Thread::spawn_thread, with the init function of a kernel thread or of the
\* main thread of a process
spawn_thread(pid, flag, init) ==
    /\ At("run") /\ next.tid < MaxTasks
    /\ next' = [next EXCEPT !.tid = @ + 1]
    /\ Become(Call("task_id", pid, next.tid, 0, flag, init))
    /\ UNCHANGED <<registries, queue, current, lock, cpu>>

\* reads LAST_TASK_ID without advancing it
init_kernel_task_id_bug ==
    /\ At("task_id") /\ next.task < MaxTasks
    /\ Become([ctx[me] EXCEPT !.task = next.task, !.pc = "stack_lock"])
    /\ UNCHANGED <<registries, queue, current, next, lock, cpu>>

\* Task::init_kernel_task
init_kernel_task_id ==
    /\ At("task_id") /\ next.task < MaxTasks
    /\ next' = [next EXCEPT !.task = @ + 1]
    /\ Become([ctx[me] EXCEPT !.task = next.task, !.pc = "stack_lock"])
    /\ UNCHANGED <<registries, queue, current, lock, cpu>>

init_kernel_task_stack_lock ==
    /\ At("stack_lock")
    /\ Acquire(Registry("STACKS"))
    /\ Go("stack_alloc")
    /\ UNCHANGED <<registries, queue, current, next, cpu>>

init_kernel_task_stack ==
    /\ At("stack_alloc")
    /\ Release(Registry("STACKS"))
    /\ Go("task_write")
    /\ UNCHANGED <<registries, queue, current, next, cpu>>

init_kernel_task_lock ==
    /\ At("task_write")
    /\ Acquire(Registry("TASKS"))
    /\ Go("task_insert")
    /\ UNCHANGED <<registries, queue, current, next, cpu>>

\* leaves the new task out of TASKS
init_kernel_task_insert_bug ==
    LET c == ctx[me]
    IN  /\ At("task_insert")
        /\ Release(Registry("TASKS"))
        /\ ctx' = [ctx EXCEPT ![me] = [c EXCEPT !.pc = "task_get"], ![c.task] = Context(c.init)]
        /\ UNCHANGED <<registries, queue, current, next, cpu>>

\* the process of the new task is always the one of the kernel
init_kernel_task_insert ==
    LET c == ctx[me]
    IN  /\ At("task_insert")
        /\ tasks' = Register(tasks, c.task,
                        [pid |-> KernelInit, tid |-> c.tid, state |-> "Uninitialized"])
        /\ Release(Registry("TASKS"))
        /\ ctx' = [ctx EXCEPT ![me] = [c EXCEPT !.pc = "task_get"], ![c.task] = Context(c.init)]
        /\ UNCHANGED <<threads, procs, queue, current, next, cpu>>

\* get_task(...).unwrap(): the task was registered by this call
spawn_thread_get_task ==
    /\ At("task_get")
    /\ Free(Registry("TASKS"))
    /\ Go("group_lock")
    /\ UNCHANGED <<registries, queue, current, next, lock, cpu>>

\* get_process(pid).unwrap().lock()
spawn_thread_group_lock ==
    /\ At("group_lock")
    /\ Free(Registry("PROCESSES"))
    /\ ctx[me].pid \in DOMAIN procs
    /\ Acquire(<<"process", ctx[me].pid>>)
    /\ Go("group_insert")
    /\ UNCHANGED <<registries, queue, current, next, cpu>>

spawn_thread_group_insert ==
    /\ At("group_insert")
    /\ procs' = [procs EXCEPT ![ctx[me].pid].threads = @ \cup {ctx[me].tid}]
    /\ Release(<<"process", ctx[me].pid>>)
    /\ Go("thread_write")
    /\ UNCHANGED <<tasks, threads, queue, current, next, cpu>>

spawn_thread_lock ==
    /\ At("thread_write")
    /\ Acquire(Registry("THREADS"))
    /\ Go("thread_insert")
    /\ UNCHANGED <<registries, queue, current, next, cpu>>

spawn_thread_insert ==
    /\ At("thread_insert")
    /\ threads' = Register(threads, ctx[me].tid, [task |-> ctx[me].task, no_preempt |-> ctx[me].flag])
    /\ Release(Registry("THREADS"))
    /\ Return
    /\ UNCHANGED <<tasks, procs, queue, current, next, cpu>>

\* thread.lock().schedule(): the caller holds the mutex of the thread, schedule
\* takes those of the scheduler and of the task
schedule(tid) ==
    /\ At("run") /\ Len(queue) < MaxQueue
    /\ Free(Registry("THREADS"))
    /\ Acquire(<<"thread", tid>>)
    /\ Become(Call("sched_lock", 0, tid, 0, FALSE, "run"))
    /\ UNCHANGED <<registries, queue, current, next, cpu>>

schedule_lock ==
    /\ At("sched_lock")
    /\ Acquire(Registry("SCHEDULER"))
    /\ Go("sched_push")
    /\ UNCHANGED <<registries, queue, current, next, cpu>>

\* keeps the scheduler locked
schedule_sys_task_bug ==
    LET task == threads[ctx[me].tid].task
    IN  /\ At("sched_push")
        /\ Free(<<"task", task>>)
        /\ queue' = Append(queue, task)
        /\ Go("thread_drop")
        /\ UNCHANGED <<registries, current, next, lock, cpu>>

schedule_sys_task ==
    LET task == threads[ctx[me].tid].task
    IN  /\ At("sched_push")
        /\ Free(<<"task", task>>)
        /\ queue' = Append(queue, task)
        /\ Release(Registry("SCHEDULER"))
        /\ Go("thread_drop")
        /\ UNCHANGED <<registries, current, next, cpu>>

schedule_return ==
    /\ At("thread_drop")
    /\ Release(<<"thread", ctx[me].tid>>)
    /\ Return
    /\ UNCHANGED <<registries, queue, current, next, cpu>>

\* __thread_init: look up the current thread and lock it ...
thread_init_lock ==
    /\ At("thread_init")
    /\ Free(Registry("THREADS"))
    /\ IF current.tid \in DOMAIN threads
       THEN /\ Acquire(<<"thread", current.tid>>)
            /\ Become([ctx[me] EXCEPT !.tid = current.tid, !.pc = "thread_init_match"])
            /\ UNCHANGED cpu
       ELSE cpu' = "panicked" /\ UNCHANGED <<lock, ctx>>
    /\ UNCHANGED <<registries, queue, current, next>>

\* ... and enter the thread if its task is still Uninitialized
thread_init_match ==
    LET task == threads[ctx[me].tid].task
    IN  /\ At("thread_init_match")
        /\ Free(<<"task", task>>)
        /\ Release(<<"thread", ctx[me].tid>>)
        /\ Return
        /\ cpu' = IF tasks[task].state = "Uninitialized" THEN cpu ELSE "panicked"
        /\ UNCHANGED <<registries, queue, current, next>>

\* task_switch!(t): perform_task_switch locks both tasks, which are not the
\* same ...
perform_task_switch_lock(t) ==
    /\ At("run")
    /\ Free(Registry("TASKS"))
    /\ t # me /\ Free(<<"task", me>>) /\ Free(<<"task", t>>)
    /\ lock' = [lock EXCEPT ![<<"task", me>>] = me, ![<<"task", t>>] = me]
    /\ Become(Call("switch", 0, 0, t, FALSE, "run"))
    /\ UNCHANGED <<registries, queue, current, next, cpu>>

\* leaves the task it suspends Running
perform_task_switch_bug ==
    LET t == ctx[me].task
    IN  /\ At("switch")
        /\ tasks' = [tasks EXCEPT ![t].state = "Running"]
        /\ current' = [current EXCEPT !.task = t]
        /\ lock' = [lock EXCEPT ![<<"task", me>>] = NoOne, ![<<"task", t>>] = NoOne]
        /\ Return
        /\ UNCHANGED <<threads, procs, queue, next, cpu>>

\* ... and resumes the other; only CURRENT_TASK_ID is updated
perform_task_switch ==
    LET t == ctx[me].task
    IN  /\ At("switch")
        /\ tasks' = [tasks EXCEPT ![me].state = "Waiting", ![t].state = "Running"]
        /\ current' = [current EXCEPT !.task = t]
        /\ lock' = [lock EXCEPT ![<<"task", me>>] = NoOne, ![<<"task", t>>] = NoOne]
        /\ Return
        /\ UNCHANGED <<threads, procs, queue, next, cpu>>

call(op) ==
    \/ op = "process" /\ \E flag \in ProcessFlags : spawn_process(flag)
    \/ op = "main_thread" /\ \E pid \in DOMAIN procs, flag \in ThreadFlags :
                                spawn_thread(pid, flag, "process_init")
    \/ op = "thread" /\ spawn_thread(KernelInit, FALSE, "thread_init")
    \/ op = "schedule" /\ \E tid \in DOMAIN threads : schedule(tid)
    \/ op = "switch" /\ \E t \in DOMAIN tasks : perform_task_switch_lock(t)

step ==
    \/ spawn_process_lock \/ spawn_process_insert \/ spawn_process_return
    \/ init_kernel_task_id \/ init_kernel_task_stack_lock \/ init_kernel_task_stack
    \/ init_kernel_task_lock \/ init_kernel_task_insert
    \/ spawn_thread_get_task \/ spawn_thread_group_lock \/ spawn_thread_group_insert
    \/ spawn_thread_lock \/ spawn_thread_insert
    \/ schedule_lock \/ schedule_sys_task \/ schedule_return
    \/ thread_init_lock \/ thread_init_match \/ perform_task_switch

-----------------------------------------------------------------------------
(* The timer interrupt.                                                    *)

\* the checks of timer_irq_entry, in order: the first that fails ends it
SchedulerFree == cpu = "running" /\ Free(Registry("SCHEDULER"))
ProcessRead   == SchedulerFree /\ Free(Registry("PROCESSES"))
ProcessAllows == /\ ProcessRead
                 /\ current.pid \in DOMAIN procs /\ Free(<<"process", current.pid>>)
                 /\ ~procs[current.pid].no_preempt
ThreadRead    == ProcessAllows /\ Free(Registry("THREADS"))
ThreadAllows  == /\ ThreadRead
                 /\ current.tid \in DOMAIN threads /\ Free(<<"thread", current.tid>>)
                 /\ ~threads[current.tid].no_preempt
Rotates       == ThreadAllows /\ queue # <<>>
Switches      == Rotates /\ Head(queue) # me
TasksFree     == /\ Switches /\ Free(Registry("TASKS"))
                 /\ Free(<<"task", me>>) /\ Free(<<"task", Head(queue)>>)

\* pushes the task back at the front
rotated_bug == <<Head(queue)>> \o Tail(queue)

\* next_task of the round-robin strategy: pop the front, push it back
rotated == Append(Tail(queue), Head(queue))

\* the handler gives this run up
timer_skips ==
    /\ cpu = "running"
    /\ \/ ~SchedulerFree
       \/ ProcessRead /\ ~ProcessAllows
       \/ ThreadRead /\ ~Rotates
    /\ UNCHANGED vars

\* the next task is the one interrupted
timer_returns ==
    /\ Rotates /\ ~Switches
    /\ queue' = rotated
    /\ UNCHANGED <<registries, current, next, lock, ctx, cpu>>

\* the handler waits for a lock of the code it interrupted
timer_spins ==
    /\ \/ SchedulerFree /\ ~ProcessRead /\ UNCHANGED queue
       \/ ProcessAllows /\ ~ThreadRead /\ UNCHANGED queue
       \/ Switches /\ ~TasksFree /\ queue' = rotated
    /\ cpu' = "irq_spins"
    /\ UNCHANGED <<registries, current, next, lock, ctx>>

\* swaps CURRENT_THREAD_ID and CURRENT_PROCESS_ID
irq_schedule_next_task_swap_bug ==
    LET t == Head(queue)
    IN  /\ TasksFree
        /\ queue' = rotated
        /\ IF t \in DOMAIN tasks
           THEN /\ tasks' = [tasks EXCEPT ![me].state = "Waiting",
                               ![t].state = IF @ = "Uninitialized" THEN @ ELSE "Running"]
                /\ current' = [task |-> t, tid |-> tasks[t].pid, pid |-> tasks[t].tid]
                /\ UNCHANGED cpu
           ELSE cpu' = "panicked" /\ UNCHANGED <<tasks, current>>
        /\ UNCHANGED <<threads, procs, next, lock, ctx>>

\* leaves CURRENT_THREAD_ID alone
irq_schedule_next_task_tid_bug ==
    LET t == Head(queue)
    IN  /\ TasksFree
        /\ queue' = rotated
        /\ IF t \in DOMAIN tasks
           THEN /\ tasks' = [tasks EXCEPT ![me].state = "Waiting",
                               ![t].state = IF @ = "Uninitialized" THEN @ ELSE "Running"]
                /\ current' = [current EXCEPT !.task = t, !.pid = tasks[t].pid]
                /\ UNCHANGED cpu
           ELSE cpu' = "panicked" /\ UNCHANGED <<tasks, current>>
        /\ UNCHANGED <<threads, procs, next, lock, ctx>>

\* irq_schedule_next_task: save the task, resume the next one.  A new task
\* stays Uninitialized while it runs
irq_schedule_next_task ==
    LET t == Head(queue)
    IN  /\ TasksFree
        /\ queue' = rotated
        /\ IF t \in DOMAIN tasks
           THEN /\ tasks' = [tasks EXCEPT ![me].state = "Waiting",
                               ![t].state = IF @ = "Uninitialized" THEN @ ELSE "Running"]
                /\ current' = [task |-> t, tid |-> tasks[t].tid, pid |-> tasks[t].pid]
                /\ UNCHANGED cpu
           ELSE cpu' = "panicked" /\ UNCHANGED <<tasks, current>>
        /\ UNCHANGED <<threads, procs, next, lock, ctx>>

timer_irq_entry == timer_skips \/ timer_returns \/ timer_spins \/ irq_schedule_next_task

\* a CPU that spins or has panicked does so for ever
cpu_stopped == cpu # "running" /\ UNCHANGED vars

Next == (\E op \in Ops : call(op)) \/ step \/ timer_irq_entry \/ cpu_stopped

Spec == Init /\ [][Next]_vars

\* the timer keeps ticking, and a task that gets the CPU again and again gets
\* on: the period of the timer is longer than a step
FairSpec == /\ Spec
            /\ WF_vars(timer_irq_entry)
            /\ \A t \in TaskIds : SF_vars(me = t /\ step)

-----------------------------------------------------------------------------

\* The types of the registries, the queue, the counters, the locks and the
\* contexts of the calls in progress.
TypeOK ==
    /\ DOMAIN tasks \subseteq TaskIds /\ DOMAIN threads \subseteq TaskIds
    /\ DOMAIN procs \subseteq Pids
    /\ tasks \in [DOMAIN tasks -> TaskRecords]
    /\ threads \in [DOMAIN threads -> ThreadRecords]
    /\ procs \in [DOMAIN procs -> ProcessRecords]
    /\ queue \in Seq(TaskIds)
    /\ current \in [task : TaskIds, tid : TaskIds, pid : Pids]
    /\ next \in [task : 1 .. MaxTasks, tid : 1 .. MaxTasks, pid : 1 .. MaxProcs]
    /\ lock \in [Locks -> TaskIds \cup {NoOne}]
    /\ ctx \in [TaskIds -> Contexts]
    /\ cpu \in {"running", "irq_spins", "panicked"}

\* No two tasks are Running, and the one that is has the CPU: the states that
\* irq_schedule_next_task and perform_task_switch write agree with what runs.
RunningIsCurrent ==
    \A t \in DOMAIN tasks : tasks[t].state = "Running" => t = me

\* Whatever is queued or current is registered, so the handler neither panics
\* on "attempted to switch to a non-existent task" nor finds the current
\* process or thread missing: a thread is registered before it is scheduled.
NothingDangling ==
    /\ \A i \in DOMAIN queue : queue[i] \in DOMAIN tasks
    /\ \A x \in DOMAIN threads : threads[x].task \in DOMAIN tasks
    /\ current.task \in DOMAIN tasks /\ current.tid \in DOMAIN threads
    /\ current.pid \in DOMAIN procs

\* Threads and tasks stay paired one to one, however the spawns of several
\* threads interleave.
ThreadsOwnTasks ==
    \A x \in DOMAIN threads : tasks[threads[x].task].tid = x

\* The timer never takes the CPU from a thread that has NO_PREEMPT: the flag
\* that timer_irq_entry looks up is the one of the thread it interrupts.
NoPreemptThread ==
    [][(current'.task # me /\ ctx[me].pc # "switch") =>
          \A x \in DOMAIN threads : threads[x].task = me => ~threads[x].no_preempt]_vars

\* __thread_init runs on tasks that are not initialized yet, as the panic in
\* it asserts.
InitOnce == cpu # "panicked"

\* The timer handler gives a run up when it cannot have a lock; it never
\* waits for one.
TimerNeverWaits == cpu # "irq_spins"

Queued(t) == \E i \in DOMAIN queue : queue[i] = t

\* the mutex of the running thread is held by a thread that does not run
ThreadPinned == ~Free(<<"thread", current.tid>>) /\ lock[<<"thread", current.tid>>] # me

\* Round robin: a scheduled task gets the CPU, unless the kernel has stopped
\* or the mutex of the running thread keeps the handler from switching.
ScheduledRuns ==
    \A t \in TaskIds : Queued(t) ~> (me = t \/ cpu # "running" \/ ThreadPinned)

\* A skipped run of the scheduler is skipped for this time only: a scheduled
\* task gets the CPU unless the kernel has stopped.
SkippedForNow == \A t \in TaskIds : Queued(t) ~> (me = t \/ cpu # "running")

\* The spin locks are taken in an order that lets every call of a scheduled
\* thread return, under the same reservations.
CallsReturn ==
    \A t \in TaskIds : (Queued(t) /\ ctx[t].pc \notin {"run", "process_init"}) ~>
        (ctx[t].pc \in {"run", "process_init"} \/ cpu # "running" \/ ThreadPinned)

=============================================================================
