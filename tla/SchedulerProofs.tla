-------------------------- MODULE SchedulerProofs --------------------------
(***************************************************************************)
(* Proofs about Scheduler, for any number of tasks and processes and any   *)
(* queue length.  The inductive invariant IInv adds to the properties what *)
(* the steps of a call rely on: the identifiers taken from the counters    *)
(* are fresh, and what a call looked up before is still registered.        *)
(***************************************************************************)
EXTENDS Scheduler, TLAPS

\* the steps of a spawn before and after its task is registered
TaskPending   == {"stack_lock", "stack_alloc", "task_write", "task_insert"}
ThreadPending == {"task_get", "group_lock", "group_insert", "thread_write", "thread_insert"}
Spawning      == {"task_id"} \cup TaskPending \cup ThreadPending

\* Identifiers are below the counters they come from, no two calls have the
\* same one, and none is registered before its call registers it.
Fresh ==
    /\ \A t \in DOMAIN tasks : t < next.task
    /\ \A x \in DOMAIN threads : x < next.tid
    /\ \A t \in TaskIds :
         /\ ctx[t].pc \in Spawning => ctx[t].tid < next.tid /\ ctx[t].tid \notin DOMAIN threads
         /\ ctx[t].pc \in TaskPending => ctx[t].task < next.task /\ ctx[t].task \notin DOMAIN tasks
    /\ \A t, u \in TaskIds : t # u =>
         /\ (ctx[t].pc \in Spawning /\ ctx[u].pc \in Spawning) => ctx[t].tid # ctx[u].tid
         /\ (ctx[t].pc \in TaskPending /\ ctx[u].pc \in TaskPending) => ctx[t].task # ctx[u].task

\* What a call holds on to between two of its steps is registered.
ContextOK ==
    \A t \in TaskIds :
        /\ ctx[t].init \in {"run", "thread_init", "process_init"}
        /\ ctx[t].pc \in ThreadPending =>
              ctx[t].task \in DOMAIN tasks /\ tasks[ctx[t].task].tid = ctx[t].tid
        /\ ctx[t].pc = "group_insert" => ctx[t].pid \in DOMAIN procs
        /\ ctx[t].pc \in {"sched_lock", "sched_push", "thread_drop", "thread_init_match"} =>
              ctx[t].tid \in DOMAIN threads
        /\ ctx[t].pc = "switch" => ctx[t].task \in DOMAIN tasks

\* Every task belongs to the process of the kernel, and every queued task to
\* a registered thread.
QueueOK ==
    /\ KernelInit \in DOMAIN procs
    /\ \A t \in DOMAIN tasks : tasks[t].pid = KernelInit
    /\ \A i \in DOMAIN queue : tasks[queue[i]].tid \in DOMAIN threads

IInv == /\ TypeOK
        /\ RunningIsCurrent /\ NothingDangling /\ ThreadsOwnTasks
        /\ Fresh /\ ContextOK /\ QueueOK

-----------------------------------------------------------------------------

USE SchedulerAssumption DEF TaskIds, Pids, KernelInit, NoOne

\* The empty context of a task is well typed.
LEMMA ContextType ==
    ASSUME NEW pc \in Labels
    PROVE  Context(pc) \in Contexts
  BY DEF Context, Call, Contexts, Labels

\* The locks that the steps take.
LEMMA LockNames ==
    /\ Registry("SCHEDULER") \in Locks /\ Registry("STACKS") \in Locks /\ Registry("TASKS") \in Locks
    /\ Registry("THREADS") \in Locks /\ Registry("PROCESSES") \in Locks
    /\ \A t \in TaskIds : <<"task", t>> \in Locks /\ <<"thread", t>> \in Locks
    /\ \A p \in Pids : <<"process", p>> \in Locks
  BY DEF Locks, Registry

\* Taking and releasing a lock keeps the owners well typed.
LEMMA LockType ==
    ASSUME TypeOK, NEW l \in Locks, Acquire(l) \/ Release(l)
    PROVE  lock' \in [Locks -> TaskIds \cup {NoOne}]
  BY Zenon DEF TypeOK, Acquire, Release, me

\* A step of the running thread changes its own context only.
LEMMA Becomes ==
    ASSUME TypeOK, NEW c \in Contexts, Become(c)
    PROVE  /\ ctx' \in [TaskIds -> Contexts]
           /\ ctx'[me] = c
           /\ \A t \in TaskIds : t # me => ctx'[t] = ctx[t]
  BY DEF TypeOK, Become, me

\* Initially everything belongs to the initial task of the kernel.
LEMMA InitIInv == Init => IInv
<1> SUFFICES ASSUME Init PROVE IInv
  OBVIOUS
<1> USE DEF Init
<1>1. TypeOK
  <2>1. next \in [task : 1 .. MaxTasks, tid : 1 .. MaxTasks, pid : 1 .. MaxProcs]
    OBVIOUS
  <2>2. ctx \in [TaskIds -> Contexts]
    BY ContextType DEF Labels
  <2>3. tasks \in [DOMAIN tasks -> TaskRecords]
    BY DEF TaskRecords, TaskStates
  <2>4. threads \in [DOMAIN threads -> ThreadRecords]
    BY DEF ThreadRecords
  <2>5. procs \in [DOMAIN procs -> ProcessRecords]
    BY DEF ProcessRecords
  <2>6. /\ DOMAIN tasks \subseteq TaskIds /\ DOMAIN threads \subseteq TaskIds
        /\ DOMAIN procs \subseteq Pids /\ queue \in Seq(TaskIds)
        /\ current \in [task : TaskIds, tid : TaskIds, pid : Pids]
    OBVIOUS
  <2>7. lock \in [Locks -> TaskIds \cup {NoOne}]
    OBVIOUS
  <2> QED
    BY <2>1, <2>2, <2>3, <2>4, <2>5, <2>6, <2>7, Zenon DEF TypeOK
<1>2. RunningIsCurrent /\ NothingDangling /\ ThreadsOwnTasks
  BY DEF RunningIsCurrent, NothingDangling, ThreadsOwnTasks, me
<1>3. Fresh /\ ContextOK /\ QueueOK
  BY DEF Fresh, ContextOK, QueueOK, Context, Call, TaskPending, ThreadPending, Spawning
<1> QED
  BY <1>1, <1>2, <1>3 DEF IInv

\* A step that changes no registry, queue or current task keeps what is said
\* of them.
LEMMA Quiet ==
    ASSUME IInv, UNCHANGED <<registries, queue, current>>
    PROVE  RunningIsCurrent' /\ NothingDangling' /\ ThreadsOwnTasks' /\ QueueOK'
  BY DEF IInv, registries, RunningIsCurrent, NothingDangling, ThreadsOwnTasks, QueueOK, me

\* What the running thread may become in a step that registers nothing: it
\* keeps the identifiers it has or takes new ones from the counters, and what
\* it holds on to is registered.
Allowed(c) ==
    /\ c \in Contexts /\ Become(c)
    /\ next'.task >= next.task /\ next'.tid >= next.tid
    /\ c.init \in {"run", "thread_init", "process_init"}
    /\ c.pc \in Spawning => \/ ctx[me].pc \in Spawning /\ c.tid = ctx[me].tid
                            \/ c.tid = next.tid /\ next'.tid > next.tid
    /\ c.pc \in TaskPending => \/ ctx[me].pc \in TaskPending /\ c.task = ctx[me].task
                               \/ c.task = next.task /\ next'.task > next.task
    /\ c.pc \in ThreadPending => ctx[me].pc \in ThreadPending /\ c.task = ctx[me].task /\ c.tid = ctx[me].tid
    /\ c.pc = "group_insert" => c.pid \in DOMAIN procs
    /\ c.pc \in {"sched_lock", "sched_push", "thread_drop", "thread_init_match"} => c.tid \in DOMAIN threads
    /\ c.pc = "switch" => c.task \in DOMAIN tasks

\* No step but the registering ones changes more of a registry than the
\* states of tasks and the flags and threads of processes.
Kept ==
    /\ DOMAIN tasks' = DOMAIN tasks
    /\ \A t \in DOMAIN tasks : tasks'[t].tid = tasks[t].tid /\ tasks'[t].pid = tasks[t].pid
    /\ threads' = threads
    /\ DOMAIN procs \subseteq DOMAIN procs'

\* Such a step keeps Fresh and ContextOK.
LEMMA QuietContext ==
    ASSUME TypeOK, Fresh, ContextOK, NEW c, Allowed(c), TypeOK', Kept
    PROVE  Fresh' /\ ContextOK'
<1>1. /\ me \in TaskIds /\ ctx'[me] = c
      /\ \A t \in TaskIds : t # me => ctx'[t] = ctx[t]
  BY Becomes, Zenon DEF Allowed, TypeOK, me
<1>2. /\ next.task \in Int /\ next'.task \in Int /\ next.tid \in Int /\ next'.tid \in Int
      /\ next'.task >= next.task /\ next'.tid >= next.tid
  BY DEF TypeOK, Allowed
<1>3. /\ \A t \in TaskIds : ctx[t].tid \in Int /\ ctx[t].task \in Int
      /\ c.tid \in Int /\ c.task \in Int
      /\ \A t \in DOMAIN tasks : t \in Int
      /\ \A t \in DOMAIN threads : t \in Int
  <2>1. c \in Contexts /\ \A t \in TaskIds : ctx[t] \in Contexts
    BY DEF TypeOK, Allowed
  <2>2. DOMAIN tasks \subseteq TaskIds /\ DOMAIN threads \subseteq TaskIds
    BY Zenon DEF TypeOK
  <2> QED
    BY <2>1, <2>2 DEF Contexts
<1>4. Kept
  OBVIOUS
<1>5. ContextOK'
  <2>1. ASSUME NEW t \in TaskIds
        PROVE  /\ ctx'[t].init \in {"run", "thread_init", "process_init"}
               /\ ctx'[t].pc \in ThreadPending =>
                     ctx'[t].task \in DOMAIN tasks /\ tasks[ctx'[t].task].tid = ctx'[t].tid
               /\ ctx'[t].pc = "group_insert" => ctx'[t].pid \in DOMAIN procs
               /\ ctx'[t].pc \in {"sched_lock", "sched_push", "thread_drop", "thread_init_match"} =>
                     ctx'[t].tid \in DOMAIN threads
               /\ ctx'[t].pc = "switch" => ctx'[t].task \in DOMAIN tasks
    BY <1>1 DEF ContextOK, Allowed
  <2> QED
    BY <2>1, <1>4 DEF ContextOK, Kept
<1>6. Fresh'
  <2>1. /\ \A t \in DOMAIN tasks' : t < next'.task
        /\ \A x \in DOMAIN threads' : x < next'.tid
    BY <1>2, <1>3, <1>4 DEF Fresh, Kept
  <2>2. ASSUME NEW t \in TaskIds
        PROVE  /\ ctx'[t].pc \in Spawning => ctx'[t].tid < next'.tid /\ ctx'[t].tid \notin DOMAIN threads'
               /\ ctx'[t].pc \in TaskPending => ctx'[t].task < next'.task /\ ctx'[t].task \notin DOMAIN tasks'
    BY <1>1, <1>2, <1>3, <1>4 DEF Fresh, Allowed, Kept
  <2>3. ASSUME NEW t \in TaskIds, NEW u \in TaskIds, t # u
        PROVE  /\ (ctx'[t].pc \in Spawning /\ ctx'[u].pc \in Spawning) => ctx'[t].tid # ctx'[u].tid
               /\ (ctx'[t].pc \in TaskPending /\ ctx'[u].pc \in TaskPending) => ctx'[t].task # ctx'[u].task
    BY <2>3, <1>1, <1>2, <1>3 DEF Fresh, Allowed
  <2> QED
    BY <2>1, <2>2, <2>3 DEF Fresh
<1> QED
  BY <1>5, <1>6

\* A step that registers nothing and leaves the queue and the current task
\* alone keeps IInv.
LEMMA QuietStep ==
    ASSUME IInv, NEW c, Allowed(c), UNCHANGED <<registries, queue, current>>,
           lock' \in [Locks -> TaskIds \cup {NoOne}],
           next' \in [task : 1 .. MaxTasks, tid : 1 .. MaxTasks, pid : 1 .. MaxProcs],
           cpu' \in {"running", "irq_spins", "panicked"}
    PROVE  IInv'
<1>1. TypeOK'
  <2>1. ctx' \in [TaskIds -> Contexts]
    BY Becomes DEF Allowed, IInv
  <2> QED
    BY <2>1, Zenon DEF TypeOK, registries, IInv
<1>2. Fresh' /\ ContextOK'
  BY <1>1, QuietContext DEF IInv, Kept, registries
<1> QED
  BY <1>1, <1>2, Quiet DEF IInv

NextTypes == [task : 1 .. MaxTasks, tid : 1 .. MaxTasks, pid : 1 .. MaxProcs]

\* The calls: each takes its identifiers and locks, and registers nothing.
LEMMA CallIInv ==
    ASSUME IInv, NEW op \in Ops, call(op)
    PROVE  IInv'
<1>1. /\ me \in TaskIds /\ ctx[me] \in Contexts /\ ctx \in [TaskIds -> Contexts]
      /\ next \in NextTypes /\ lock \in [Locks -> TaskIds \cup {NoOne}]
      /\ cpu \in {"running", "irq_spins", "panicked"}
      /\ DOMAIN tasks \subseteq TaskIds /\ DOMAIN threads \subseteq TaskIds /\ DOMAIN procs \subseteq Pids
  BY SMTT(60) DEF IInv, TypeOK, me, NextTypes
<1>2. ctx[me].init \in {"run", "thread_init", "process_init"}
  BY <1>1 DEF IInv, ContextOK
<1>3. ASSUME NEW flag \in ProcessFlags, spawn_process(flag) PROVE IInv'
  <2> DEFINE c == Call("process_write", next.pid, 0, 0, flag, "run")
  <2>1. c \in Contexts /\ c.pc = "process_write" /\ c.init = "run"
    BY <1>1, <1>3, SMTT(60) DEF Call, Contexts, Labels, spawn_process, NextTypes
  <2>2. /\ next' \in NextTypes /\ next'.task = next.task /\ next'.tid = next.tid
        /\ UNCHANGED <<registries, queue, current, lock, cpu>>
    BY <1>1, <1>3, SMTT(60) DEF spawn_process, NextTypes
  <2>3. CASE UNCHANGED ctx
    <3>1. Become(ctx[me])
      BY <2>3, <1>1 DEF Become
    <3>2. ctx[me].pc = "run"
      BY <1>3 DEF spawn_process, At
    <3>3. Allowed(ctx[me])
      BY <3>1, <3>2, <2>2, <1>1, <1>2 DEF Allowed, Spawning, TaskPending, ThreadPending, NextTypes
    <3> QED
      BY <3>3, <2>2, <1>1, QuietStep DEF NextTypes
  <2>4. CASE Become(c)
    <3>1. Allowed(c)
      BY <2>4, <2>1, <2>2, <1>1 DEF Allowed, Spawning, TaskPending, ThreadPending, NextTypes
    <3> QED
      BY <3>1, <2>2, <1>1, QuietStep DEF NextTypes
  <2> QED
    BY <2>3, <2>4, <1>3 DEF spawn_process
<1>4. ASSUME NEW pid \in DOMAIN procs, NEW flag \in BOOLEAN, NEW init \in {"thread_init", "process_init"},
             spawn_thread(pid, flag, init)
      PROVE  IInv'
  <2> DEFINE c == Call("task_id", pid, next.tid, 0, flag, init)
  <2>1. c \in Contexts /\ c.pc = "task_id" /\ c.init = init /\ c.tid = next.tid
    BY <1>1, <1>4, SMTT(60) DEF Call, Contexts, Labels, spawn_thread, NextTypes
  <2>2. /\ next' \in NextTypes /\ next'.task = next.task /\ next'.tid = next.tid + 1
        /\ UNCHANGED <<registries, queue, current, lock, cpu>> /\ Become(c)
    BY <1>1, <1>4, SMTT(60) DEF spawn_thread, NextTypes
  <2>3. Allowed(c)
    BY <2>1, <2>2, <1>1, SMTT(60) DEF Allowed, Spawning, TaskPending, ThreadPending, NextTypes
  <2> QED
    BY <2>2, <2>3, <1>1, QuietStep DEF NextTypes
<1>5. ASSUME NEW tid \in DOMAIN threads, schedule(tid) PROVE IInv'
  <2> DEFINE c == Call("sched_lock", 0, tid, 0, FALSE, "run")
  <2>1. c \in Contexts /\ c.pc = "sched_lock" /\ c.init = "run" /\ c.tid = tid
    BY <1>1 DEF Call, Contexts, Labels
  <2>2. UNCHANGED <<registries, queue, current, next, cpu>> /\ Become(c)
    BY <1>5, Zenon DEF schedule
  <2>3. lock' \in [Locks -> TaskIds \cup {NoOne}]
    BY <1>1, <1>5, LockNames, LockType, Zenon DEF schedule, IInv
  <2>4. next'.task >= next.task /\ next'.tid >= next.tid
    BY <2>2, <1>1 DEF NextTypes
  <2>5. Allowed(c)
    BY <2>1, <2>2, <2>4, Zenon DEF Allowed, Spawning, TaskPending, ThreadPending
  <2> QED
    BY <2>2, <2>3, <2>5, <1>1, QuietStep, Zenon DEF NextTypes
<1>6. ASSUME NEW t \in DOMAIN tasks, perform_task_switch_lock(t) PROVE IInv'
  <2> DEFINE c == Call("switch", 0, 0, t, FALSE, "run")
  <2>1. c \in Contexts /\ c.pc = "switch" /\ c.init = "run" /\ c.task = t
    BY <1>1 DEF Call, Contexts, Labels
  <2>2. UNCHANGED <<registries, queue, current, next, cpu>> /\ Become(c)
    BY <1>6 DEF perform_task_switch_lock, Become
  <2>3. lock' \in [Locks -> TaskIds \cup {NoOne}]
    BY <1>1, <1>6, Zenon DEF perform_task_switch_lock
  <2>4. next'.task >= next.task /\ next'.tid >= next.tid
    BY <2>2, <1>1 DEF NextTypes
  <2>5. Allowed(c)
    BY <2>1, <2>2, <2>4, Zenon DEF Allowed, Spawning, TaskPending, ThreadPending
  <2> QED
    BY <2>2, <2>3, <2>5, <1>1, QuietStep, Zenon DEF NextTypes
<1> QED
  BY <1>3, <1>4, <1>5, <1>6, Zenon DEF call, IInv, QueueOK

\* The steps of a call that register nothing.
QuietSteps ==
    \/ spawn_process_lock \/ spawn_process_return
    \/ init_kernel_task_id \/ init_kernel_task_stack_lock \/ init_kernel_task_stack \/ init_kernel_task_lock
    \/ spawn_thread_get_task \/ spawn_thread_group_lock \/ spawn_thread_lock
    \/ schedule_lock \/ schedule_return \/ thread_init_lock \/ thread_init_match

\* The steps of a call that register nothing keep IInv.
LEMMA QuietStepsIInv ==
    ASSUME IInv, QuietSteps
    PROVE  IInv'
<1>1. /\ me \in TaskIds /\ ctx[me] \in Contexts /\ ctx \in [TaskIds -> Contexts]
      /\ next \in NextTypes /\ lock \in [Locks -> TaskIds \cup {NoOne}]
      /\ cpu \in {"running", "irq_spins", "panicked"}
      /\ DOMAIN tasks \subseteq TaskIds /\ DOMAIN threads \subseteq TaskIds /\ DOMAIN procs \subseteq Pids
      /\ current.tid \in TaskIds
  BY SMTT(60) DEF IInv, TypeOK, me, NextTypes
<1>2. /\ ctx[me].init \in {"run", "thread_init", "process_init"}
      /\ ctx[me].pc \in {"sched_lock", "sched_push", "thread_drop", "thread_init_match"} =>
            ctx[me].tid \in DOMAIN threads
  BY <1>1 DEF IInv, ContextOK
<1>3. UNCHANGED next => next'.task >= next.task /\ next'.tid >= next.tid
  BY <1>1 DEF NextTypes
<1>4. \A l \in Locks : Acquire(l) \/ Release(l) => lock' \in [Locks -> TaskIds \cup {NoOne}]
  BY LockType DEF IInv
<1>5. ASSUME NEW l \in Labels, Go(l), UNCHANGED <<registries, queue, current, next, cpu>>,
             lock' \in [Locks -> TaskIds \cup {NoOne}],
             l \in TaskPending => ctx[me].pc \in TaskPending,
             l \in ThreadPending => ctx[me].pc \in ThreadPending,
             l \notin {"task_id", "thread_drop", "thread_init_match", "switch"},
             l = "group_insert" => ctx[me].pid \in DOMAIN procs,
             l \in {"sched_lock", "sched_push"} => ctx[me].pc = "sched_lock"
      PROVE  IInv'
  <2> DEFINE c == [ctx[me] EXCEPT !.pc = l]
  <2>1. /\ c \in Contexts /\ c.pc = l /\ c.tid = ctx[me].tid /\ c.task = ctx[me].task
        /\ c.pid = ctx[me].pid /\ c.init = ctx[me].init
    BY <1>1, <1>5, Zenon DEF Contexts
  <2>2. Become(c)
    BY <1>5 DEF Go
  <2> HIDE DEF c
  <2>3. Allowed(c)
    BY <2>1, <2>2, <1>1, <1>2, <1>3, <1>5 DEF Allowed, Spawning
  <2> QED
    BY <2>3, <1>1, <1>5, QuietStep DEF NextTypes
<1>6. CASE spawn_process_lock
  BY <1>4, <1>5, <1>6, LockNames DEF spawn_process_lock, At, Labels, TaskPending, ThreadPending
<1>7. CASE init_kernel_task_stack_lock
  BY <1>4, <1>5, <1>7, LockNames DEF init_kernel_task_stack_lock, At, Labels, TaskPending, ThreadPending
<1>8. CASE init_kernel_task_stack
  BY <1>4, <1>5, <1>8, LockNames DEF init_kernel_task_stack, At, Labels, TaskPending, ThreadPending
<1>9. CASE init_kernel_task_lock
  BY <1>4, <1>5, <1>9, LockNames DEF init_kernel_task_lock, At, Labels, TaskPending, ThreadPending
<1>10. CASE spawn_thread_get_task
  BY <1>1, <1>5, <1>10 DEF spawn_thread_get_task, At, Labels, TaskPending, ThreadPending
<1>11. CASE spawn_thread_group_lock
  <2>1. <<"process", ctx[me].pid>> \in Locks
    BY <1>1, LockNames, SMTT(60) DEF Contexts
  <2> QED
    BY <2>1, <1>4, <1>5, <1>11 DEF spawn_thread_group_lock, At, Labels, TaskPending, ThreadPending
<1>12. CASE spawn_thread_lock
  BY <1>4, <1>5, <1>12, LockNames DEF spawn_thread_lock, At, Labels, TaskPending, ThreadPending
<1>13. CASE schedule_lock
  BY <1>4, <1>5, <1>13, LockNames DEF schedule_lock, At, Labels, TaskPending, ThreadPending
<1>14. ASSUME Return, lock' \in [Locks -> TaskIds \cup {NoOne}],
              cpu' \in {"running", "irq_spins", "panicked"},
              UNCHANGED <<registries, queue, current, next>>
       PROVE  IInv'
  <2>1. Context("run") \in Contexts /\ Context("run").pc = "run" /\ Context("run").init = "run"
    BY ContextType DEF Labels, Context, Call
  <2>2. Allowed(Context("run"))
    BY <2>1, <1>3, <1>14 DEF Allowed, Return, Spawning, TaskPending, ThreadPending
  <2> QED
    BY <2>2, <1>1, <1>14, QuietStep DEF NextTypes
<1>15. CASE spawn_process_return
  BY <1>1, <1>14, <1>15 DEF spawn_process_return
<1>16. CASE schedule_return \/ thread_init_match
  <2>1. <<"thread", ctx[me].tid>> \in Locks
    BY <1>1, LockNames, Zenon DEF Contexts
  <2> QED
    BY <2>1, <1>1, <1>4, <1>14, <1>16 DEF schedule_return, thread_init_match
<1>17. CASE init_kernel_task_id
  <2> DEFINE c == [ctx[me] EXCEPT !.task = next.task, !.pc = "stack_lock"]
  <2>1. /\ ctx[me].pc = "task_id" /\ next.task < MaxTasks /\ Become(c)
        /\ next' = [next EXCEPT !.task = @ + 1]
        /\ UNCHANGED <<registries, queue, current, lock, cpu>>
    BY <1>17 DEF init_kernel_task_id, At
  <2>2. /\ next' \in NextTypes /\ next'.task = next.task + 1 /\ next'.tid = next.tid
        /\ next.task \in TaskIds /\ next.tid \in Int
    BY <2>1, <1>1, SMTT(60) DEF NextTypes
  <2>3. /\ c \in Contexts /\ c.pc = "stack_lock" /\ c.tid = ctx[me].tid /\ c.task = next.task
        /\ c.init = ctx[me].init
    BY <2>2, <1>1, Zenon DEF Contexts, Labels
  <2>4. Allowed(c)
    BY <2>1, <2>2, <2>3, <1>2 DEF Allowed, Spawning, TaskPending, ThreadPending
  <2> QED
    BY <2>1, <2>2, <2>4, <1>1, QuietStep, Zenon DEF NextTypes
<1>18. CASE thread_init_lock
  <2>1. current.tid \in DOMAIN threads /\ UNCHANGED <<registries, queue, current, next, cpu>>
    BY <1>18 DEF thread_init_lock, IInv, NothingDangling
  <2> DEFINE c == [ctx[me] EXCEPT !.tid = current.tid, !.pc = "thread_init_match"]
  <2>2. Become(c) /\ Acquire(<<"thread", current.tid>>)
    BY <2>1, <1>18 DEF thread_init_lock
  <2>3. lock' \in [Locks -> TaskIds \cup {NoOne}]
    BY <2>2, <1>1, <1>4, LockNames, Zenon
  <2>4. /\ c \in Contexts /\ c.pc = "thread_init_match" /\ c.tid = current.tid /\ c.init = ctx[me].init
    BY <1>1, Zenon DEF Contexts, Labels
  <2>5. Allowed(c)
    BY <2>1, <2>2, <2>4, <1>2, <1>3 DEF Allowed, Spawning, TaskPending, ThreadPending
  <2> QED
    BY <2>1, <2>3, <2>5, <1>1, QuietStep DEF NextTypes
<1> QED
  BY <1>6, <1>7, <1>8, <1>9, <1>10, <1>11, <1>12, <1>13, <1>15, <1>16, <1>17, <1>18 DEF QuietSteps

\* Registering adds one key.
LEMMA Registers ==
    ASSUME NEW f, NEW k, NEW v
    PROVE  /\ DOMAIN Register(f, k, v) = DOMAIN f \cup {k}
           /\ Register(f, k, v)[k] = v
           /\ \A j \in DOMAIN f : j # k => Register(f, k, v)[j] = f[j]
  BY DEF Register

\* A registry keeps its type when it registers a value of that type.
LEMMA RegistersType ==
    ASSUME NEW R, NEW f, f \in [DOMAIN f -> R], NEW k, NEW v \in R
    PROVE  Register(f, k, v) \in [DOMAIN Register(f, k, v) -> R]
  BY DEF Register

\* The queue, and the task it resumes, refer to what is registered, whatever
\* the order of the queue.
Linked(q, c) ==
    /\ \A i \in DOMAIN q : q[i] \in DOMAIN tasks /\ tasks[q[i]].tid \in DOMAIN threads
    /\ c.task \in DOMAIN tasks /\ c.tid \in DOMAIN threads /\ c.pid \in DOMAIN procs

\* A step that keeps the tasks and threads apart from their states, and that
\* leaves the queue and the current task linked.
LEMMA KeptLinks ==
    ASSUME IInv, Kept, Linked(queue', current')
    PROVE  NothingDangling' /\ ThreadsOwnTasks' /\ QueueOK'
<1>1. /\ KernelInit \in DOMAIN procs /\ \A t \in DOMAIN tasks : tasks[t].pid = KernelInit
      /\ \A x \in DOMAIN threads : threads[x].task \in DOMAIN tasks /\ tasks[threads[x].task].tid = x
  BY DEF IInv, NothingDangling, ThreadsOwnTasks, QueueOK
<1> QED
  BY <1>1 DEF Kept, Linked, NothingDangling, ThreadsOwnTasks, QueueOK

\* What is linked now.
LEMMA NowLinked == IInv => Linked(queue, current)
  BY DEF IInv, Linked, NothingDangling, QueueOK

\* A step of any kind that leaves the contexts alone.
LEMMA SameContext ==
    ASSUME IInv, UNCHANGED <<ctx, next>>
    PROVE  Allowed(ctx[me])
<1>1. me \in TaskIds /\ ctx[me] \in Contexts /\ next \in NextTypes /\ ctx \in [TaskIds -> Contexts]
  BY DEF IInv, TypeOK, me, NextTypes
<1>2. Become(ctx[me]) /\ next'.task >= next.task /\ next'.tid >= next.tid
  BY <1>1 DEF Become, NextTypes
<1> QED
  BY <1>1, <1>2 DEF Allowed, IInv, ContextOK

\* The rotation of the run queue keeps its elements.
LEMMA Rotation ==
    ASSUME queue \in Seq(TaskIds), queue # <<>>
    PROVE  /\ rotated \in Seq(TaskIds) /\ Head(queue) \in TaskIds
           /\ 1 \in DOMAIN queue /\ Head(queue) = queue[1]
           /\ \A i \in DOMAIN rotated : \E j \in DOMAIN queue : rotated[i] = queue[j]
<1>1. Len(queue) \in Nat /\ Len(queue) > 0
  OBVIOUS
<1>2. Tail(queue) \in Seq(TaskIds) /\ Len(Tail(queue)) = Len(queue) - 1
      /\ \A i \in 1 .. (Len(queue) - 1) : Tail(queue)[i] = queue[i + 1]
  BY <1>1
<1>3. Head(queue) = queue[1] /\ Head(queue) \in TaskIds /\ 1 \in DOMAIN queue
  BY <1>1
<1>4. rotated \in Seq(TaskIds) /\ Len(rotated) = Len(queue)
  BY <1>1, <1>2, <1>3 DEF rotated
<1>5. ASSUME NEW i \in 1 .. Len(queue)
      PROVE  \E j \in 1 .. Len(queue) : rotated[i] = queue[j]
  <2>1. CASE i = Len(queue)
    BY <2>1, <1>1, <1>2, <1>3 DEF rotated
  <2>2. CASE i < Len(queue)
    <3>1. i \in 1 .. (Len(queue) - 1) /\ Tail(queue)[i] = queue[i + 1]
      BY <2>2, <1>1, <1>2
    <3>2. \A s \in Seq(TaskIds), e \in TaskIds : \A k \in 1 .. Len(s) : Append(s, e)[k] = s[k]
      OBVIOUS
    <3>3. rotated[i] = Tail(queue)[i]
      BY <3>1, <3>2, <1>2, <1>3 DEF rotated
    <3>4. i + 1 \in 1 .. Len(queue)
      BY <2>2, <1>1
    <3> QED
      BY <3>1, <3>3, <3>4, Zenon
  <2> QED
    BY <2>1, <2>2, <1>1
<1>6. DOMAIN rotated = 1 .. Len(queue) /\ DOMAIN queue = 1 .. Len(queue)
  BY <1>4
<1> QED
  BY <1>3, <1>4, <1>5, <1>6, Zenon

\* A step that keeps the registries in this sense, runs the queue and the
\* current task to linked ones, and is well typed, keeps IInv if it marks no
\* second task Running.
LEMMA KeptStep ==
    ASSUME IInv, Kept, Linked(queue', current'), NEW c, Allowed(c), TypeOK', RunningIsCurrent'
    PROVE  IInv'
<1>1. Fresh' /\ ContextOK'
  BY QuietContext DEF IInv
<1> QED
  BY <1>1, KeptLinks DEF IInv

\* The steps that register a process, add a thread to one, or queue a task.
LEMMA ProcessIInv ==
    ASSUME IInv, spawn_process_insert \/ spawn_thread_group_insert \/ schedule_sys_task
    PROVE  IInv'
<1>1. /\ me \in TaskIds /\ ctx[me] \in Contexts /\ ctx \in [TaskIds -> Contexts]
      /\ DOMAIN procs \subseteq Pids /\ procs \in [DOMAIN procs -> ProcessRecords]
      /\ next \in NextTypes /\ queue \in Seq(TaskIds)
  BY SMTT(60) DEF IInv, TypeOK, me, NextTypes
<1>2. UNCHANGED next => next'.task >= next.task /\ next'.tid >= next.tid
  BY <1>1 DEF NextTypes
<1>3. CASE spawn_process_insert
  <2> DEFINE v == [threads |-> {}, no_preempt |-> ctx[me].flag]
             c == [ctx[me] EXCEPT !.pc = "process_drop"]
  <2>1. v \in ProcessRecords /\ ctx[me].pid \in Pids
    BY <1>1 DEF ProcessRecords, Contexts
  <2>2. /\ procs' = Register(procs, ctx[me].pid, v) /\ Become(c)
        /\ UNCHANGED <<tasks, threads, queue, current, next, cpu>>
        /\ Release(Registry("PROCESSES"))
    BY <1>3 DEF spawn_process_insert, Go
  <2>3. DOMAIN procs' = DOMAIN procs \cup {ctx[me].pid} /\ procs' \in [DOMAIN procs' -> ProcessRecords]
    <3>1. procs' = Register(procs, ctx[me].pid, v)
      BY <2>2, Zenon
    <3> HIDE DEF v
    <3> QED
      BY <3>1, <2>1, <1>1, Registers, RegistersType, ZenonT(60)
  <2>4. c \in Contexts /\ c.pc = "process_drop" /\ c.init = ctx[me].init
    BY <1>1, Zenon DEF Contexts, Labels
  <2>5. TypeOK'
    <3>1. ctx' \in [TaskIds -> Contexts] /\ lock' \in [Locks -> TaskIds \cup {NoOne}]
      BY <2>2, <2>4, Becomes, LockNames, LockType DEF IInv
    <3> QED
      BY <3>1, <2>1, <2>2, <2>3, <1>1, Zenon DEF IInv, TypeOK
  <2>6. Allowed(c)
    <3>1. ctx[me].init \in {"run", "thread_init", "process_init"}
      BY <1>1 DEF IInv, ContextOK
    <3> QED
      BY <3>1, <2>2, <2>4, <1>2 DEF Allowed, Spawning, TaskPending, ThreadPending
  <2>7. Kept /\ RunningIsCurrent' /\ Linked(queue', current')
    BY <2>2, <2>3, NowLinked DEF Kept, IInv, RunningIsCurrent, me
  <2> QED
    BY <2>5, <2>6, <2>7, KeptStep
<1>4. CASE spawn_thread_group_insert
  <2> DEFINE c == [ctx[me] EXCEPT !.pc = "thread_write"]
  <2>1. /\ ctx[me].pc = "group_insert" /\ Become(c) /\ Release(<<"process", ctx[me].pid>>)
        /\ procs' = [procs EXCEPT ![ctx[me].pid].threads = @ \cup {ctx[me].tid}]
        /\ UNCHANGED <<tasks, threads, queue, current, next, cpu>>
    BY <1>4 DEF spawn_thread_group_insert, Go, At
  <2>2. /\ c \in Contexts /\ c.pc = "thread_write" /\ c.init = ctx[me].init
        /\ c.tid = ctx[me].tid /\ c.task = ctx[me].task
        /\ ctx[me].tid \in TaskIds /\ ctx[me].pid \in Pids
    BY <1>1, Zenon DEF Contexts, Labels
  <2>3. DOMAIN procs' = DOMAIN procs /\ procs' \in [DOMAIN procs' -> ProcessRecords]
    <3> DEFINE p == ctx[me].pid
               v == [procs[p] EXCEPT !.threads = @ \cup {ctx[me].tid}]
    <3>1. procs' = [procs EXCEPT ![p] = v] /\ p \in DOMAIN procs
      BY <2>1, <1>1 DEF IInv, ContextOK
    <3>2. procs[p] \in ProcessRecords
      BY <3>1, <1>1
    <3>3. v \in ProcessRecords
      BY <3>2, <2>2 DEF ProcessRecords
    <3> HIDE DEF p, v
    <3> QED
      BY <3>1, <3>3, <1>1
  <2>4. TypeOK'
    <3>1. ctx' \in [TaskIds -> Contexts] /\ lock' \in [Locks -> TaskIds \cup {NoOne}]
      BY <2>1, <2>2, Becomes, LockNames, LockType DEF IInv
    <3> QED
      BY <3>1, <2>1, <2>3, <1>1, Zenon DEF IInv, TypeOK
  <2>5. Allowed(c)
    <3>1. ctx[me].init \in {"run", "thread_init", "process_init"}
      BY <1>1 DEF IInv, ContextOK
    <3> QED
      BY <3>1, <2>1, <2>2, <1>2 DEF Allowed, Spawning, TaskPending, ThreadPending
  <2>6. Kept /\ RunningIsCurrent' /\ Linked(queue', current')
    BY <2>1, <2>3, NowLinked DEF Kept, IInv, RunningIsCurrent, me
  <2> QED
    BY <2>4, <2>5, <2>6, KeptStep
<1>5. CASE schedule_sys_task
  <2> DEFINE c == [ctx[me] EXCEPT !.pc = "thread_drop"]
             t == threads[ctx[me].tid].task
  <2>1. /\ ctx[me].pc = "sched_push" /\ Become(c) /\ Release(Registry("SCHEDULER"))
        /\ queue' = Append(queue, t) /\ UNCHANGED <<registries, current, next, cpu>>
    BY <1>5 DEF schedule_sys_task, Go, At
  <2>2. /\ c \in Contexts /\ c.pc = "thread_drop" /\ c.init = ctx[me].init /\ c.tid = ctx[me].tid
    BY <1>1, Zenon DEF Contexts, Labels
  <2>3. ctx[me].tid \in DOMAIN threads /\ ctx[me].init \in {"run", "thread_init", "process_init"}
    BY <2>1, <1>1 DEF IInv, ContextOK
  <2>4. t \in DOMAIN tasks /\ tasks[t].tid \in DOMAIN threads /\ t \in TaskIds
    BY <2>3, Zenon DEF IInv, NothingDangling, ThreadsOwnTasks, TypeOK
  <2>5. queue' \in Seq(TaskIds) /\ \A i \in DOMAIN queue' : queue'[i] = t \/ (i \in DOMAIN queue /\ queue'[i] = queue[i])
    <3>1. \A s \in Seq(TaskIds), e \in TaskIds :
             /\ Append(s, e) \in Seq(TaskIds)
             /\ \A i \in DOMAIN Append(s, e) : Append(s, e)[i] = e \/ (i \in DOMAIN s /\ Append(s, e)[i] = s[i])
      OBVIOUS
    <3> HIDE DEF t
    <3> QED
      BY <3>1, <2>1, <2>4, <1>1, ZenonT(60)
  <2>6. Linked(queue', current')
    <3>1. Linked(queue, current)
      BY NowLinked
    <3> HIDE DEF t, c
    <3> QED
      BY <3>1, <2>1, <2>4, <2>5, Zenon DEF Linked
  <2>7. TypeOK'
    <3>1. ctx' \in [TaskIds -> Contexts] /\ lock' \in [Locks -> TaskIds \cup {NoOne}]
      BY <2>1, <2>2, Becomes, LockNames, LockType DEF IInv
    <3> QED
      BY <3>1, <2>1, <2>5, Zenon DEF IInv, TypeOK, registries
  <2>8. Allowed(c)
    BY <2>1, <2>2, <2>3, <1>2 DEF Allowed, Spawning, TaskPending, ThreadPending
  <2>9. Kept /\ RunningIsCurrent'
    BY <2>1 DEF Kept, IInv, RunningIsCurrent, me, registries
  <2> QED
    BY <2>6, <2>7, <2>8, <2>9, KeptStep
<1> QED
  BY <1>3, <1>4, <1>5

\* The task of the thread that spawns another is registered, so the identifier
\* of the new task is not its own.
LEMMA TaskInsertIInv ==
    ASSUME IInv, init_kernel_task_insert
    PROVE  IInv'
<1> DEFINE c == ctx[me]
           v == [pid |-> KernelInit, tid |-> c.tid, state |-> "Uninitialized"]
           d == [c EXCEPT !.pc = "task_get"]
<1>1. /\ me \in TaskIds /\ c \in Contexts /\ ctx \in [TaskIds -> Contexts]
      /\ next \in NextTypes /\ tasks \in [DOMAIN tasks -> TaskRecords]
      /\ DOMAIN tasks \subseteq TaskIds /\ DOMAIN threads \subseteq TaskIds
  BY SMTT(60) DEF IInv, TypeOK, me, NextTypes
<1>2. /\ c.pc = "task_insert" /\ Release(Registry("TASKS")) /\ tasks' = Register(tasks, c.task, v)
      /\ ctx' = [ctx EXCEPT ![me] = d, ![c.task] = Context(c.init)]
      /\ UNCHANGED <<threads, procs, queue, current, next, cpu>>
  BY DEF init_kernel_task_insert, At
<1>3. /\ c.task \in TaskIds /\ c.tid \in TaskIds /\ d \in Contexts /\ v \in TaskRecords
      /\ d.pc = "task_get" /\ d.tid = c.tid /\ d.task = c.task /\ d.init = c.init
  <2>1. c.task \in TaskIds /\ c.tid \in TaskIds
    BY <1>1 DEF Contexts
  <2>2. d \in Contexts /\ d.pc = "task_get" /\ d.tid = c.tid /\ d.task = c.task /\ d.init = c.init
    BY <1>1, SMTT(60) DEF Contexts, Labels
  <2>3. v \in TaskRecords
    BY <2>1 DEF TaskRecords, TaskStates
  <2> QED
    BY <2>1, <2>2, <2>3
<1>4. /\ c.task \notin DOMAIN tasks /\ c.task < next.task
      /\ c.tid < next.tid /\ c.tid \notin DOMAIN threads
      /\ c.init \in {"run", "thread_init", "process_init"}
  <2>1. c.pc \in TaskPending /\ c.pc \in Spawning
    BY <1>2 DEF TaskPending, Spawning
  <2>2. Fresh /\ ContextOK
    BY DEF IInv
  <2> QED
    BY <2>1, <2>2, <1>1 DEF Fresh, ContextOK
<1>5. c.task # me
  BY <1>4 DEF IInv, NothingDangling, me
<1>6. /\ DOMAIN tasks' = DOMAIN tasks \cup {c.task} /\ tasks'[c.task] = v
      /\ \A t \in DOMAIN tasks : tasks'[t] = tasks[t]
      /\ tasks' \in [DOMAIN tasks' -> TaskRecords]
  <2> HIDE DEF c, d, v
  <2>1. tasks' = Register(tasks, c.task, v)
    BY <1>2, Zenon
  <2>2. tasks' \in [DOMAIN tasks' -> TaskRecords]
    BY <1>1, <1>2, <1>3, RegistersType, Zenon
  <2> QED
    BY <2>1, <2>2, <1>4 DEF Register
<1>7. Context(c.init) \in Contexts /\ Context(c.init).pc = c.init /\ Context(c.init).init = "run"
  BY <1>4, ContextType, Zenon DEF Labels, Context, Call
<1>8. /\ ctx' \in [TaskIds -> Contexts] /\ ctx'[me] = d /\ ctx'[c.task] = Context(c.init)
      /\ \A t \in TaskIds : t # me /\ t # c.task => ctx'[t] = ctx[t]
  <2> HIDE DEF c, d, v
  <2> QED
    BY <1>1, <1>2, <1>3, <1>5, <1>7, Zenon
<1> HIDE DEF c, d, v
<1>9. TypeOK'
  <2>1. lock' \in [Locks -> TaskIds \cup {NoOne}]
    BY <1>2, LockNames, LockType DEF IInv
  <2> QED
    BY <2>1, <1>1, <1>2, <1>3, <1>6, <1>8, ZenonT(60) DEF IInv, TypeOK
<1>10. v.tid = c.tid /\ v.pid = KernelInit /\ v.state = "Uninitialized"
  BY DEF v
<1>11. RunningIsCurrent' /\ NothingDangling' /\ ThreadsOwnTasks' /\ QueueOK'
  BY <1>2, <1>4, <1>6, <1>10 DEF IInv, RunningIsCurrent, NothingDangling, ThreadsOwnTasks, QueueOK, me
<1>12. ContextOK'
  <2>1. ASSUME NEW t \in TaskIds
        PROVE  /\ ctx'[t].init \in {"run", "thread_init", "process_init"}
               /\ ctx'[t].pc \in ThreadPending =>
                     ctx'[t].task \in DOMAIN tasks' /\ tasks'[ctx'[t].task].tid = ctx'[t].tid
               /\ ctx'[t].pc = "group_insert" => ctx'[t].pid \in DOMAIN procs
               /\ ctx'[t].pc \in {"sched_lock", "sched_push", "thread_drop", "thread_init_match"} =>
                     ctx'[t].tid \in DOMAIN threads
               /\ ctx'[t].pc = "switch" => ctx'[t].task \in DOMAIN tasks'
    <3>1. CASE t = me
      BY <3>1, <1>3, <1>4, <1>6, <1>8, <1>10
    <3>2. CASE t = c.task
      BY <3>2, <1>4, <1>7, <1>8 DEF ThreadPending
    <3>3. CASE t # me /\ t # c.task
      BY <3>3, <1>6, <1>8 DEF IInv, ContextOK
    <3> QED
      BY <3>1, <3>2, <3>3
  <2> QED
    BY <2>1, <1>2, Zenon DEF ContextOK
<1>13. Fresh'
  <2>1. \A t \in DOMAIN tasks' : t < next'.task
    BY <1>2, <1>4, <1>6 DEF IInv, Fresh
  <2>2. \A x \in DOMAIN threads' : x < next'.tid
    BY <1>2 DEF IInv, Fresh
  <2>3. ASSUME NEW t \in TaskIds, ctx'[t].pc \in Spawning
        PROVE  /\ ctx[t].pc \in Spawning /\ ctx'[t].tid = ctx[t].tid
               /\ ctx'[t].pc \in TaskPending => ctx'[t] = ctx[t] /\ t # me
    BY <2>3, <1>2, <1>3, <1>4, <1>7, <1>8 DEF Spawning, TaskPending, ThreadPending, c
  <2>4. TaskPending \subseteq Spawning /\ c.pc \in TaskPending
    BY <1>2 DEF Spawning, TaskPending
  <2>5. ASSUME NEW t \in TaskIds
        PROVE  /\ ctx'[t].pc \in Spawning => ctx'[t].tid < next'.tid /\ ctx'[t].tid \notin DOMAIN threads'
               /\ ctx'[t].pc \in TaskPending => ctx'[t].task < next'.task /\ ctx'[t].task \notin DOMAIN tasks'
    BY <2>3, <2>4, <1>1, <1>2, <1>6, SMTT(60) DEF IInv, Fresh, c
  <2>6. ASSUME NEW t \in TaskIds, NEW u \in TaskIds, t # u
        PROVE  /\ (ctx'[t].pc \in Spawning /\ ctx'[u].pc \in Spawning) => ctx'[t].tid # ctx'[u].tid
               /\ (ctx'[t].pc \in TaskPending /\ ctx'[u].pc \in TaskPending) => ctx'[t].task # ctx'[u].task
    BY <2>3, <2>4, <2>6 DEF IInv, Fresh
  <2> QED
    BY <2>1, <2>2, <2>5, <2>6 DEF Fresh
<1> QED
  BY <1>9, <1>11, <1>12, <1>13 DEF IInv

\* The thread is registered under the identifier that its task carries.
LEMMA ThreadInsertIInv ==
    ASSUME IInv, spawn_thread_insert
    PROVE  IInv'
<1> DEFINE c == ctx[me]
           v == [task |-> c.task, no_preempt |-> c.flag]
           d == Context("run")
<1>1. /\ me \in TaskIds /\ c \in Contexts /\ ctx \in [TaskIds -> Contexts]
      /\ next \in NextTypes /\ threads \in [DOMAIN threads -> ThreadRecords]
      /\ DOMAIN tasks \subseteq TaskIds /\ DOMAIN threads \subseteq TaskIds
  BY SMTT(60) DEF IInv, TypeOK, me, NextTypes
<1>2. /\ c.pc = "thread_insert" /\ Release(Registry("THREADS")) /\ Become(d)
      /\ threads' = Register(threads, c.tid, v)
      /\ UNCHANGED <<tasks, procs, queue, current, next, cpu>>
  BY DEF spawn_thread_insert, At, Return
<1>3. c.task \in TaskIds /\ c.tid \in TaskIds /\ v \in ThreadRecords /\ v.task = c.task
  BY <1>1 DEF Contexts, ThreadRecords
<1>4. /\ c.tid \notin DOMAIN threads /\ c.tid < next.tid
      /\ c.task \in DOMAIN tasks /\ tasks[c.task].tid = c.tid
  <2>1. c.pc \in ThreadPending /\ c.pc \in Spawning
    BY <1>2 DEF ThreadPending, Spawning
  <2>2. Fresh /\ ContextOK
    BY DEF IInv
  <2> QED
    BY <2>1, <2>2, <1>1 DEF Fresh, ContextOK
<1>5. /\ DOMAIN threads' = DOMAIN threads \cup {c.tid} /\ threads'[c.tid] = v
      /\ \A x \in DOMAIN threads : threads'[x] = threads[x]
      /\ threads' \in [DOMAIN threads' -> ThreadRecords]
  <2> HIDE DEF c, d, v
  <2>1. /\ DOMAIN threads' = DOMAIN threads \cup {c.tid} /\ threads'[c.tid] = v
        /\ \A j \in DOMAIN threads : j # c.tid => threads'[j] = threads[j]
    <3>1. threads' = Register(threads, c.tid, v)
      BY <1>2
    <3> QED
      BY <3>1 DEF Register
  <2>2. threads' \in [DOMAIN threads' -> ThreadRecords]
    BY <1>1, <1>2, <1>3, RegistersType, Zenon
  <2> QED
    BY <2>1, <2>2, <1>4, Zenon
<1>6. d \in Contexts /\ d.pc = "run" /\ d.init = "run"
  BY ContextType DEF Labels, Context, Call
<1>7. /\ ctx' \in [TaskIds -> Contexts] /\ ctx'[me] = d
      /\ \A t \in TaskIds : t # me => ctx'[t] = ctx[t]
  BY <1>2, <1>6, Becomes DEF IInv
<1> HIDE DEF c, d, v
<1>8. TypeOK'
  <2>1. lock' \in [Locks -> TaskIds \cup {NoOne}]
    BY <1>2, LockNames, LockType DEF IInv
  <2> QED
    BY <2>1, <1>1, <1>2, <1>3, <1>5, <1>7, ZenonT(60) DEF IInv, TypeOK
<1>9. RunningIsCurrent' /\ NothingDangling' /\ ThreadsOwnTasks' /\ QueueOK'
  BY <1>2, <1>3, <1>4, <1>5, SMTT(60) DEF IInv, RunningIsCurrent, NothingDangling, ThreadsOwnTasks, QueueOK, me
<1>10. ContextOK'
  BY <1>2, <1>5, <1>6, <1>7, SMTT(60) DEF IInv, ContextOK, ThreadPending
<1>11. Fresh'
  <2>1. /\ \A t \in DOMAIN tasks' : t < next'.task
        /\ \A x \in DOMAIN threads' : x < next'.tid
    BY <1>2, <1>4, <1>5 DEF IInv, Fresh
  <2>2. ASSUME NEW t \in TaskIds, ctx'[t].pc \in Spawning
        PROVE  t # me /\ ctx'[t] = ctx[t]
    BY <2>2, <1>6, <1>7 DEF Spawning, TaskPending, ThreadPending
  <2>3. TaskPending \subseteq Spawning /\ c.pc \in Spawning
    BY <1>2 DEF Spawning, ThreadPending
  <2>4. ASSUME NEW t \in TaskIds
        PROVE  /\ ctx'[t].pc \in Spawning => ctx'[t].tid < next'.tid /\ ctx'[t].tid \notin DOMAIN threads'
               /\ ctx'[t].pc \in TaskPending => ctx'[t].task < next'.task /\ ctx'[t].task \notin DOMAIN tasks'
    BY <2>2, <2>3, <1>1, <1>2, <1>5, SMTT(60) DEF IInv, Fresh, c
  <2>5. ASSUME NEW t \in TaskIds, NEW u \in TaskIds, t # u
        PROVE  /\ (ctx'[t].pc \in Spawning /\ ctx'[u].pc \in Spawning) => ctx'[t].tid # ctx'[u].tid
               /\ (ctx'[t].pc \in TaskPending /\ ctx'[u].pc \in TaskPending) => ctx'[t].task # ctx'[u].task
    BY <2>2, <2>3, <2>5 DEF IInv, Fresh
  <2> QED
    BY <2>1, <2>4, <2>5 DEF Fresh
<1> QED
  BY <1>8, <1>9, <1>10, <1>11 DEF IInv

\* Changing the states of two tasks keeps the rest of the registry, and at
\* most the second is Running if the first was the one that ran.
LEMMA SwitchTasks ==
    ASSUME IInv, NEW t \in DOMAIN tasks, NEW s \in TaskStates,
           tasks' = [tasks EXCEPT ![me].state = "Waiting", ![t].state = s]
    PROVE  /\ DOMAIN tasks' = DOMAIN tasks /\ tasks' \in [DOMAIN tasks' -> TaskRecords]
           /\ \A u \in DOMAIN tasks : tasks'[u].tid = tasks[u].tid /\ tasks'[u].pid = tasks[u].pid
           /\ \A u \in DOMAIN tasks : tasks'[u].state = "Running" => u = t
<1>1. /\ me \in DOMAIN tasks /\ tasks \in [DOMAIN tasks -> TaskRecords]
      /\ \A u \in DOMAIN tasks : u # me => tasks[u].state # "Running"
  BY SMTT(60) DEF IInv, TypeOK, NothingDangling, RunningIsCurrent, me
<1> DEFINE v == [tasks[me] EXCEPT !.state = "Waiting"]
           w == IF me = t THEN v ELSE tasks[t]
<1>2. tasks[me] \in TaskRecords /\ tasks[t] \in TaskRecords
  BY <1>1
<1>3. /\ v \in TaskRecords /\ v.tid = tasks[me].tid /\ v.pid = tasks[me].pid /\ v.state = "Waiting"
      /\ w \in TaskRecords /\ w.tid = tasks[t].tid /\ w.pid = tasks[t].pid
  BY <1>2 DEF TaskRecords, TaskStates
<1> DEFINE x == [w EXCEPT !.state = s]
<1>4. /\ DOMAIN tasks' = DOMAIN tasks /\ (me # t => tasks'[me] = v) /\ tasks'[t] = x
      /\ \A u \in DOMAIN tasks : u # me /\ u # t => tasks'[u] = tasks[u]
  BY <1>1
<1>5. x \in TaskRecords /\ x.tid = tasks[t].tid /\ x.pid = tasks[t].pid
  <2> HIDE DEF w
  <2> QED
    BY <1>3 DEF TaskRecords
<1>6. tasks' = [u \in DOMAIN tasks |-> tasks'[u]]
  BY Zenon
<1> HIDE DEF v, w, x
<1>7. \A u \in DOMAIN tasks : tasks'[u] \in TaskRecords
  BY <1>1, <1>3, <1>4, <1>5
<1>8. tasks' \in [DOMAIN tasks' -> TaskRecords]
  BY <1>4, <1>6, <1>7, SMTT(60)
<1> QED
  BY <1>1, <1>3, <1>4, <1>8, <1>5

\* task_switch! keeps the current thread and process, right or not.
LEMMA SwitchIInv ==
    ASSUME IInv, perform_task_switch
    PROVE  IInv'
<1> DEFINE t == ctx[me].task
<1>1. /\ me \in TaskIds /\ ctx[me] \in Contexts /\ next \in NextTypes
      /\ current \in [task : TaskIds, tid : TaskIds, pid : Pids] /\ DOMAIN tasks \subseteq TaskIds
      /\ lock \in [Locks -> TaskIds \cup {NoOne}]
  BY SMTT(60) DEF IInv, TypeOK, me, NextTypes
<1>2. /\ ctx[me].pc = "switch" /\ Become(Context("run"))
      /\ tasks' = [tasks EXCEPT ![me].state = "Waiting", ![t].state = "Running"]
      /\ current' = [current EXCEPT !.task = t]
      /\ lock' = [lock EXCEPT ![<<"task", me>>] = NoOne, ![<<"task", t>>] = NoOne]
      /\ UNCHANGED <<threads, procs, queue, next, cpu>>
  BY DEF perform_task_switch, At, Return
<1>3. t \in DOMAIN tasks
  BY <1>1, <1>2 DEF IInv, ContextOK
<1>4. /\ DOMAIN tasks' = DOMAIN tasks /\ tasks' \in [DOMAIN tasks' -> TaskRecords]
      /\ \A u \in DOMAIN tasks : tasks'[u].tid = tasks[u].tid /\ tasks'[u].pid = tasks[u].pid
      /\ \A u \in DOMAIN tasks : tasks'[u].state = "Running" => u = t
  BY <1>2, <1>3, SwitchTasks, Zenon DEF TaskStates
<1>5. current' \in [task : TaskIds, tid : TaskIds, pid : Pids] /\ current'.task = t
      /\ current'.tid = current.tid /\ current'.pid = current.pid
  BY <1>1, <1>2, <1>3
<1>6. Context("run") \in Contexts /\ Context("run").pc = "run" /\ Context("run").init = "run"
  BY ContextType DEF Labels, Context, Call
<1>7. Allowed(Context("run"))
  BY <1>1, <1>2, <1>6 DEF Allowed, Spawning, TaskPending, ThreadPending, NextTypes
<1>8. lock' \in [Locks -> TaskIds \cup {NoOne}]
  BY <1>1, <1>2, Zenon
<1> HIDE DEF t
<1>9. TypeOK'
  <2>1. ctx' \in [TaskIds -> Contexts]
    BY <1>2, <1>6, Becomes DEF IInv
  <2> QED
    BY <2>1, <1>2, <1>4, <1>5, <1>8, Zenon DEF IInv, TypeOK
<1>10. RunningIsCurrent'
  BY <1>4, <1>5 DEF RunningIsCurrent, me
<1>11. Linked(queue', current')
  BY <1>2, <1>3, <1>5, NowLinked DEF Linked
<1> QED
  BY <1>2, <1>4, <1>7, <1>9, <1>10, <1>11, KeptStep, SMTT(60) DEF Kept

\* The handler rotates the queue, and resumes only a task whose thread and
\* process are registered.
LEMMA TimerIInv ==
    ASSUME IInv, timer_irq_entry
    PROVE  IInv'
<1>1. /\ me \in TaskIds /\ queue \in Seq(TaskIds) /\ DOMAIN tasks \subseteq TaskIds
      /\ DOMAIN threads \subseteq TaskIds /\ DOMAIN procs \subseteq Pids
  BY SMTT(60) DEF IInv, TypeOK, me
<1>2. ASSUME UNCHANGED <<registries, current, next, lock, ctx>>, queue' \in Seq(TaskIds),
             cpu' \in {"running", "irq_spins", "panicked"}, Linked(queue', current')
      PROVE  IInv'
  <2>1. TypeOK'
    BY <1>2, Zenon DEF IInv, TypeOK, registries
  <2>2. RunningIsCurrent' /\ Kept
    BY <1>2, Zenon DEF IInv, RunningIsCurrent, me, registries, Kept
  <2>3. Allowed(ctx[me])
    BY <1>2, SameContext
  <2> QED
    BY <2>1, <2>2, <2>3, <1>2, KeptStep
<1>3. ASSUME queue # <<>>
      PROVE  /\ rotated \in Seq(TaskIds) /\ Linked(rotated, current)
             /\ Head(queue) \in DOMAIN tasks /\ tasks[Head(queue)].tid \in DOMAIN threads
  <2>1. /\ rotated \in Seq(TaskIds) /\ 1 \in DOMAIN queue /\ Head(queue) = queue[1]
        /\ \A i \in DOMAIN rotated : \E j \in DOMAIN queue : rotated[i] = queue[j]
    BY <1>1, <1>3, Rotation
  <2>2. Linked(queue, current)
    BY NowLinked
  <2> QED
    BY <2>1, <2>2, Zenon DEF Linked
<1>4. CASE timer_skips
  <2>1. UNCHANGED vars
    BY <1>4 DEF timer_skips
  <2> QED
    BY <2>1, <1>1, <1>2, NowLinked, Zenon DEF vars, registries, IInv, TypeOK
<1>5. CASE timer_returns
  <2>1. queue # <<>> /\ queue' = rotated /\ UNCHANGED <<registries, current, next, lock, ctx, cpu>>
    BY <1>5 DEF timer_returns, Rotates
  <2>2. cpu' \in {"running", "irq_spins", "panicked"} /\ current' = current
    BY <2>1 DEF IInv, TypeOK
  <2>3. Linked(queue', current')
    BY <2>1, <2>2, <1>3
  <2> QED
    BY <2>1, <2>2, <2>3, <1>2, <1>3
<1>6. CASE timer_spins
  <2>1. /\ UNCHANGED queue \/ (queue # <<>> /\ queue' = rotated)
        /\ cpu' = "irq_spins" /\ UNCHANGED <<registries, current, next, lock, ctx>>
    BY <1>6 DEF timer_spins, Switches, Rotates
  <2>2. queue' \in Seq(TaskIds) /\ Linked(queue', current')
    BY <2>1, <1>1, <1>3, NowLinked
  <2> QED
    BY <2>1, <2>2, <1>2
<1>7. CASE irq_schedule_next_task
  <2> DEFINE t == Head(queue)
             s == IF tasks[t].state = "Uninitialized" THEN tasks[t].state ELSE "Running"
  <2>1. /\ queue # <<>> /\ t # me /\ queue' = rotated
        /\ UNCHANGED <<threads, procs, next, lock, ctx>>
    BY <1>7 DEF irq_schedule_next_task, TasksFree, Switches, Rotates
  <2>2. rotated \in Seq(TaskIds) /\ Linked(rotated, current) /\ t \in DOMAIN tasks /\ tasks[t].tid \in DOMAIN threads
    BY <2>1, <1>3
  <2>3. /\ tasks' = [tasks EXCEPT ![me].state = "Waiting", ![t].state = s]
        /\ current' = [task |-> t, tid |-> tasks[t].tid, pid |-> tasks[t].pid] /\ UNCHANGED cpu
    BY <1>7, <2>1, <2>2, Zenon DEF irq_schedule_next_task
  <2>4. s \in TaskStates
    BY DEF TaskStates
  <2>5. tasks[t].pid = KernelInit /\ KernelInit \in DOMAIN procs
    BY <2>2 DEF IInv, QueueOK
  <2> HIDE DEF t, s
  <2>6. /\ DOMAIN tasks' = DOMAIN tasks /\ tasks' \in [DOMAIN tasks' -> TaskRecords]
        /\ \A u \in DOMAIN tasks : tasks'[u].tid = tasks[u].tid /\ tasks'[u].pid = tasks[u].pid
        /\ \A u \in DOMAIN tasks : tasks'[u].state = "Running" => u = t
    BY <2>1, <2>2, <2>3, <2>4, SwitchTasks, Zenon
  <2>7. /\ current' \in [task : TaskIds, tid : TaskIds, pid : Pids] /\ current'.task = t
        /\ current'.tid \in DOMAIN threads /\ current'.pid \in DOMAIN procs
    BY <2>2, <2>3, <2>5, <1>1
  <2>8. TypeOK'
    BY <2>1, <2>2, <2>3, <2>6, <2>7, Zenon DEF IInv, TypeOK
  <2>9. RunningIsCurrent' /\ Linked(queue', current') /\ Kept
    BY <2>1, <2>2, <2>6, <2>7 DEF RunningIsCurrent, me, Linked, Kept
  <2>10. Allowed(ctx[me])
    BY <2>1, SameContext
  <2> QED
    BY <2>8, <2>9, <2>10, KeptStep
<1> QED
  BY <1>4, <1>5, <1>6, <1>7 DEF timer_irq_entry

-----------------------------------------------------------------------------
(* The theorems.                                                           *)

\* IInv is inductive: every step of a call, every tick and every stutter
\* keeps it.
LEMMA NextIInv == IInv /\ [Next]_vars => IInv'
<1> SUFFICES ASSUME IInv, [Next]_vars PROVE IInv'
  OBVIOUS
<1>1. ASSUME NEW op \in Ops, call(op) PROVE IInv'
  BY <1>1, CallIInv
<1>2. CASE step
  BY <1>2, QuietStepsIInv, ProcessIInv, TaskInsertIInv, ThreadInsertIInv, SwitchIInv DEF step, QuietSteps
<1>3. CASE timer_irq_entry
  BY <1>3, TimerIInv
<1>4. CASE UNCHANGED vars
  <2>1. TypeOK'
    BY <1>4, Zenon DEF vars, IInv, TypeOK
  <2>2. RunningIsCurrent' /\ NothingDangling' /\ ThreadsOwnTasks'
    BY <1>4 DEF vars, IInv, RunningIsCurrent, NothingDangling, ThreadsOwnTasks, me
  <2>3. Fresh'
    BY <1>4 DEF vars, IInv, Fresh
  <2>4. ContextOK' /\ QueueOK'
    BY <1>4 DEF vars, IInv, ContextOK, QueueOK
  <2> QED
    BY <2>1, <2>2, <2>3, <2>4 DEF IInv
<1> QED
  BY <1>1, <1>2, <1>3, <1>4 DEF Next, cpu_stopped

\* IInv holds in every state of every behaviour.
LEMMA Invariance == Spec => []IInv
  BY InitIInv, NextIInv, PTL DEF Spec

\* For any number of tasks, processes and queue slots, the registries, the
\* queue, the counters and the contexts of the calls keep their types: no
\* identifier taken from an atomic counter leaves its range.
THEOREM TypeCorrect == Spec => []TypeOK
<1>1. IInv => TypeOK
  BY DEF IInv
<1> QED
  BY <1>1, Invariance, PTL

\* For any number of tasks, only the task that has the CPU is marked Running
\* by irq_schedule_next_task and perform_task_switch.
THEOREM OneRunning == Spec => []RunningIsCurrent
<1>1. IInv => RunningIsCurrent
  BY DEF IInv
<1> QED
  BY <1>1, Invariance, PTL

\* For any number of tasks and processes, whatever the interleaving of spawns,
\* schedules, switches and ticks, the queue and the current identifiers refer
\* to registered objects: the handler never switches to a non-existent task.
THEOREM Registered == Spec => []NothingDangling
<1>1. IInv => NothingDangling
  BY DEF IInv
<1> QED
  BY <1>1, Invariance, PTL

\* For any number of threads, concurrent spawn_thread calls never cross the
\* task of one with the thread of another.
THEOREM Paired == Spec => []ThreadsOwnTasks
<1>1. IInv => ThreadsOwnTasks
  BY DEF IInv
<1> QED
  BY <1>1, Invariance, PTL

\* Where task_switch! is not used, CURRENT_THREAD_ID is the thread of the
\* running task.
InOrder ==
    /\ current.tid = tasks[me].tid
    /\ \A t \in TaskIds : ctx[t].pc # "switch"

\* A step of a call that leaves the current task alone keeps InOrder.
LEMMA StaysInOrder ==
    ASSUME IInv, InOrder, UNCHANGED current, me \in DOMAIN tasks', tasks'[me].tid = tasks[me].tid,
           NEW c, Become(c), c.pc # "switch"
    PROVE  InOrder'
<1>1. ctx \in [TaskIds -> Contexts]
  BY DEF IInv, TypeOK
<1>2. \A t \in TaskIds : ctx'[t].pc # "switch"
  BY <1>1 DEF InOrder, Become
<1> QED
  BY <1>2 DEF InOrder, me

\* Where task_switch! is not used, every step and tick keeps InOrder.
LEMMA NextInOrder ==
    ASSUME "switch" \notin Ops, IInv, IInv', InOrder, [Next]_vars
    PROVE  InOrder'
<1>1. /\ ctx \in [TaskIds -> Contexts] /\ me \in TaskIds /\ me \in DOMAIN tasks
      /\ ctx[me] \in Contexts /\ ctx[me].pc # "switch" /\ \A t \in TaskIds : ctx[t].pc # "switch"
      /\ \A t \in DOMAIN tasks : tasks[t] \in TaskRecords
  BY Zenon DEF IInv, TypeOK, NothingDangling, me, InOrder
<1>2. Context("run").pc = "run"
  BY DEF Context, Call
<1>3. ASSUME NEW l, l # "switch", Go(l), UNCHANGED <<tasks, current>> PROVE InOrder'
  <2>1. [ctx[me] EXCEPT !.pc = l].pc = l
    BY <1>1 DEF Contexts
  <2> QED
    BY <2>1, <1>1, <1>3, StaysInOrder, Zenon DEF Go
<1>4. ASSUME Return, UNCHANGED <<tasks, current>> PROVE InOrder'
  BY <1>1, <1>2, <1>4, StaysInOrder DEF Return
<1>5. ASSUME UNCHANGED <<tasks, current, ctx>> PROVE InOrder'
  BY <1>5 DEF InOrder, me
<1>6. ASSUME NEW op \in Ops, call(op) PROVE InOrder'
  <2>1. op # "switch"
    OBVIOUS
  <2>2. ASSUME NEW flag \in ProcessFlags, spawn_process(flag) PROVE InOrder'
    <3>1. Call("process_write", next.pid, 0, 0, flag, "run").pc = "process_write"
      BY DEF Call
    <3>2. UNCHANGED <<tasks, current>>
      BY <2>2 DEF spawn_process, registries
    <3> QED
      BY <3>1, <3>2, <2>2, <1>1, <1>5, StaysInOrder DEF spawn_process
  <2>3. ASSUME NEW pid \in DOMAIN procs, NEW flag \in BOOLEAN, NEW init, spawn_thread(pid, flag, init)
        PROVE  InOrder'
    <3>1. Call("task_id", pid, next.tid, 0, flag, init).pc = "task_id"
      BY DEF Call
    <3>2. UNCHANGED <<tasks, current>>
      BY <2>3 DEF spawn_thread, registries
    <3> QED
      BY <3>1, <3>2, <2>3, <1>1, StaysInOrder DEF spawn_thread
  <2>4. ASSUME NEW tid \in DOMAIN threads, schedule(tid) PROVE InOrder'
    <3>1. Call("sched_lock", 0, tid, 0, FALSE, "run").pc = "sched_lock"
      BY DEF Call
    <3>2. UNCHANGED <<tasks, current>>
      BY <2>4 DEF schedule, registries
    <3> QED
      BY <3>1, <3>2, <2>4, <1>1, StaysInOrder, Zenon DEF schedule
  <2> QED
    BY <2>1, <2>2, <2>3, <2>4, <1>6, Zenon DEF call, IInv, QueueOK
<1>7. CASE \/ spawn_process_lock \/ spawn_process_insert \/ init_kernel_task_stack_lock
           \/ init_kernel_task_stack \/ init_kernel_task_lock
           \/ spawn_thread_get_task \/ spawn_thread_group_lock
           \/ spawn_thread_group_insert \/ spawn_thread_lock \/ schedule_lock \/ schedule_sys_task
  BY <1>3, <1>7 DEF spawn_process_lock, spawn_process_insert, init_kernel_task_stack_lock, init_kernel_task_stack,
                    init_kernel_task_lock, spawn_thread_get_task, spawn_thread_group_lock, registries,
                    spawn_thread_group_insert, spawn_thread_lock, schedule_lock, schedule_sys_task
<1>8. CASE spawn_process_return \/ spawn_thread_insert \/ schedule_return \/ thread_init_match
  BY <1>4, <1>8 DEF spawn_process_return, spawn_thread_insert, schedule_return, thread_init_match, registries
<1>9. CASE init_kernel_task_id
  <2>1. [ctx[me] EXCEPT !.task = next.task, !.pc = "stack_lock"].pc = "stack_lock"
    BY <1>1 DEF Contexts
  <2> QED
    BY <2>1, <1>1, <1>9, StaysInOrder, Zenon DEF init_kernel_task_id, registries
<1>10. CASE thread_init_lock
  <2>1. [ctx[me] EXCEPT !.tid = current.tid, !.pc = "thread_init_match"].pc = "thread_init_match"
    BY <1>1 DEF Contexts
  <2> QED
    BY <2>1, <1>1, <1>5, <1>10, StaysInOrder, Zenon DEF thread_init_lock, registries
<1>11. CASE init_kernel_task_insert
  <2> DEFINE c == ctx[me]
             d == [c EXCEPT !.pc = "task_get"]
             v == [pid |-> KernelInit, tid |-> c.tid, state |-> "Uninitialized"]
  <2>1. /\ c.pc = "task_insert" /\ ctx' = [ctx EXCEPT ![me] = d, ![c.task] = Context(c.init)]
        /\ tasks' = Register(tasks, c.task, v) /\ current' = current
    BY <1>11 DEF init_kernel_task_insert, At
  <2>2. d.pc = "task_get" /\ Context(c.init).pc # "switch"
    BY <1>1, Zenon DEF Contexts, Context, Call, IInv, ContextOK
  <2>3. c.task \notin DOMAIN tasks
    BY <2>1, <1>1 DEF IInv, Fresh, TaskPending
  <2> HIDE DEF c, d, v
  <2>4. \A t \in TaskIds : ctx'[t].pc # "switch"
    BY <2>1, <2>2, <1>1
  <2>5. tasks'[me] = tasks[me]
    BY <2>1, <2>3, <1>1 DEF Register
  <2> QED
    BY <2>1, <2>4, <2>5, Zenon DEF InOrder, me
<1>12. CASE timer_irq_entry
  <2>1. CASE timer_skips \/ timer_returns \/ timer_spins
    BY <2>1, <1>5 DEF timer_skips, timer_returns, timer_spins, vars, registries
  <2>2. CASE irq_schedule_next_task
    <3> DEFINE t == Head(queue)
    <3>1. UNCHANGED ctx
      BY <2>2 DEF irq_schedule_next_task
    <3>2. CASE UNCHANGED <<tasks, current>>
      BY <3>1, <3>2, <1>5
    <3>3. CASE /\ t \in DOMAIN tasks
               /\ tasks' = [tasks EXCEPT ![me].state = "Waiting",
                              ![t].state = IF @ = "Uninitialized" THEN @ ELSE "Running"]
               /\ current' = [task |-> t, tid |-> tasks[t].tid, pid |-> tasks[t].pid]
      <4>1. tasks'[t].tid = tasks[t].tid
        BY <3>3, <1>1 DEF TaskRecords
      <4>2. current'.task = t /\ current'.tid = tasks[t].tid
        BY <3>3
      <4> QED
        BY <4>1, <4>2, <3>1, <1>1 DEF InOrder, me
    <3> QED
      BY <3>2, <3>3, <2>2 DEF irq_schedule_next_task
  <2> QED
    BY <2>1, <2>2, <1>12 DEF timer_irq_entry
<1>13. CASE UNCHANGED vars
  BY <1>13, <1>5 DEF vars
<1>14. ~perform_task_switch
  BY <1>1 DEF perform_task_switch, At
<1> QED
  BY <1>6, <1>7, <1>8, <1>9, <1>10, <1>11, <1>12, <1>13, <1>14 DEF Next, step, cpu_stopped

\* The CPU changes hands only in a tick that has read the flags of the thread.
LEMMA CurrentMoves ==
    ASSUME IInv, InOrder, Next, current' # current
    PROVE  ThreadAllows
<1>1. ctx[me].pc # "switch"
  BY DEF IInv, TypeOK, InOrder, me
<1>2. ~perform_task_switch
  BY <1>1 DEF perform_task_switch, At
<1>3. ASSUME NEW op \in Ops, call(op) PROVE current' = current
  BY <1>3, Zenon DEF call, spawn_process, spawn_thread, schedule, perform_task_switch_lock
<1>4. ~step
  BY <1>2 DEF step, spawn_process_lock, spawn_process_insert, spawn_process_return, init_kernel_task_id,
       init_kernel_task_stack_lock, init_kernel_task_stack, init_kernel_task_lock, init_kernel_task_insert,
       spawn_thread_get_task, spawn_thread_group_lock, spawn_thread_group_insert, spawn_thread_lock,
       spawn_thread_insert, schedule_lock, schedule_sys_task, schedule_return, thread_init_lock, thread_init_match
<1>5. irq_schedule_next_task
  BY <1>3, <1>4 DEF Next, timer_irq_entry, timer_skips, timer_returns, timer_spins, cpu_stopped, vars
<1> QED
  BY <1>5 DEF irq_schedule_next_task, TasksFree, Switches, Rotates

\* If no thread uses task_switch!, the timer never takes the CPU from a thread
\* created with NO_PREEMPT, for any number of threads: the thread whose flag
\* timer_irq_entry reads is the one it interrupts.
THEOREM FlagHonoured == ("switch" \notin Ops) => (Spec => NoPreemptThread)
<1> SUFFICES ASSUME "switch" \notin Ops PROVE Spec => NoPreemptThread
  OBVIOUS
<1>1. Init => InOrder
  BY SMTT(60) DEF Init, InOrder, me, Context, Call
<1>2. IInv /\ IInv' /\ InOrder /\ [Next]_vars => InOrder'
  BY NextInOrder
<1>3. IInv /\ InOrder /\ [Next]_vars =>
        [(current'.task # me /\ ctx[me].pc # "switch") =>
            \A x \in DOMAIN threads : threads[x].task = me => ~threads[x].no_preempt]_vars
  <2> SUFFICES ASSUME IInv, InOrder, Next, current'.task # me,
                      NEW x \in DOMAIN threads, threads[x].task = me
               PROVE  ~threads[x].no_preempt
    OBVIOUS
  <2>1. x = current.tid
    BY DEF IInv, ThreadsOwnTasks, InOrder
  <2>2. ThreadAllows
    BY CurrentMoves DEF me
  <2> QED
    BY <2>1, <2>2 DEF ThreadAllows
<1> QED
  BY <1>1, <1>2, <1>3, Invariance, PTL DEF Spec, NoPreemptThread

=============================================================================
