------------------------------- MODULE Thread -------------------------------
(***************************************************************************)
(* Kernel threads and their scheduler: thread.c, the clock handler of      *)
(* timer.c, the interrupt flag of interrupt.c and the part of process.c    *)
(* that creates and activates processes.                                   *)
(*                                                                         *)
(* One CPU: everything is done by running_thread(), the variable current.  *)
(* Between two actions of the running thread an interrupt may come when    *)
(* the interrupt flag is set.  A handler runs with interrupts disabled and *)
(* is therefore one action.                                                *)
(***************************************************************************)
EXTENDS List

CONSTANTS
  Threads,      \* task_structs, created and not yet created
  Main,         \* main_thread, the one that is running when thread_init is called
  Procs,        \* the threads that process_execute creates: pgdir # NULL
  Priority,     \* the priority given to each thread when it is created
  NULL

ASSUME ThreadAssumption ==
  /\ Main \in Threads
  /\ Procs \subseteq Threads \ {Main}
  /\ NULL \notin Threads
  /\ Priority \in [Threads -> 0..255]

VARIABLES
  current,            \* running_thread(): whose kernel stack esp is in
  status,             \* task_struct.status, TASK_NONE before the thread is created
  ticks,              \* task_struct.ticks
  thread_ready_list,
  thread_all_list,
  intr,               \* the interrupt flag IF of the CPU
  eflags,             \* for a thread off the CPU: IF once it is resumed
  cr3,                \* the page directory in use, NULL for the kernel's own
  esp0,               \* the thread whose kernel stack tss.esp0 names
  panic               \* panic_spin has been entered

threadVars == <<current, status, ticks, thread_ready_list, thread_all_list,
                intr, eflags, cr3, esp0, panic>>

BlockedStatus == {"TASK_BLOCKED", "TASK_WAITING", "TASK_HANGING"}

Status == {"TASK_NONE", "TASK_RUNNING", "TASK_READY"} \cup BlockedStatus

pgdir(t) == IF t \in Procs THEN t ELSE NULL

-----------------------------------------------------------------------------
(* Operators the actions are made of, and beside some of them a faulty     *)
(* variant, named ..._fault_..., that no action uses.                      *)

(* A failed ASSERT or a PANIC: interrupts off, then spin for ever.  What   *)
(* the interrupted function had already written is not kept.               *)
panic_spin ==
  /\ panic' = TRUE
  /\ intr' = FALSE
  /\ UNCHANGED <<current, status, ticks, thread_ready_list, thread_all_list,
                 eflags, cr3, esp0>>

process_activate_fault_kernel_dir(next) ==
  /\ cr3' = IF next \in Procs THEN next ELSE cr3
  /\ esp0' = IF next \in Procs THEN next ELSE esp0

process_activate(next) ==
  /\ cr3' = pgdir(next)
  /\ esp0' = IF next \in Procs THEN next ELSE esp0

(* The stack of the running thread is left with the flag it will have when *)
(* it is resumed, and next continues with the one it was left with.        *)
switch_to(next, saved) ==
  /\ current' = next
  /\ eflags' = [eflags EXCEPT ![current] = saved]
  /\ intr' = eflags'[next]

(* Only a thread that is preempted gets a new time slice; one that blocks  *)
(* keeps what is left of its slice.                                        *)
time_slice_fault_blocked_too(preempted) ==
  ticks' = [ticks EXCEPT ![current] = Priority[current]]

time_slice(preempted) ==
  ticks' = IF preempted THEN [ticks EXCEPT ![current] = Priority[current]]
                        ELSE ticks

(* schedule(): st is the status table its caller leaves, saved the flag    *)
(* the caller restores once the thread is switched back to.                *)
schedule(st, saved) ==
  LET preempted == st[current] = "TASK_RUNNING"
      ready == IF preempted THEN list_append(thread_ready_list, current)
                            ELSE thread_ready_list
      next  == list_pop(ready)
      off   == IF preempted THEN [st EXCEPT ![current] = "TASK_READY"] ELSE st
  IN IF \/ preempted /\ elem_find(thread_ready_list, current)
        \/ list_empty(ready)
     THEN panic_spin
     ELSE /\ thread_ready_list' = list_popped(ready)
          /\ time_slice(preempted)
          /\ status' = [off EXCEPT ![next] = "TASK_RUNNING"]
          /\ process_activate(next)
          /\ switch_to(next, saved)
          /\ UNCHANGED <<thread_all_list, panic>>

(* init_thread, thread_create and the two list_appends.  A new thread is   *)
(* resumed in kernel_thread, which enables interrupts first.               *)
enlist(u) ==
  IF elem_find(thread_ready_list, u) \/ elem_find(thread_all_list, u)
  THEN panic_spin
  ELSE /\ status' = [status EXCEPT ![u] = "TASK_READY"]
       /\ ticks' = [ticks EXCEPT ![u] = Priority[u]]
       /\ eflags' = [eflags EXCEPT ![u] = TRUE]
       /\ thread_ready_list' = list_append(thread_ready_list, u)
       /\ thread_all_list' = list_append(thread_all_list, u)
       /\ UNCHANGED <<current, intr, cr3, esp0, panic>>

-----------------------------------------------------------------------------
(* Operations.  Each is called by the running thread.                      *)

(* thread_start links the new thread with interrupts as its caller has     *)
(* them; its caller, main, has them disabled.                              *)
thread_start(u) ==
  /\ ~panic
  /\ ~intr
  /\ u \notin Procs
  /\ status[u] = "TASK_NONE"
  /\ enlist(u)

(* process_execute disables interrupts itself while it links the process.  *)
process_execute(u) ==
  /\ ~panic
  /\ u \in Procs
  /\ status[u] = "TASK_NONE"
  /\ enlist(u)

intr_enable ==
  /\ ~panic
  /\ ~intr
  /\ intr' = TRUE
  /\ UNCHANGED <<current, status, ticks, thread_ready_list, thread_all_list,
                 eflags, cr3, esp0, panic>>

(* The main thread only enables interrupts, once, and then spins.          *)
intr_disable ==
  /\ ~panic
  /\ intr
  /\ current # Main
  /\ intr' = FALSE
  /\ UNCHANGED <<current, status, ticks, thread_ready_list, thread_all_list,
                 eflags, cr3, esp0, panic>>

(* thread_block(s): saved is the flag thread_block restores when it        *)
(* returns: the caller's, or off when the caller has disabled interrupts   *)
(* just before the call, as sema_dowm does.  The main thread never blocks. *)
thread_block(s, saved) ==
  /\ ~panic
  /\ current # Main
  /\ saved => intr
  /\ IF s \notin BlockedStatus
     THEN panic_spin
     ELSE schedule([status EXCEPT ![current] = s], saved)

thread_unblock_fault_append_twice(u) ==
  /\ ~panic
  /\ thread_ready_list' = list_push(list_append(thread_ready_list, u), u)
  /\ status' = [status EXCEPT ![u] = "TASK_READY"]
  /\ UNCHANGED <<current, ticks, thread_all_list, intr, eflags, cr3, esp0, panic>>

thread_unblock(u) ==
  /\ ~panic
  /\ IF status[u] \notin BlockedStatus \/ elem_find(thread_ready_list, u)
     THEN panic_spin
     ELSE /\ thread_ready_list' = list_push(thread_ready_list, u)
          /\ status' = [status EXCEPT ![u] = "TASK_READY"]
          /\ UNCHANGED <<current, ticks, thread_all_list, intr, eflags,
                         cr3, esp0, panic>>

(* IRQ 0.  The interrupted thread is resumed by iret, with IF set.         *)
clock_interrupt_handler ==
  /\ ~panic
  /\ intr
  /\ IF ticks[current] = 0
     THEN schedule(status, TRUE)
     ELSE /\ ticks' = [ticks EXCEPT ![current] = @ - 1]
          /\ UNCHANGED <<current, status, thread_ready_list, thread_all_list,
                         intr, eflags, cr3, esp0, panic>>

-----------------------------------------------------------------------------
(* The state thread_init leaves: the main thread is running, interrupts    *)
(* are still off.                                                          *)
ThreadInit ==
  /\ current = Main
  /\ status = [t \in Threads |-> IF t = Main THEN "TASK_RUNNING" ELSE "TASK_NONE"]
  /\ ticks = [t \in Threads |-> IF t = Main THEN Priority[t] ELSE 0]
  /\ thread_ready_list = list_init
  /\ thread_all_list = list_append(list_init, Main)
  /\ intr = FALSE
  /\ eflags = [t \in Threads |-> FALSE]
  /\ cr3 = NULL
  /\ esp0 = NULL
  /\ panic = FALSE

(* Callers of thread_unblock name a thread that is blocked; that the       *)
(* kernel's callers do is shown in the modules that contain them.          *)
ThreadNext ==
  \/ \E u \in Threads : thread_start(u)
  \/ \E u \in Threads : process_execute(u)
  \/ intr_enable
  \/ intr_disable
  \/ \E s \in BlockedStatus, saved \in BOOLEAN : thread_block(s, saved)
  \/ \E u \in Threads : status[u] \in BlockedStatus /\ thread_unblock(u)
  \/ clock_interrupt_handler

ThreadSafe == ThreadInit /\ [][ThreadNext]_threadVars

(* The timer interrupts again and again and the 8259A keeps a request that *)
(* arrives while IF is clear, so the clock handler runs if IF is set again *)
(* and again.  Every intr_disable of the kernel is followed by the         *)
(* intr_set_status that restores the flag.                                 *)
ThreadFairness ==
  /\ SF_threadVars(clock_interrupt_handler)
  /\ \A t \in Threads : SF_threadVars(current = t /\ intr_enable)

ThreadSpec == ThreadSafe /\ ThreadFairness

-----------------------------------------------------------------------------
(* Properties *)

(* Every variable has its type. *)
ThreadTypeOK ==
  /\ current \in Threads
  /\ status \in [Threads -> Status]
  /\ ticks \in [Threads -> 0..255]
  /\ thread_ready_list \in Seq(Threads)
  /\ thread_all_list \in Seq(Threads)
  /\ intr \in BOOLEAN
  /\ eflags \in [Threads -> BOOLEAN]
  /\ cr3 \in Procs \cup {NULL}
  /\ esp0 \in Procs \cup {NULL}
  /\ panic \in BOOLEAN

(* Exactly the thread whose stack the CPU uses is TASK_RUNNING: no path    *)
(* through schedule leaves two running threads or runs a blocked one.      *)
OneRunning == \A t \in Threads : status[t] = "TASK_RUNNING" <=> t = current

(* The ready list holds the TASK_READY threads, each linked once, so that  *)
(* neither a preemption nor a wake-up can lose or duplicate a thread.      *)
ReadyListed ==
  /\ NoDuplicates(thread_ready_list)
  /\ \A t \in Threads : elem_find(thread_ready_list, t) <=> status[t] = "TASK_READY"

(* thread_all_list holds the created threads, each once. *)
AllListed ==
  /\ NoDuplicates(thread_all_list)
  /\ \A t \in Threads : elem_find(thread_all_list, t) <=> status[t] # "TASK_NONE"

(* The main thread can always run: with no idle thread, this alone keeps   *)
(* the ready list from being empty when the running thread blocks.         *)
MainRunnable == status[Main] \in {"TASK_RUNNING", "TASK_READY"}

(* The CPU uses the page directory of the running thread, and for a        *)
(* process tss.esp0 is the top of its own kernel stack.                    *)
ContextActive ==
  /\ cr3 = pgdir(current)
  /\ current \in Procs => esp0 = current

(* No ASSERT or PANIC of the scheduler fires. *)
NoPanic == ~panic

(* The inductive invariant. *)
SchedInv ==
  /\ ThreadTypeOK
  /\ OneRunning
  /\ ReadyListed
  /\ AllListed
  /\ MainRunnable
  /\ ContextActive
  /\ NoPanic

(* Two threads that stay ready keep their order: a wake-up may put a       *)
(* thread in front of both, but no operation reorders those that wait.     *)
Before(l, a, b) == \E i, j \in 1..Len(l) : i < j /\ l[i] = a /\ l[j] = b

ReadyOrderKept ==
  [][\A a, b \in Threads :
       /\ Before(thread_ready_list, a, b)
       /\ elem_find(thread_ready_list', a)
       /\ elem_find(thread_ready_list', b)
       => Before(thread_ready_list', a, b)]_threadVars

(* A ready thread eventually runs, although thread_unblock puts woken      *)
(* threads in front of it: a thread that blocks does not get a new slice,  *)
(* so threads that keep waking each other use up theirs and go to the end. *)
ReadyRuns == \A t \in Threads : status[t] = "TASK_READY" ~> current = t
=============================================================================
