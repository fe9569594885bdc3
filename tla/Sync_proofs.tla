---------------------------- MODULE Sync_proofs ----------------------------
(***************************************************************************)
(* The scheduler and the locks, for any number of threads, processes and   *)
(* locks and any priorities.  SchedInv is an inductive invariant of the    *)
(* scheduler.  The locks of sync.c exclude each other, lose no wake-up and *)
(* trip no assertion; every step of a thread that uses locks is a step of  *)
(* the scheduler's specification, so that SchedInv is inherited.           *)
(***************************************************************************)
EXTENDS Sync, List_proofs

-----------------------------------------------------------------------------
(* The scheduler, thread.c. *)

(* The switch at the end of schedule: off is the status table once the     *)
(* outgoing thread is off the CPU, ready the list the next thread is       *)
(* popped from.                                                            *)
LEMMA SwitchInv ==
  ASSUME SchedInv,
         NEW ready \in Seq(Threads), NoDuplicates(ready), ~ list_empty(ready),
         NEW off \in [Threads -> Status], NEW saved \in BOOLEAN,
         NEW preempted \in BOOLEAN,
         \A t \in Threads : elem_find(ready, t) <=> off[t] = "TASK_READY",
         \A t \in Threads : off[t] # "TASK_RUNNING",
         \A t \in Threads : off[t] = "TASK_NONE" <=> status[t] = "TASK_NONE",
         off[Main] = "TASK_READY",
         thread_ready_list' = list_popped(ready),
         time_slice(preempted),
         status' = [off EXCEPT ![list_pop(ready)] = "TASK_RUNNING"],
         process_activate(list_pop(ready)),
         switch_to(list_pop(ready), saved),
         UNCHANGED <<thread_all_list, panic>>
  PROVE  SchedInv'
<1> DEFINE next == list_pop(ready)
<1> USE ThreadAssumption
<1>1. /\ next \in Threads
      /\ elem_find(ready, next)
      /\ list_popped(ready) \in Seq(Threads)
      /\ NoDuplicates(list_popped(ready))
      /\ \A x : elem_find(list_popped(ready), x) <=> elem_find(ready, x) /\ x # next
  BY PopElems
<1>2. off[next] = "TASK_READY"
  BY <1>1
<1> HIDE DEF next
<1>3. \A t \in Threads : status'[t] = IF t = next THEN "TASK_RUNNING" ELSE off[t]
  BY <1>1 DEF next
<1>4. current' = next
  BY DEF switch_to, next
<1>5. ThreadTypeOK'
  <2>1. ticks' \in [Threads -> 0..255]
    BY DEF time_slice, SchedInv, ThreadTypeOK
  <2>2. status' \in [Threads -> Status]
    BY <1>1 DEF Status, next
  <2>3. /\ eflags' \in [Threads -> BOOLEAN]
        /\ intr' \in BOOLEAN
    BY <1>1 DEF switch_to, SchedInv, ThreadTypeOK, next
  <2>4. cr3' \in Procs \cup {NULL} /\ esp0' \in Procs \cup {NULL}
    BY <1>1 DEF process_activate, pgdir, SchedInv, ThreadTypeOK, next
  <2> QED
    BY <2>1, <2>2, <2>3, <2>4, <1>1, <1>4 DEF SchedInv, ThreadTypeOK
<1>6. OneRunning'
  BY <1>3, <1>4 DEF OneRunning
<1>7. ReadyListed'
  BY <1>1, <1>3 DEF ReadyListed
<1>8. AllListed'
  BY <1>1, <1>2, <1>3 DEF AllListed, SchedInv
<1>9. MainRunnable'
  BY <1>3 DEF MainRunnable
<1>10. ContextActive'
  BY <1>4 DEF ContextActive, process_activate, pgdir, next
<1> QED
  BY <1>5, <1>6, <1>7, <1>8, <1>9, <1>10 DEF SchedInv, NoPanic

(* schedule called by the clock handler: the running thread is preempted   *)
(* and none of the assertions fires.                                       *)
LEMMA SchedulePreempt ==
  ASSUME SchedInv, NEW saved \in BOOLEAN, schedule(status, saved)
  PROVE  SchedInv'
<1> USE ThreadAssumption
<1> DEFINE ready == list_append(thread_ready_list, current)
           off == [status EXCEPT ![current] = "TASK_READY"]
<1>1. /\ status[current] = "TASK_RUNNING"
      /\ current \in Threads
      /\ thread_ready_list \in Seq(Threads)
      /\ status \in [Threads -> Status]
  BY DEF SchedInv, ThreadTypeOK, OneRunning
<1>2. ~ elem_find(thread_ready_list, current)
  BY <1>1 DEF SchedInv, ReadyListed
<1>3. /\ ready \in Seq(Threads)
      /\ NoDuplicates(ready)
      /\ ~ list_empty(ready)
      /\ \A x : elem_find(ready, x) <=> elem_find(thread_ready_list, x) \/ x = current
  <2>1. NoDuplicates(thread_ready_list)
    BY DEF SchedInv, ReadyListed
  <2> QED
    BY <1>1, <1>2, <2>1, AppendElems
<1>4. /\ thread_ready_list' = list_popped(ready)
      /\ time_slice(TRUE)
      /\ status' = [off EXCEPT ![list_pop(ready)] = "TASK_RUNNING"]
      /\ process_activate(list_pop(ready))
      /\ switch_to(list_pop(ready), saved)
      /\ UNCHANGED <<thread_all_list, panic>>
  BY <1>1, <1>2, <1>3 DEF schedule
<1>5. /\ off \in [Threads -> Status]
      /\ \A t \in Threads : elem_find(ready, t) <=> off[t] = "TASK_READY"
      /\ \A t \in Threads : off[t] # "TASK_RUNNING"
      /\ \A t \in Threads : off[t] = "TASK_NONE" <=> status[t] = "TASK_NONE"
      /\ off[Main] = "TASK_READY"
  BY <1>1, <1>3 DEF SchedInv, OneRunning, ReadyListed, MainRunnable, Status
<1> HIDE DEF ready, off
<1> QED
  BY <1>3, <1>4, <1>5, SwitchInv

(* schedule called by thread_block: the main thread is ready, so that the  *)
(* list is not empty.                                                      *)
LEMMA ScheduleBlock ==
  ASSUME SchedInv, NEW saved \in BOOLEAN, NEW s \in BlockedStatus,
         current # Main, schedule([status EXCEPT ![current] = s], saved)
  PROVE  SchedInv'
<1> USE ThreadAssumption
<1> DEFINE off == [status EXCEPT ![current] = s]
<1>1. /\ status[current] = "TASK_RUNNING"
      /\ current \in Threads
      /\ thread_ready_list \in Seq(Threads)
      /\ NoDuplicates(thread_ready_list)
      /\ status \in [Threads -> Status]
      /\ status[Main] = "TASK_READY"
  BY DEF SchedInv, ThreadTypeOK, OneRunning, MainRunnable, ReadyListed
<1>2. ~ list_empty(thread_ready_list)
  <2>1. elem_find(thread_ready_list, Main)
    BY <1>1 DEF SchedInv, ReadyListed
  <2> QED
    BY <1>1, <2>1, EmptyList
<1>3. off[current] = s /\ s # "TASK_RUNNING"
  BY <1>1 DEF BlockedStatus
<1>4. /\ thread_ready_list' = list_popped(thread_ready_list)
      /\ time_slice(FALSE)
      /\ status' = [off EXCEPT ![list_pop(thread_ready_list)] = "TASK_RUNNING"]
      /\ process_activate(list_pop(thread_ready_list))
      /\ switch_to(list_pop(thread_ready_list), saved)
      /\ UNCHANGED <<thread_all_list, panic>>
  BY <1>2, <1>3 DEF schedule
<1>5. /\ off \in [Threads -> Status]
      /\ \A t \in Threads : elem_find(thread_ready_list, t) <=> off[t] = "TASK_READY"
      /\ \A t \in Threads : off[t] # "TASK_RUNNING"
      /\ \A t \in Threads : off[t] = "TASK_NONE" <=> status[t] = "TASK_NONE"
      /\ off[Main] = "TASK_READY"
  BY <1>1 DEF SchedInv, OneRunning, ReadyListed, Status, BlockedStatus
<1> HIDE DEF off
<1> QED
  BY <1>1, <1>2, <1>4, <1>5, SwitchInv

(* Linking a thread that does not exist yet: the assertions of             *)
(* thread_start and process_execute hold.                                  *)
LEMMA EnlistInv ==
  ASSUME SchedInv, NEW u \in Threads, status[u] = "TASK_NONE", enlist(u)
  PROVE  SchedInv'
<1> USE ThreadAssumption
<1>1. /\ thread_ready_list \in Seq(Threads)
      /\ thread_all_list \in Seq(Threads)
      /\ NoDuplicates(thread_ready_list)
      /\ NoDuplicates(thread_all_list)
      /\ status \in [Threads -> Status]
      /\ u # current
  BY DEF SchedInv, ThreadTypeOK, ReadyListed, AllListed, OneRunning
<1>2. ~ elem_find(thread_ready_list, u) /\ ~ elem_find(thread_all_list, u)
  BY DEF SchedInv, ReadyListed, AllListed
<1>3. /\ thread_ready_list' \in Seq(Threads)
      /\ thread_all_list' \in Seq(Threads)
      /\ NoDuplicates(thread_ready_list')
      /\ NoDuplicates(thread_all_list')
      /\ \A x : elem_find(thread_ready_list', x) <=> elem_find(thread_ready_list, x) \/ x = u
      /\ \A x : elem_find(thread_all_list', x) <=> elem_find(thread_all_list, x) \/ x = u
  <2>1. /\ thread_ready_list' = list_append(thread_ready_list, u)
        /\ thread_all_list' = list_append(thread_all_list, u)
    BY <1>2 DEF enlist
  <2> DEFINE ready == list_append(thread_ready_list, u)
             all == list_append(thread_all_list, u)
  <2>2. /\ ready \in Seq(Threads)
        /\ NoDuplicates(ready)
        /\ \A x : elem_find(ready, x) <=> elem_find(thread_ready_list, x) \/ x = u
    BY <1>1, <1>2, AppendElems
  <2>3. /\ all \in Seq(Threads)
        /\ NoDuplicates(all)
        /\ \A x : elem_find(all, x) <=> elem_find(thread_all_list, x) \/ x = u
    BY <1>1, <1>2, AppendElems
  <2> QED
    BY <2>1, <2>2, <2>3
<1>4. \A t \in Threads : status'[t] = IF t = u THEN "TASK_READY" ELSE status[t]
  BY <1>1, <1>2 DEF enlist
<1>5. UNCHANGED <<current, intr, cr3, esp0, panic>>
  BY <1>2 DEF enlist
<1>6. ThreadTypeOK'
  <2>1. /\ status' \in [Threads -> Status]
        /\ ticks' \in [Threads -> 0..255]
        /\ eflags' \in [Threads -> BOOLEAN]
    BY <1>2, ZenonT(60) DEF enlist, SchedInv, ThreadTypeOK, Status
  <2> QED
    BY <2>1, <1>3, <1>5 DEF SchedInv, ThreadTypeOK
<1>7. OneRunning'
  BY <1>1, <1>4, <1>5 DEF SchedInv, OneRunning
<1>8. ReadyListed'
  BY <1>3, <1>4 DEF SchedInv, ReadyListed
<1>9. AllListed'
  BY <1>3, <1>4 DEF SchedInv, AllListed
<1>10. MainRunnable' /\ ContextActive' /\ NoPanic'
  BY <1>4, <1>5 DEF SchedInv, MainRunnable, ContextActive, NoPanic, pgdir
<1> QED
  BY <1>6, <1>7, <1>8, <1>9, <1>10 DEF SchedInv

(* Waking a blocked thread. *)
LEMMA UnblockInv ==
  ASSUME SchedInv, NEW u \in Threads, status[u] \in BlockedStatus, thread_unblock(u)
  PROVE  SchedInv'
<1> USE ThreadAssumption
<1>1. /\ thread_ready_list \in Seq(Threads)
      /\ NoDuplicates(thread_ready_list)
      /\ status \in [Threads -> Status]
      /\ u # current
  BY DEF SchedInv, ThreadTypeOK, ReadyListed, OneRunning, BlockedStatus
<1>2. ~ elem_find(thread_ready_list, u) /\ status[u] # "TASK_NONE"
  BY DEF SchedInv, ReadyListed, BlockedStatus
<1>3. /\ thread_ready_list' = list_push(thread_ready_list, u)
      /\ status' = [status EXCEPT ![u] = "TASK_READY"]
      /\ UNCHANGED <<current, ticks, thread_all_list, intr, eflags, cr3, esp0, panic>>
  BY <1>2 DEF thread_unblock
<1>4. /\ thread_ready_list' \in Seq(Threads)
      /\ NoDuplicates(thread_ready_list')
      /\ \A x : elem_find(thread_ready_list', x) <=> elem_find(thread_ready_list, x) \/ x = u
  BY <1>1, <1>2, <1>3, PushElems
<1>5. \A t \in Threads : status'[t] = IF t = u THEN "TASK_READY" ELSE status[t]
  BY <1>1, <1>3
<1>6. ThreadTypeOK'
  BY <1>3, <1>4 DEF SchedInv, ThreadTypeOK, Status
<1>7. OneRunning'
  BY <1>1, <1>5, <1>3 DEF SchedInv, OneRunning
<1>8. ReadyListed'
  BY <1>4, <1>5 DEF SchedInv, ReadyListed
<1>9. AllListed'
  BY <1>2, <1>3, <1>5 DEF SchedInv, AllListed
<1>10. MainRunnable' /\ ContextActive' /\ NoPanic'
  BY <1>3, <1>5 DEF SchedInv, MainRunnable, ContextActive, NoPanic, pgdir
<1> QED
  BY <1>6, <1>7, <1>8, <1>9, <1>10 DEF SchedInv

(* A step that touches neither the lists, the statuses nor the CPU's       *)
(* context keeps the invariant.                                            *)
LEMMA FrameInv ==
  ASSUME SchedInv,
         UNCHANGED <<current, status, thread_ready_list, thread_all_list,
                     eflags, cr3, esp0, panic>>,
         intr' \in BOOLEAN, ticks' \in [Threads -> 0..255]
  PROVE  SchedInv'
BY DEF SchedInv, ThreadTypeOK, OneRunning, ReadyListed, AllListed,
       MainRunnable, ContextActive, NoPanic, pgdir

(* Every step of the scheduler keeps the invariant. *)
LEMMA ThreadStep ==
  ASSUME SchedInv, [ThreadNext]_threadVars
  PROVE  SchedInv'
<1> USE ThreadAssumption
<1>1. ASSUME NEW u \in Threads, thread_start(u)
      PROVE  SchedInv'
  BY <1>1, EnlistInv DEF thread_start
<1>2. ASSUME NEW u \in Threads, process_execute(u)
      PROVE  SchedInv'
  BY <1>2, EnlistInv DEF process_execute
<1>3. CASE intr_enable
  BY <1>3, FrameInv DEF intr_enable, SchedInv, ThreadTypeOK
<1>4. CASE intr_disable
  BY <1>4, FrameInv DEF intr_disable, SchedInv, ThreadTypeOK
<1>5. ASSUME NEW s \in BlockedStatus, NEW saved \in BOOLEAN, thread_block(s, saved)
      PROVE  SchedInv'
  BY <1>5, ScheduleBlock DEF thread_block
<1>6. ASSUME NEW u \in Threads, status[u] \in BlockedStatus, thread_unblock(u)
      PROVE  SchedInv'
  BY <1>6, UnblockInv
<1>7. CASE clock_interrupt_handler
  <2>1. CASE ticks[current] = 0
    BY <1>7, <2>1, SchedulePreempt DEF clock_interrupt_handler
  <2>2. CASE ticks[current] # 0
    <3>1. ticks' \in [Threads -> 0..255]
      <4>1. ticks \in [Threads -> 0..255] /\ current \in Threads
        BY DEF SchedInv, ThreadTypeOK
      <4>2. ticks[current] - 1 \in 0..255
        BY <4>1, <2>2
      <4>3. ticks' = [ticks EXCEPT ![current] = ticks[current] - 1]
        BY <1>7, <2>2 DEF clock_interrupt_handler
      <4> QED
        BY <4>1, <4>2, <4>3
    <3>2. UNCHANGED <<current, status, thread_ready_list, thread_all_list,
                      intr, eflags, cr3, esp0, panic>>
      BY <1>7, <2>2 DEF clock_interrupt_handler
    <3> QED
      BY <3>1, <3>2, FrameInv DEF SchedInv, ThreadTypeOK
  <2> QED
    BY <2>1, <2>2
<1>8. CASE UNCHANGED threadVars
  BY <1>8, FrameInv DEF threadVars, SchedInv, ThreadTypeOK
<1> QED
  BY <1>1, <1>2, <1>3, <1>4, <1>5, <1>6, <1>7, <1>8 DEF ThreadNext

(* The state thread_init leaves satisfies the invariant. *)
LEMMA ThreadInitInv ==
  ASSUME ThreadInit
  PROVE  SchedInv
<1> USE ThreadAssumption
<1>1. /\ thread_ready_list \in Seq(Threads)
      /\ NoDuplicates(thread_ready_list)
      /\ \A x : ~ elem_find(thread_ready_list, x)
  BY NewList DEF ThreadInit
<1>2. /\ thread_all_list \in Seq(Threads)
      /\ NoDuplicates(thread_all_list)
      /\ \A x : elem_find(thread_all_list, x) <=> x = Main
  <2>1. list_init \in Seq(Threads) /\ NoDuplicates(list_init)
        /\ \A x : ~ elem_find(list_init, x)
    BY NewList
  <2> DEFINE all == list_append(list_init, Main)
  <2>2. all \in Seq(Threads) /\ NoDuplicates(all) /\ \A x : elem_find(all, x) <=> x = Main
    BY <2>1, AppendElems
  <2> QED
    BY <2>2 DEF ThreadInit
<1>3. ThreadTypeOK
  <2>1. status \in [Threads -> Status]
    BY DEF ThreadInit, Status
  <2>2. ticks \in [Threads -> 0..255]
    BY DEF ThreadInit
  <2>3. eflags \in [Threads -> BOOLEAN]
    BY DEF ThreadInit
  <2>4. /\ current \in Threads /\ intr \in BOOLEAN /\ panic \in BOOLEAN
        /\ cr3 \in Procs \cup {NULL} /\ esp0 \in Procs \cup {NULL}
    BY DEF ThreadInit
  <2> QED
    BY <1>1, <1>2, <2>1, <2>2, <2>3, <2>4 DEF ThreadTypeOK
<1>4. OneRunning /\ MainRunnable /\ ContextActive /\ NoPanic
  BY DEF ThreadInit, OneRunning, MainRunnable, ContextActive, NoPanic, pgdir
<1>5. ReadyListed /\ AllListed
  BY <1>1, <1>2 DEF ThreadInit, ReadyListed, AllListed
<1> QED
  BY <1>3, <1>4, <1>5 DEF SchedInv

(* The scheduler keeps its lists, its statuses and the CPU's context       *)
(* consistent in every reachable state, whatever its clients do.           *)
THEOREM SchedulerSafe == ThreadSafe => []SchedInv
<1>1. ThreadInit => SchedInv
  BY ThreadInitInv
<1>2. SchedInv /\ [ThreadNext]_threadVars => SchedInv'
  BY ThreadStep
<1> QED
  BY <1>1, <1>2, PTL DEF ThreadSafe

(* Every variable of the scheduler keeps its type. *)
THEOREM SchedulerTypes == ThreadSafe => []ThreadTypeOK
<1>1. SchedInv => ThreadTypeOK
  BY DEF SchedInv
<1> QED
  BY <1>1, SchedulerSafe, PTL

(* No assertion of thread.c fires: the ready list is never empty when a    *)
(* thread blocks, and no thread is ever linked twice.                      *)
THEOREM SchedulerNoPanic == ThreadSafe => []NoPanic
<1>1. SchedInv => NoPanic
  BY DEF SchedInv
<1> QED
  BY <1>1, SchedulerSafe, PTL

(* The ready list of thread.c holds exactly the ready threads, each once:  *)
(* neither schedule nor thread_unblock loses or duplicates a thread.       *)
THEOREM SchedulerReady == ThreadSafe => []ReadyListed
<1>1. SchedInv => ReadyListed
  BY DEF SchedInv
<1> QED
  BY <1>1, SchedulerSafe, PTL

(* schedule never leaves two running threads, or one that is not running.  *)
THEOREM SchedulerOneRunning == ThreadSafe => []OneRunning
<1>1. SchedInv => OneRunning
  BY DEF SchedInv
<1> QED
  BY <1>1, SchedulerSafe, PTL

(* process_activate leaves every thread with its own page directory, and   *)
(* every process with its own kernel stack in the TSS.                     *)
THEOREM SchedulerContext == ThreadSafe => []ContextActive
<1>1. SchedInv => ContextActive
  BY DEF SchedInv
<1> QED
  BY <1>1, SchedulerSafe, PTL

-----------------------------------------------------------------------------
(* Two elements of a list keep their order when one is appended, ...       *)
LEMMA AppendOrder ==
  ASSUME NEW S, NEW l \in Seq(S), NEW e \in S, NEW a, NEW b, Before(l, a, b)
  PROVE  Before(list_append(l, e), a, b)
<1> DEFINE k == list_append(l, e)
<1>1. Len(l) \in Nat /\ Len(k) = Len(l) + 1 /\ \A i \in 1..Len(l) : k[i] = l[i]
  BY DEF list_append
<1>2. PICK i, j \in 1..Len(l) : i < j /\ l[i] = a /\ l[j] = b
  BY DEF Before
<1> HIDE DEF k
<1>3. i \in 1..Len(k) /\ j \in 1..Len(k) /\ k[i] = a /\ k[j] = b
  BY <1>1, <1>2
<1>4. Before(k, a, b)
  BY <1>2, <1>3 DEF Before
<1> QED
  BY <1>4 DEF k

(* ... when one is pushed in front of them, ...                            *)
LEMMA PushOrder ==
  ASSUME NEW S, NEW l \in Seq(S), NEW e \in S, NEW a, NEW b, Before(l, a, b)
  PROVE  Before(list_push(l, e), a, b)
<1> DEFINE k == list_push(l, e)
<1>1. Len(l) \in Nat /\ Len(k) = Len(l) + 1 /\ \A i \in 1..Len(l) : k[i + 1] = l[i]
  BY DEF list_push
<1>2. PICK i, j \in 1..Len(l) : i < j /\ l[i] = a /\ l[j] = b
  BY DEF Before
<1> HIDE DEF k
<1>3. i + 1 \in 1..Len(k) /\ j + 1 \in 1..Len(k) /\ k[i + 1] = a /\ k[j + 1] = b
  BY <1>1, <1>2
<1>4. i + 1 < j + 1
  BY <1>2
<1>5. Before(k, a, b)
  BY <1>3, <1>4 DEF Before
<1> QED
  BY <1>5 DEF k

(* ... and when the first one is popped, if it is neither of them.         *)
LEMMA PopOrder ==
  ASSUME NEW S, NEW l \in Seq(S), ~ list_empty(l), NoDuplicates(l), NEW a, NEW b,
         Before(l, a, b), elem_find(list_popped(l), a)
  PROVE  Before(list_popped(l), a, b)
<1> DEFINE k == list_popped(l)
<1>1. /\ Len(l) \in Nat /\ Len(k) = Len(l) - 1 /\ Len(k) \in Nat
      /\ \A i \in 1..Len(k) : k[i] = l[i + 1]
  BY DEF list_empty, list_popped
<1>2. PICK i, j \in 1..Len(l) : i < j /\ l[i] = a /\ l[j] = b
  BY DEF Before
<1>3. PICK n \in 1..Len(k) : k[n] = a
  BY DEF elem_find
<1> HIDE DEF k
<1>4. n + 1 = i
  BY <1>1, <1>2, <1>3 DEF NoDuplicates
<1>5. j - 1 \in 1..Len(k) /\ n < j - 1 /\ k[j - 1] = b
  BY <1>1, <1>2, <1>3, <1>4
<1>6. Before(k, a, b)
  BY <1>3, <1>5 DEF Before
<1> QED
  BY <1>6 DEF k

(* No operation of thread.c reorders threads that stay ready. *)
LEMMA OrderStep ==
  ASSUME SchedInv, [ThreadNext]_threadVars, NEW a \in Threads, NEW b \in Threads,
         Before(thread_ready_list, a, b), elem_find(thread_ready_list', a)
  PROVE  Before(thread_ready_list', a, b)
<1> USE ThreadAssumption
<1> DEFINE ready == thread_ready_list
<1>1. /\ ready \in Seq(Threads) /\ NoDuplicates(ready) /\ current \in Threads
      /\ status[current] = "TASK_RUNNING" /\ ~ elem_find(ready, current)
      /\ status \in [Threads -> Status]
  BY DEF SchedInv, ThreadTypeOK, ReadyListed, OneRunning
<1>2. ~ panic'
  BY ThreadStep DEF SchedInv, NoPanic
<1>3. ASSUME NEW u \in Threads, thread_start(u) \/ process_execute(u)
      PROVE  Before(ready', a, b)
  <2>1. ready' = list_append(ready, u)
    BY <1>2, <1>3 DEF thread_start, process_execute, enlist, panic_spin
  <2> QED
    BY <1>1, <2>1, AppendOrder
<1>4. ASSUME NEW u \in Threads, thread_unblock(u)
      PROVE  Before(ready', a, b)
  <2>1. ready' = list_push(ready, u)
    BY <1>2, <1>4 DEF thread_unblock, panic_spin
  <2> QED
    BY <1>1, <2>1, PushOrder
<1>5. ASSUME NEW s \in BlockedStatus, NEW saved \in BOOLEAN, thread_block(s, saved)
      PROVE  Before(ready', a, b)
  <2> DEFINE off == [status EXCEPT ![current] = s]
  <2>1. schedule(off, saved)
    BY <1>5 DEF thread_block
  <2>2. off[current] # "TASK_RUNNING"
    BY <1>1 DEF BlockedStatus
  <2> HIDE DEF off
  <2>3. ready' = list_popped(ready) /\ ~ list_empty(ready)
    BY <1>2, <2>1, <2>2 DEF schedule, panic_spin
  <2> QED
    BY <1>1, <2>3, PopOrder
<1>6. CASE clock_interrupt_handler
  <2>1. CASE ticks[current] # 0
    BY <1>6, <2>1 DEF clock_interrupt_handler
  <2>2. CASE ticks[current] = 0
    <3> DEFINE l == list_append(ready, current)
    <3>1. l \in Seq(Threads) /\ NoDuplicates(l) /\ ~ list_empty(l)
      BY <1>1, AppendElems
    <3>2. ready' = list_popped(l)
      BY <1>1, <1>2, <1>6, <2>2 DEF clock_interrupt_handler, schedule, panic_spin
    <3>3. Before(l, a, b)
      BY <1>1, AppendOrder
    <3> HIDE DEF l
    <3> QED
      BY <3>1, <3>2, <3>3, PopOrder
  <2> QED
    BY <2>1, <2>2
<1>7. CASE intr_enable \/ intr_disable \/ UNCHANGED threadVars
  BY <1>7 DEF intr_enable, intr_disable, threadVars
<1> QED
  BY <1>3, <1>4, <1>5, <1>6, <1>7 DEF ThreadNext

(* Threads that stay on the ready list keep their order: thread_unblock    *)
(* puts a thread in front of all of them and schedule takes the first.     *)
THEOREM SchedulerOrder == ThreadSafe => ReadyOrderKept
<1> DEFINE P == \A a, b \in Threads :
                  /\ Before(thread_ready_list, a, b)
                  /\ elem_find(thread_ready_list', a)
                  /\ elem_find(thread_ready_list', b)
                  => Before(thread_ready_list', a, b)
<1>1. SchedInv /\ [ThreadNext]_threadVars => [P]_threadVars
  BY OrderStep
<1> QED
  BY <1>1, SchedulerSafe, PTL DEF ThreadSafe, ReadyOrderKept

-----------------------------------------------------------------------------
(* The locks, sync.c. *)

(* What a thread that blocks changes: it is off the CPU, a ready thread is *)
(* on it, and nobody else's status or flag moves.                          *)
LEMMA BlockEffect ==
  ASSUME SchedInv, NEW saved \in BOOLEAN, thread_block("TASK_BLOCKED", saved)
  PROVE  /\ current \in Threads /\ current' \in Threads /\ current' # current
         /\ status[current'] = "TASK_READY"
         /\ \A t \in Threads : status'[t] = IF t = current THEN "TASK_BLOCKED"
                                            ELSE IF t = current' THEN "TASK_RUNNING"
                                            ELSE status[t]
         /\ \A t \in Threads : eflags'[t] = IF t = current THEN saved ELSE eflags[t]
         /\ intr' = eflags'[current']
         /\ panic' = panic
<1> USE ThreadAssumption
<1> DEFINE off == [status EXCEPT ![current] = "TASK_BLOCKED"]
           next == list_pop(thread_ready_list)
<1>1. /\ status[current] = "TASK_RUNNING"
      /\ current \in Threads
      /\ thread_ready_list \in Seq(Threads)
      /\ NoDuplicates(thread_ready_list)
      /\ status \in [Threads -> Status]
      /\ eflags \in [Threads -> BOOLEAN]
      /\ current # Main
      /\ status[Main] = "TASK_READY"
  BY DEF SchedInv, ThreadTypeOK, OneRunning, MainRunnable, ReadyListed, thread_block
<1>2. ~ list_empty(thread_ready_list)
  <2>1. elem_find(thread_ready_list, Main)
    BY <1>1 DEF SchedInv, ReadyListed
  <2> QED
    BY <1>1, <2>1, EmptyList
<1>3. off[current] # "TASK_RUNNING"
  BY <1>1
<1>4. /\ status' = [off EXCEPT ![next] = "TASK_RUNNING"]
      /\ switch_to(next, saved)
      /\ panic' = panic
  <2>1. schedule(off, saved)
    BY DEF thread_block, BlockedStatus
  <2> HIDE DEF off
  <2> QED
    BY <2>1, <1>2, <1>3 DEF schedule
<1>5. next \in Threads /\ elem_find(thread_ready_list, next)
  BY <1>1, <1>2, PopElems
<1>6. status[next] = "TASK_READY" /\ next # current
  BY <1>1, <1>5 DEF SchedInv, ReadyListed
<1> HIDE DEF next
<1> QED
  BY <1>1, <1>4, <1>5, <1>6 DEF switch_to

(* What the clock changes: threads move between ready and running only,    *)
(* and the thread it interrupts is resumed with IF set.                    *)
LEMMA ClockEffect ==
  ASSUME SchedInv, clock_interrupt_handler
  PROVE  /\ \A t \in Threads :
              /\ status[t] \in {"TASK_READY", "TASK_RUNNING"}
                   => status'[t] \in {"TASK_READY", "TASK_RUNNING"}
              /\ status[t] \notin {"TASK_READY", "TASK_RUNNING"} => status'[t] = status[t]
         /\ \A t \in Threads : t # current => eflags'[t] = eflags[t]
         /\ current' = current \/ (current' \in Threads /\ intr' = eflags'[current'])
<1> USE ThreadAssumption
<1>1. /\ status[current] = "TASK_RUNNING"
      /\ current \in Threads
      /\ thread_ready_list \in Seq(Threads)
      /\ NoDuplicates(thread_ready_list)
      /\ status \in [Threads -> Status]
      /\ eflags \in [Threads -> BOOLEAN]
      /\ ~ elem_find(thread_ready_list, current)
  BY DEF SchedInv, ThreadTypeOK, OneRunning, ReadyListed
<1>2. CASE ticks[current] # 0
  BY <1>2 DEF clock_interrupt_handler
<1>3. CASE ticks[current] = 0
  <2> DEFINE ready == list_append(thread_ready_list, current)
             off == [status EXCEPT ![current] = "TASK_READY"]
             next == list_pop(ready)
  <2>1. /\ ready \in Seq(Threads) /\ NoDuplicates(ready) /\ ~ list_empty(ready)
        /\ \A x : elem_find(ready, x) <=> elem_find(thread_ready_list, x) \/ x = current
    BY <1>1, AppendElems
  <2>2. schedule(status, TRUE)
    BY <1>3 DEF clock_interrupt_handler
  <2>3. /\ status' = [off EXCEPT ![next] = "TASK_RUNNING"]
        /\ switch_to(next, TRUE)
    BY <2>1, <2>2, <1>1 DEF schedule
  <2>4. next \in Threads /\ elem_find(ready, next)
    BY <2>1, PopElems
  <2>5. next = current \/ status[next] = "TASK_READY"
    BY <2>1, <2>4 DEF SchedInv, ReadyListed
  <2> HIDE DEF next, ready
  <2> QED
    BY <2>3, <2>4, <2>5, <1>1 DEF switch_to
<1> QED
  BY <1>2, <1>3

(* How each step changes who owns a lock: it is a step of AbstractLock. *)
AbsStep == [Abs!Next]_Owners

(* A step that leaves the owners alone is a stutter of AbstractLock. *)
LEMMA OwnersUnchanged ==
  ASSUME \A l \in Locks, t \in Threads : Owns(l, t)' <=> Owns(l, t)
  PROVE  AbsStep
BY DEF AbsStep, Owners

(* Taking the semaphore acquires the lock. *)
LEMMA OwnersAcquire ==
  ASSUME NEW l \in Locks, NEW u \in Threads,
         \A t \in Threads : ~ Owns(l, t),
         \A k \in Locks, t \in Threads : Owns(k, t)' <=> Owns(k, t) \/ (k = l /\ t = u)
  PROVE  AbsStep
<1>1. Owners[l] = {}
  BY DEF Owners
<1>2. Owners' = [Owners EXCEPT ![l] = {u}]
  BY DEF Owners
<1> QED
  BY <1>1, <1>2 DEF AbsStep, Abs!Next, Abs!Acquire

(* sema_up releases it. *)
LEMMA OwnersRelease ==
  ASSUME NEW l \in Locks, NEW u \in Threads,
         \A t \in Threads : Owns(l, t) <=> t = u,
         \A k \in Locks, t \in Threads : Owns(k, t)' <=> Owns(k, t) /\ k # l
  PROVE  AbsStep
<1>1. Owners[l] = {u}
  BY DEF Owners
<1>2. Owners' = [Owners EXCEPT ![l] = {}]
  BY DEF Owners
<1> QED
  BY <1>1, <1>2 DEF AbsStep, Abs!Next, Abs!Release

(* A step that leaves the locks alone keeps the invariant if it neither    *)
(* blocks nor wakes a thread that is in sema_dowm.                         *)
LEMMA ClientFrame ==
  ASSUME SyncInv, SchedInv', UNCHANGED syncVars, RetryAtomic',
         \A t \in Threads : pc[t] = "wait" =>
           /\ status'[t] = "TASK_BLOCKED" <=> status[t] = "TASK_BLOCKED"
           /\ status[t] \in {"TASK_READY", "TASK_RUNNING"}
                => status'[t] \in {"TASK_READY", "TASK_RUNNING"},
         \A t \in Threads : status'[t] = "TASK_NONE" => status[t] = "TASK_NONE"
  PROVE  SyncInv' /\ AbsStep
<1>1. /\ SyncTypeOK' /\ MutualExclusion' /\ HolderAgrees' /\ LockPhase'
  BY DEF SyncInv, syncVars, SyncTypeOK, MutualExclusion, Owns, HolderAgrees, LockPhase
<1>2. WaitersBlocked'
  BY DEF SyncInv, syncVars, WaitersBlocked
<1>3. NoLostWakeup'
  BY DEF SyncInv, syncVars, NoLostWakeup
<1>4. AbsStep
  BY OwnersUnchanged DEF Owns, syncVars
<1> QED
  BY <1>1, <1>2, <1>3, <1>4 DEF SyncInv

(* Every step with which a lock's user calls the scheduler is a step of    *)
(* the scheduler's specification and keeps the invariant.                  *)
LEMMA ClientSteps ==
  ASSUME SyncInv,
         client_step \/ sleep \/ clock \/ \E u \in Threads : wake(u)
  PROVE  ThreadNext /\ SyncInv' /\ AbsStep
<1> USE ThreadAssumption
<1>1. SchedInv /\ RetryAtomic /\ current \in Threads
      /\ status[current] = "TASK_RUNNING" /\ status \in [Threads -> Status]
      /\ pc \in [Threads -> PC]
  BY DEF SyncInv, SchedInv, ThreadTypeOK, OneRunning, SyncTypeOK
<1>2. CASE client_step
  <2>1. ThreadNext
    BY <1>2 DEF client_step, ThreadNext
  <2>2. SchedInv'
    BY <2>1, <1>1, ThreadStep
  <2>3. ASSUME NEW u \in Threads, thread_start(u) \/ process_execute(u)
        PROVE  /\ RetryAtomic'
               /\ \A t \in Threads : status'[t] = status[t]
                                     \/ (status[t] = "TASK_NONE" /\ status'[t] = "TASK_READY")
    <3>1. enlist(u) /\ status[u] = "TASK_NONE"
      BY <2>3 DEF thread_start, process_execute
    <3>2. ~ panic'
      BY <2>2 DEF SchedInv, NoPanic
    <3>3. /\ status' = [status EXCEPT ![u] = "TASK_READY"]
          /\ eflags' = [eflags EXCEPT ![u] = TRUE]
          /\ UNCHANGED <<current, intr>>
      BY <3>1, <3>2 DEF enlist, panic_spin
    <3>4. pc[u] # "wait"
      BY <2>3, <1>2, <3>1 DEF SyncInv, LockPhase
    <3>5. RetryAtomic'
      <4>1. \A t \in Threads : t # u => eflags'[t] = eflags[t]
        BY <3>3
      <4>2. UNCHANGED pc
        BY <1>2 DEF client_step, syncVars
      <4> QED
        BY <4>1, <4>2, <3>3, <3>4, <1>1 DEF RetryAtomic
    <3>6. \A t \in Threads : status'[t] = IF t = u THEN "TASK_READY" ELSE status[t]
      BY <3>3, <1>1
    <3> QED
      BY <3>1, <3>5, <3>6
  <2>4. CASE intr_enable
    <3>1. pc[current] # "wait"
      BY <1>2 DEF client_step, idle
    <3>2. UNCHANGED <<current, status, eflags>> /\ UNCHANGED syncVars
      BY <2>4, <1>2 DEF intr_enable, client_step
    <3>3. RetryAtomic'
      <4>1. UNCHANGED <<pc, current, eflags>>
        BY <3>2 DEF syncVars
      <4> QED
        BY <4>1, <3>1, <1>1, Zenon DEF RetryAtomic
    <3> QED
      BY <2>1, <2>2, <3>2, <3>3, ClientFrame
  <2>5. CASE intr_disable
    <3>1. pc[current] # "wait"
      BY <1>2 DEF client_step, idle
    <3>2. UNCHANGED <<current, status, eflags>> /\ UNCHANGED syncVars
      BY <2>5, <1>2 DEF intr_disable, client_step
    <3>3. RetryAtomic'
      <4>1. UNCHANGED <<pc, current, eflags>>
        BY <3>2 DEF syncVars
      <4> QED
        BY <4>1, <3>1, <1>1, Zenon DEF RetryAtomic
    <3> QED
      BY <2>1, <2>2, <3>2, <3>3, ClientFrame
  <2>6. SyncInv' /\ AbsStep
    BY <1>2, <2>2, <2>3, <2>4, <2>5, ClientFrame DEF client_step
  <2> QED
    BY <2>1, <2>6
<1>3. CASE sleep
  <2>1. thread_block("TASK_BLOCKED", intr) /\ intr \in BOOLEAN /\ pc[current] # "wait"
    BY <1>1, <1>3 DEF sleep, idle, SchedInv, ThreadTypeOK
  <2>2. ThreadNext
    BY <2>1 DEF ThreadNext, BlockedStatus
  <2>3. SchedInv'
    BY <2>2, <1>1, ThreadStep
  <2>4. /\ current' \in Threads /\ current' # current
        /\ status[current'] = "TASK_READY"
        /\ \A t \in Threads : status'[t] = IF t = current THEN "TASK_BLOCKED"
                                           ELSE IF t = current' THEN "TASK_RUNNING"
                                           ELSE status[t]
        /\ \A t \in Threads : eflags'[t] = IF t = current THEN intr ELSE eflags[t]
        /\ intr' = eflags'[current']
    BY <2>1, <1>1, BlockEffect
  <2>5. RetryAtomic'
    BY <2>1, <2>4, <1>1, <1>3 DEF RetryAtomic, sleep, syncVars
  <2>6. SyncInv' /\ AbsStep
    BY <2>1, <2>3, <2>4, <2>5, <1>3, ClientFrame DEF sleep
  <2> QED
    BY <2>2, <2>6
<1>4. CASE clock
  <2>1. clock_interrupt_handler /\ intr /\ pc[current] # "wait"
    BY <1>1, <1>4 DEF clock, clock_interrupt_handler, RetryAtomic
  <2>2. ThreadNext
    BY <2>1 DEF ThreadNext
  <2>3. SchedInv'
    BY <2>2, <1>1, ThreadStep
  <2>4. /\ \A t \in Threads :
              /\ status[t] \in {"TASK_READY", "TASK_RUNNING"}
                   => status'[t] \in {"TASK_READY", "TASK_RUNNING"}
              /\ status[t] \notin {"TASK_READY", "TASK_RUNNING"} => status'[t] = status[t]
        /\ \A t \in Threads : t # current => eflags'[t] = eflags[t]
        /\ current' = current \/ (current' \in Threads /\ intr' = eflags'[current'])
    BY <2>1, <1>1, ClockEffect
  <2>5. RetryAtomic'
    BY <2>1, <2>4, <1>1, <1>4 DEF RetryAtomic, clock, syncVars
  <2>6. SyncInv' /\ AbsStep
    BY <2>3, <2>4, <2>5, <1>4, ClientFrame DEF clock
  <2> QED
    BY <2>2, <2>6
<1>5. ASSUME NEW u \in Threads, wake(u)
      PROVE  ThreadNext /\ SyncInv' /\ AbsStep
  <2>1. thread_unblock(u) /\ status[u] \in BlockedStatus /\ pc[u] = "idle"
    BY <1>5 DEF wake
  <2>2. ThreadNext
    BY <2>1 DEF ThreadNext
  <2>3. SchedInv'
    BY <2>2, <1>1, ThreadStep
  <2>4. /\ status' = [status EXCEPT ![u] = "TASK_READY"]
        /\ UNCHANGED <<current, intr, eflags>>
    BY <2>1, <2>3 DEF thread_unblock, panic_spin, SchedInv, NoPanic
  <2>5. RetryAtomic'
    BY <2>4, <1>1, <1>5 DEF RetryAtomic, wake, syncVars
  <2>6. SyncInv' /\ AbsStep
    BY <2>1, <2>3, <2>4, <2>5, <1>1, <1>5, ClientFrame DEF wake
  <2> QED
    BY <2>2, <2>6
<1> QED
  BY <1>2, <1>3, <1>4, <1>5

(* The part of the invariant that a step inside lock_acquire or            *)
(* lock_release can disturb, when threads, lists and values stay put.      *)
LEMMA FieldFrame ==
  ASSUME SyncInv, UNCHANGED <<threadVars, value, waiters, old>>,
         SyncTypeOK', HolderAgrees', LockPhase',
         \A l \in Locks, t \in Threads : Owns(l, t)' <=> Owns(l, t),
         \A t \in Threads : pc'[t] = "wait" <=> pc[t] = "wait",
         \A t \in Threads : pc[t] = "wait" => lk'[t] = lk[t]
  PROVE  SyncInv' /\ AbsStep
<1>1. SchedInv'
  BY FrameInv DEF SyncInv, threadVars, SchedInv, ThreadTypeOK
<1>2. MutualExclusion'
  BY DEF SyncInv, MutualExclusion
<1>3. WaitersBlocked'
  BY DEF SyncInv, WaitersBlocked, threadVars
<1>4. NoLostWakeup'
  BY DEF SyncInv, NoLostWakeup, threadVars
<1>5. RetryAtomic'
  BY DEF SyncInv, RetryAtomic, threadVars
<1>6. AbsStep
  BY OwnersUnchanged
<1> QED
  BY <1>1, <1>2, <1>3, <1>4, <1>5, <1>6 DEF SyncInv

(* What the invariant says of the thread that runs. *)
LEMMA CurrentFacts ==
  ASSUME SyncInv
  PROVE  /\ current \in Threads
         /\ status[current] = "TASK_RUNNING"
         /\ pc \in [Threads -> PC] /\ lk \in [Threads -> Locks \cup {NULL}]
         /\ held \in [Locks -> [Threads -> 0..MaxDepth]]
         /\ value \in [Locks -> 0..1]
         /\ pc[current] # "idle" => lk[current] \in Locks
BY DEF SyncInv, SchedInv, ThreadTypeOK, OneRunning, SyncTypeOK, LockPhase

(* While a thread is on its way in or out, nobody has an open lock_acquire *)
(* on its lock.                                                            *)
LEMMA NoOpenAcquire ==
  ASSUME SyncInv, NEW l \in Locks, lk[current] = l,
         \A t \in Threads : t # current => ~ Owns(l, t)
  PROVE  \A t \in Threads : held[l][t] = 0
<1> SUFFICES ASSUME NEW t \in Threads
             PROVE  held[l][t] = 0
  OBVIOUS
<1>1. current \in Threads /\ held[l][t] \in 0..MaxDepth
  BY CurrentFacts
<1>2. held[l][current] = 0
  BY <1>1 DEF SyncInv, LockPhase
<1>3. t # current => ~ (held[l][t] > 0)
  BY DEF Owns
<1> QED
  BY <1>1, <1>2, <1>3, SyncAssumption

(* lock_acquire up to sema_dowm, and lock_acquire of a lock already held. *)
LEMMA AcquireTest ==
  ASSUME SyncInv, NEW l \in Locks, acquire_test(l)
  PROVE  UNCHANGED threadVars /\ SyncInv' /\ AbsStep
<1> USE ThreadAssumption, SyncAssumption
<1>1. /\ current \in Threads /\ pc[current] = "idle" /\ lk[current] = NULL
      /\ status[current] = "TASK_RUNNING"
      /\ SyncTypeOK /\ HolderAgrees /\ LockPhase /\ MutualExclusion
      /\ UNCHANGED <<threadVars, value, waiters, old, holder>>
  BY CurrentFacts DEF acquire_test, at, SyncInv, LockPhase
<1>2. CASE holder[l] # current
  <2>1. /\ pc' = [pc EXCEPT ![current] = "down"]
        /\ lk' = [lk EXCEPT ![current] = l]
        /\ UNCHANGED <<repeat_nr, held>>
    BY <1>2 DEF acquire_test, goto
  <2>2. held[l][current] = 0
    BY <1>1, <1>2 DEF HolderAgrees, SyncTypeOK
  <2>3. SyncTypeOK'
    BY <1>1, <2>1 DEF SyncTypeOK, PC
  <2>4. HolderAgrees'
    BY <1>1, <2>1 DEF HolderAgrees, SyncTypeOK
  <2>5. LockPhase'
    BY <1>1, <2>1, <2>2 DEF LockPhase, SyncTypeOK, threadVars
  <2>6. \A k \in Locks, t \in Threads : Owns(k, t)' <=> Owns(k, t)
    BY <1>1, <2>1 DEF Owns, SyncTypeOK
  <2> QED
    BY <1>1, <2>1, <2>3, <2>4, <2>5, <2>6, FieldFrame DEF SyncTypeOK
<1>3. CASE holder[l] = current
  <2>1. /\ repeat_nr[l] < MaxDepth
        /\ repeat_nr' = [repeat_nr EXCEPT ![l] = @ + 1]
        /\ held' = [held EXCEPT ![l][current] = @ + 1]
        /\ UNCHANGED <<pc, lk>>
    BY <1>3 DEF acquire_test
  <2>2. held[l][current] > 0 /\ repeat_nr[l] = held[l][current]
    BY <1>1, <1>3 DEF HolderAgrees
  <2>3. held[l][current] \in 0..MaxDepth /\ held[l][current] + 1 \in 0..MaxDepth
    BY <1>1, <2>1, <2>2 DEF SyncTypeOK
  <2>4. SyncTypeOK'
    BY <1>1, <2>1, <2>2, <2>3 DEF SyncTypeOK
  <2>5. \A k \in Locks, t \in Threads :
          /\ held'[k][t] = IF k = l /\ t = current THEN held[k][t] + 1 ELSE held[k][t]
          /\ held[k][t] \in Nat
    BY <1>1, <2>1 DEF SyncTypeOK
  <2>6. \A k \in Locks : repeat_nr'[k] = IF k = l THEN repeat_nr[k] + 1 ELSE repeat_nr[k]
    BY <1>1, <2>1 DEF SyncTypeOK
  <2>7. HolderAgrees'
    BY <1>1, <1>3, <2>1, <2>2, <2>5, <2>6 DEF HolderAgrees
  <2>8. Owns(l, current)
    BY <2>2 DEF Owns
  <2>9. LockPhase'
    <3>1. value[l] # 1 /\ \A t \in Threads : lk[t] = l => pc[t] \notin {"own", "cnt", "up"}
      BY <1>1, <2>8 DEF MutualExclusion, Owns
    <3> QED
      BY <3>1, <1>1, <2>1, <2>5, <2>6 DEF LockPhase, threadVars
  <2>10. \A k \in Locks, t \in Threads : Owns(k, t)' <=> Owns(k, t)
    BY <2>1, <2>2, <2>5 DEF Owns
  <2> QED
    BY <1>1, <2>1, <2>4, <2>7, <2>9, <2>10, FieldFrame
<1> QED
  BY <1>2, <1>3

(* lock_acquire after sema_dowm: holder is set. *)
LEMMA AcquireHolder ==
  ASSUME SyncInv, acquire_holder
  PROVE  UNCHANGED threadVars /\ SyncInv' /\ AbsStep
<1> USE ThreadAssumption, SyncAssumption
<1> DEFINE l == lk[current]
<1>1. /\ current \in Threads /\ pc[current] = "own" /\ l \in Locks
      /\ status[current] = "TASK_RUNNING"
      /\ SyncTypeOK /\ HolderAgrees /\ LockPhase /\ MutualExclusion
      /\ pc' = [pc EXCEPT ![current] = "cnt"]
      /\ lk' = [lk EXCEPT ![current] = l]
      /\ holder' = [holder EXCEPT ![l] = current]
      /\ UNCHANGED <<threadVars, value, waiters, repeat_nr, old, held>>
  BY CurrentFacts DEF acquire_holder, at, goto, SyncInv
<1>2. lk' = lk
  BY <1>1 DEF SyncTypeOK
<1>3. \A t \in Threads : t # current => ~ Owns(l, t)
  BY <1>1 DEF MutualExclusion, Owns
<1> HIDE DEF l
<1>4. SyncTypeOK'
  BY <1>1, <1>2 DEF SyncTypeOK, PC
<1>5. HolderAgrees'
  <2>1. \A k \in Locks : holder'[k] = IF k = l THEN current ELSE holder[k]
    BY <1>1 DEF SyncTypeOK
  <2>2. \A t \in Threads : pc'[t] = IF t = current THEN "cnt" ELSE pc[t]
    BY <1>1 DEF SyncTypeOK
  <2>3. \A t \in Threads : held[l][t] = 0
    BY <1>1, <1>3, NoOpenAcquire DEF l
  <2> QED
    BY <1>1, <1>2, <2>1, <2>2, <2>3 DEF HolderAgrees, l
<1>6. LockPhase'
  <2>1. \A t \in Threads : t # current /\ lk[t] = l => pc[t] # "cnt"
    BY <1>3 DEF Owns
  <2> QED
    BY <1>1, <1>2, <2>1 DEF LockPhase, SyncTypeOK, threadVars, l
<1>7. \A k \in Locks, t \in Threads : Owns(k, t)' <=> Owns(k, t)
  BY <1>1, <1>2 DEF Owns, SyncTypeOK
<1> QED
  BY <1>1, <1>2, <1>4, <1>5, <1>6, <1>7, FieldFrame DEF SyncTypeOK

(* The end of lock_acquire: ASSERT(holder_repeat_nr == 0) holds. *)
LEMMA AcquireCount ==
  ASSUME SyncInv, acquire_count
  PROVE  UNCHANGED threadVars /\ SyncInv' /\ AbsStep
<1> USE ThreadAssumption, SyncAssumption
<1> DEFINE l == lk[current]
<1>1. /\ current \in Threads /\ pc[current] = "cnt" /\ l \in Locks
      /\ status[current] = "TASK_RUNNING"
      /\ SyncTypeOK /\ HolderAgrees /\ LockPhase /\ MutualExclusion
  BY CurrentFacts DEF acquire_count, at, SyncInv
<1>2. repeat_nr[l] = 0
  BY <1>1 DEF LockPhase
<1>3. /\ repeat_nr' = [repeat_nr EXCEPT ![l] = 1]
      /\ held' = [held EXCEPT ![l][current] = 1]
      /\ pc' = [pc EXCEPT ![current] = "idle"]
      /\ lk' = [lk EXCEPT ![current] = NULL]
      /\ UNCHANGED <<threadVars, value, waiters, holder, old>>
  BY <1>2 DEF acquire_count, goto
<1>4. Owns(l, current) /\ held[l][current] = 0
  BY <1>1 DEF Owns, LockPhase
<1>5. \A t \in Threads : t # current => ~ Owns(l, t)
  BY <1>1, <1>4 DEF MutualExclusion
<1>6. holder[l] = current
  BY <1>1 DEF LockPhase
<1> HIDE DEF l
<1>7. /\ \A k \in Locks, t \in Threads :
           held'[k][t] = IF k = l /\ t = current THEN 1 ELSE held[k][t]
      /\ \A k \in Locks : repeat_nr'[k] = IF k = l THEN 1 ELSE repeat_nr[k]
      /\ \A t \in Threads : pc'[t] = IF t = current THEN "idle" ELSE pc[t]
      /\ \A t \in Threads : lk'[t] = IF t = current THEN NULL ELSE lk[t]
  BY <1>1, <1>3 DEF SyncTypeOK
<1>8. SyncTypeOK'
  BY <1>1, <1>3 DEF SyncTypeOK, PC
<1>9. HolderAgrees'
  BY <1>1, <1>3, <1>5, <1>6, <1>7 DEF HolderAgrees, Owns, l
<1>10. LockPhase'
  BY <1>1, <1>3, <1>4, <1>5, <1>7 DEF LockPhase, MutualExclusion, Owns, threadVars, l
<1>11. \A k \in Locks, t \in Threads : Owns(k, t)' <=> Owns(k, t)
  BY <1>1, <1>7 DEF Owns, l
<1> QED
  BY <1>1, <1>3, <1>7, <1>8, <1>9, <1>10, <1>11, FieldFrame

(* The start of lock_release: its assertions hold, and nobody else is in   *)
(* the lock.                                                               *)
LEMMA ReleaseTest ==
  ASSUME SyncInv, NEW l \in Locks, release_test(l)
  PROVE  UNCHANGED threadVars /\ SyncInv' /\ AbsStep
<1> USE ThreadAssumption, SyncAssumption
<1>1. /\ current \in Threads /\ pc[current] = "idle" /\ lk[current] = NULL
      /\ status[current] = "TASK_RUNNING"
      /\ SyncTypeOK /\ HolderAgrees /\ LockPhase /\ MutualExclusion
      /\ held[l][current] > 0
      /\ held' = [held EXCEPT ![l][current] = @ - 1]
      /\ UNCHANGED <<value, waiters, old>>
  BY CurrentFacts DEF release_test, at, SyncInv, LockPhase
<1>2. /\ holder[l] = current
      /\ repeat_nr[l] = held[l][current]
      /\ repeat_nr[l] \in Nat /\ ~ (repeat_nr[l] < 1)
  BY <1>1 DEF HolderAgrees, SyncTypeOK
<1>3. UNCHANGED threadVars
  BY <1>2 DEF release_test
<1>4. Owns(l, current) /\ \A t \in Threads : t # current => ~ Owns(l, t)
  BY <1>1 DEF MutualExclusion, Owns
<1>5. \A k \in Locks, t \in Threads :
        /\ held'[k][t] = IF k = l /\ t = current THEN held[k][t] - 1 ELSE held[k][t]
        /\ held[k][t] \in 0..MaxDepth
  BY <1>1 DEF SyncTypeOK
<1>6. value[l] # 1 /\ \A t \in Threads : lk[t] = l => pc[t] \notin {"own", "cnt", "clr", "up"}
  BY <1>1, <1>4 DEF MutualExclusion, Owns
<1>7. CASE repeat_nr[l] > 1
  <2>1. /\ repeat_nr' = [repeat_nr EXCEPT ![l] = @ - 1]
        /\ UNCHANGED <<holder, pc, lk>>
    BY <1>2, <1>7 DEF release_test
  <2>2. \A k \in Locks : repeat_nr'[k] = IF k = l THEN repeat_nr[k] - 1 ELSE repeat_nr[k]
    BY <1>1, <2>1 DEF SyncTypeOK
  <2>3. SyncTypeOK'
    <3>1. held[l][current] \in 0..MaxDepth
      BY <1>1, <1>5
    <3>2. held[l][current] - 1 \in 0..MaxDepth /\ repeat_nr[l] - 1 \in 0..MaxDepth
      BY <1>2, <1>7, <3>1
    <3> QED
      BY <1>1, <2>1, <3>2 DEF SyncTypeOK
  <2>4. HolderAgrees'
    BY <1>1, <1>2, <1>5, <1>7, <2>1, <2>2 DEF HolderAgrees
  <2>5. LockPhase'
    BY <1>1, <1>3, <1>5, <1>6, <2>1, <2>2 DEF LockPhase, threadVars
  <2>6. \A k \in Locks, t \in Threads : Owns(k, t)' <=> Owns(k, t)
    BY <1>2, <1>5, <1>7, <2>1 DEF Owns
  <2> QED
    BY <1>1, <1>3, <2>1, <2>3, <2>4, <2>5, <2>6, FieldFrame
<1>8. CASE ~ (repeat_nr[l] > 1)
  <2>1. /\ holder' = [holder EXCEPT ![l] = NULL]
        /\ pc' = [pc EXCEPT ![current] = "clr"]
        /\ lk' = [lk EXCEPT ![current] = l]
        /\ UNCHANGED repeat_nr
    BY <1>2, <1>8 DEF release_test, goto
  <2>2. repeat_nr[l] = 1 /\ held[l][current] = 1
    BY <1>2, <1>8
  <2>3. /\ \A k \in Locks : holder'[k] = IF k = l THEN NULL ELSE holder[k]
        /\ \A t \in Threads : pc'[t] = IF t = current THEN "clr" ELSE pc[t]
        /\ \A t \in Threads : lk'[t] = IF t = current THEN l ELSE lk[t]
    BY <1>1, <2>1 DEF SyncTypeOK
  <2>4. SyncTypeOK'
    BY <1>1, <2>1, <2>2 DEF SyncTypeOK, PC
  <2>5. \A t \in Threads : held'[l][t] = 0
    BY <1>4, <1>5, <2>2 DEF Owns
  <2>6. HolderAgrees'
    <3> SUFFICES ASSUME NEW k \in Locks, NEW t \in Threads
                 PROVE  /\ held'[k][t] > 0 => holder'[k] = t /\ repeat_nr'[k] = held'[k][t]
                        /\ holder'[k] = t => held'[k][t] > 0 \/ (pc'[t] = "cnt" /\ lk'[t] = k)
      BY DEF HolderAgrees
    <3>1. CASE k = l
      BY <3>1, <2>3, <2>5
    <3>2. CASE k # l
      BY <3>2, <1>1, <1>5, <2>1, <2>3 DEF HolderAgrees
    <3> QED
      BY <3>1, <3>2
  <2>7. LockPhase'
    BY <1>1, <1>3, <1>5, <1>6, <2>1, <2>2, <2>3 DEF LockPhase, threadVars
  <2>8. \A k \in Locks, t \in Threads : Owns(k, t)' <=> Owns(k, t)
    BY <1>1, <1>4, <1>5, <2>2, <2>3 DEF Owns
  <2> QED
    BY <1>1, <1>3, <2>3, <2>4, <2>6, <2>7, <2>8, FieldFrame
<1> QED
  BY <1>3, <1>7, <1>8

(* lock_release clears holder_repeat_nr. *)
LEMMA ReleaseCount ==
  ASSUME SyncInv, release_count
  PROVE  UNCHANGED threadVars /\ SyncInv' /\ AbsStep
<1> USE ThreadAssumption, SyncAssumption
<1> DEFINE l == lk[current]
<1>1. /\ current \in Threads /\ pc[current] = "clr" /\ l \in Locks
      /\ status[current] = "TASK_RUNNING"
      /\ SyncTypeOK /\ HolderAgrees /\ LockPhase /\ MutualExclusion
      /\ repeat_nr' = [repeat_nr EXCEPT ![l] = 0]
      /\ pc' = [pc EXCEPT ![current] = "up"]
      /\ lk' = [lk EXCEPT ![current] = l]
      /\ UNCHANGED <<threadVars, value, waiters, holder, old, held>>
  BY CurrentFacts DEF release_count, at, goto, SyncInv
<1>2. lk' = lk
  BY <1>1 DEF SyncTypeOK
<1>3. \A t \in Threads : t # current => ~ Owns(l, t)
  BY <1>1 DEF MutualExclusion, Owns
<1> HIDE DEF l
<1>4. /\ \A k \in Locks : repeat_nr'[k] = IF k = l THEN 0 ELSE repeat_nr[k]
      /\ \A t \in Threads : pc'[t] = IF t = current THEN "up" ELSE pc[t]
  BY <1>1 DEF SyncTypeOK
<1>5. SyncTypeOK'
  BY <1>1, <1>2 DEF SyncTypeOK, PC
<1>6. HolderAgrees'
  <2>1. \A t \in Threads : held[l][t] = 0
    BY <1>1, <1>3, NoOpenAcquire DEF l
  <2> QED
    BY <1>1, <1>2, <1>4, <2>1 DEF HolderAgrees
<1>7. LockPhase'
  <2>1. lk[current] = l /\ UNCHANGED <<status, lk, held, holder, value>>
    BY <1>1, <1>2 DEF threadVars, l
  <2> QED
    BY <1>1, <1>4, <2>1 DEF LockPhase
<1>8. \A k \in Locks, t \in Threads : Owns(k, t)' <=> Owns(k, t)
  BY <1>1, <1>2, <1>4 DEF Owns
<1> QED
  BY <1>1, <1>2, <1>4, <1>5, <1>6, <1>7, <1>8, FieldFrame

(* The running thread is on no waiters list. *)
LEMMA CurrentNotWaiting ==
  ASSUME SyncInv, NEW l \in Locks
  PROVE  ~ elem_find(waiters[l], current)
BY CurrentFacts DEF SyncInv, WaitersBlocked

(* sema_dowm finds the value 0: the thread waits.                          *)
LEMMA SemaDownBlocks ==
  ASSUME SyncInv, NEW l \in Locks, NEW saved \in BOOLEAN,
         lk[current] = l, pc[current] \in {"down", "wait"}, value[l] = 0,
         sema_dowm(l, saved), UNCHANGED <<holder, repeat_nr, held>>
  PROVE  ThreadNext /\ SyncInv' /\ AbsStep
<1> USE ThreadAssumption, SyncAssumption
<1>1. /\ current \in Threads /\ status[current] = "TASK_RUNNING"
      /\ SchedInv /\ SyncTypeOK /\ HolderAgrees /\ LockPhase /\ MutualExclusion
      /\ WaitersBlocked /\ NoLostWakeup /\ RetryAtomic
  BY CurrentFacts DEF SyncInv
<1>2. ~ elem_find(waiters[l], current)
  BY CurrentNotWaiting
<1>3. /\ waiters' = [waiters EXCEPT ![l] = list_append(@, current)]
      /\ thread_block("TASK_BLOCKED", FALSE)
      /\ pc' = [pc EXCEPT ![current] = "wait"]
      /\ lk' = [lk EXCEPT ![current] = l]
      /\ old' = [old EXCEPT ![current] = saved]
      /\ UNCHANGED value
  BY <1>2 DEF sema_dowm, goto
<1>4. ThreadNext
  BY <1>3 DEF ThreadNext, BlockedStatus
<1>5. SchedInv'
  BY <1>1, <1>4, ThreadStep
<1>6. /\ current' \in Threads /\ current' # current
      /\ status[current'] = "TASK_READY"
      /\ \A t \in Threads : status'[t] = IF t = current THEN "TASK_BLOCKED"
                                         ELSE IF t = current' THEN "TASK_RUNNING"
                                         ELSE status[t]
      /\ \A t \in Threads : eflags'[t] = IF t = current THEN FALSE ELSE eflags[t]
      /\ intr' = eflags'[current']
  BY <1>1, <1>3, BlockEffect
<1>7. lk' = lk /\ \A t \in Threads : pc'[t] = IF t = current THEN "wait" ELSE pc[t]
  BY <1>1, <1>3 DEF SyncTypeOK
<1>8. waiters[l] \in Seq(Threads) /\ NoDuplicates(waiters[l])
  BY <1>1 DEF SyncTypeOK, WaitersBlocked
<1> DEFINE w == list_append(waiters[l], current)
<1>9. /\ w \in Seq(Threads) /\ NoDuplicates(w)
      /\ \A x : elem_find(w, x) <=> elem_find(waiters[l], x) \/ x = current
  BY <1>1, <1>2, <1>8, AppendElems
<1>10. \A k \in Locks : waiters'[k] = IF k = l THEN w ELSE waiters[k]
  BY <1>1, <1>3 DEF SyncTypeOK
<1> HIDE DEF w
<1>11. SyncTypeOK'
  <2>1. waiters' \in [Locks -> Seq(Threads)]
    BY <1>1, <1>3, <1>9 DEF SyncTypeOK, w
  <2>2. old' \in [Threads -> BOOLEAN] /\ pc' \in [Threads -> PC]
    BY <1>1, <1>3 DEF SyncTypeOK, PC
  <2> QED
    BY <1>1, <1>3, <1>7, <2>1, <2>2 DEF SyncTypeOK
<1>12. MutualExclusion' /\ AbsStep
  <2>1. \A k \in Locks, t \in Threads : Owns(k, t)' <=> Owns(k, t)
    BY <1>1, <1>7 DEF Owns
  <2> QED
    BY <1>1, <1>3, <2>1, OwnersUnchanged DEF MutualExclusion
<1>13. HolderAgrees'
  BY <1>1, <1>7 DEF HolderAgrees
<1>14. WaitersBlocked'
  <2> SUFFICES ASSUME NEW k \in Locks
               PROVE  /\ NoDuplicates(waiters'[k])
                      /\ \A t \in Threads :
                           elem_find(waiters'[k], t)
                             <=> pc'[t] = "wait" /\ lk'[t] = k /\ status'[t] = "TASK_BLOCKED"
    BY DEF WaitersBlocked
  <2>1. CASE k = l
    BY <2>1, <1>1, <1>6, <1>7, <1>9, <1>10 DEF WaitersBlocked
  <2>2. CASE k # l
    BY <2>2, <1>1, <1>6, <1>7, <1>10, CurrentNotWaiting DEF WaitersBlocked
  <2> QED
    BY <2>1, <2>2
<1>15. NoLostWakeup'
  <2> SUFFICES ASSUME NEW k \in Locks, value'[k] = 1, ~ list_empty(waiters'[k])
               PROVE  \E u \in Threads : /\ pc'[u] = "wait" /\ lk'[u] = k
                                         /\ status'[u] \in {"TASK_READY", "TASK_RUNNING"}
    BY DEF NoLostWakeup
  <2>1. k # l /\ value[k] = 1 /\ ~ list_empty(waiters[k])
    BY <1>3, <1>10
  <2>2. PICK u \in Threads : /\ pc[u] = "wait" /\ lk[u] = k
                             /\ status[u] \in {"TASK_READY", "TASK_RUNNING"}
    BY <1>1, <2>1 DEF NoLostWakeup
  <2>3. u # current
    BY <2>1, <2>2
  <2> QED
    BY <2>2, <2>3, <1>6, <1>7
<1>16. RetryAtomic'
  <2> SUFFICES ASSUME NEW t \in Threads, pc'[t] = "wait"
               PROVE  IF t = current' THEN ~ intr' ELSE ~ eflags'[t]
    BY DEF RetryAtomic
  <2>1. CASE t = current
    BY <2>1, <1>6
  <2>2. CASE t # current
    BY <2>2, <1>1, <1>6, <1>7, ZenonT(60) DEF RetryAtomic
  <2> QED
    BY <2>1, <2>2
<1>17. LockPhase'
  BY <1>1, <1>3, <1>6, <1>7 DEF LockPhase
<1> QED
  BY <1>4, <1>5, <1>11, <1>12, <1>13, <1>14, <1>15, <1>16, <1>17 DEF SyncInv

(* sema_dowm finds the value 1: the thread takes the lock.                 *)
LEMMA SemaDownTakes ==
  ASSUME SyncInv, NEW l \in Locks, NEW saved \in BOOLEAN, current # Main,
         lk[current] = l, pc[current] \in {"down", "wait"}, value[l] # 0,
         sema_dowm(l, saved), UNCHANGED <<holder, repeat_nr, held>>
  PROVE  [ThreadNext]_threadVars /\ SyncInv' /\ AbsStep
<1> USE ThreadAssumption, SyncAssumption
<1>1. /\ current \in Threads /\ status[current] = "TASK_RUNNING"
      /\ SchedInv /\ SyncTypeOK /\ HolderAgrees /\ LockPhase /\ MutualExclusion
      /\ WaitersBlocked /\ NoLostWakeup /\ RetryAtomic
      /\ intr \in BOOLEAN /\ ~ panic
  BY CurrentFacts DEF SyncInv, SchedInv, ThreadTypeOK, NoPanic
<1>2. value[l] = 1
  BY <1>1 DEF SyncTypeOK
<1>3. /\ value' = [value EXCEPT ![l] = @ - 1]
      /\ intr_set_status(saved)
      /\ pc' = [pc EXCEPT ![current] = "own"]
      /\ lk' = [lk EXCEPT ![current] = l]
      /\ old' = [old EXCEPT ![current] = FALSE]
      /\ UNCHANGED waiters
  BY <1>2 DEF sema_dowm, goto
<1>4. /\ intr' = saved
      /\ UNCHANGED <<current, status, ticks, thread_ready_list, thread_all_list,
                     eflags, cr3, esp0, panic>>
  BY <1>3 DEF intr_set_status
<1>5. [ThreadNext]_threadVars
  <2>1. CASE saved = intr
    BY <2>1, <1>4 DEF threadVars
  <2>2. CASE saved /\ ~ intr
    BY <2>2, <1>1, <1>4 DEF ThreadNext, intr_enable
  <2>3. CASE ~ saved /\ intr
    BY <2>3, <1>1, <1>4 DEF ThreadNext, intr_disable
  <2> QED
    BY <1>1, <2>1, <2>2, <2>3
<1>6. SchedInv'
  BY <1>1, <1>5, ThreadStep
<1>7. /\ lk' = lk
      /\ \A t \in Threads : pc'[t] = IF t = current THEN "own" ELSE pc[t]
      /\ \A k \in Locks : value'[k] = IF k = l THEN 0 ELSE value[k]
  BY <1>1, <1>2, <1>3 DEF SyncTypeOK
<1>8. \A t \in Threads : ~ Owns(l, t)
  BY <1>1, <1>2 DEF MutualExclusion
<1>9. \A k \in Locks, t \in Threads :
        Owns(k, t)' <=> Owns(k, t) \/ (k = l /\ t = current)
  BY <1>1, <1>7 DEF Owns
<1>10. SyncTypeOK' /\ AbsStep
  <2>1. SyncTypeOK'
    BY <1>1, <1>2, <1>3, <1>7 DEF SyncTypeOK, PC
  <2>2. AbsStep
    BY <1>1, <1>8, <1>9, OwnersAcquire
  <2> QED
    BY <2>1, <2>2
<1>11. MutualExclusion'
  BY <1>1, <1>7, <1>8, <1>9 DEF MutualExclusion
<1>12. HolderAgrees'
  BY <1>1, <1>7 DEF HolderAgrees
<1>13. WaitersBlocked'
  BY <1>1, <1>3, <1>4, <1>7 DEF WaitersBlocked
<1>14. NoLostWakeup'
  <2> SUFFICES ASSUME NEW k \in Locks, value'[k] = 1, ~ list_empty(waiters'[k])
               PROVE  \E u \in Threads : /\ pc'[u] = "wait" /\ lk'[u] = k
                                         /\ status'[u] \in {"TASK_READY", "TASK_RUNNING"}
    BY DEF NoLostWakeup
  <2>1. k # l /\ value[k] = 1 /\ ~ list_empty(waiters[k])
    BY <1>3, <1>7
  <2>2. PICK u \in Threads : /\ pc[u] = "wait" /\ lk[u] = k
                             /\ status[u] \in {"TASK_READY", "TASK_RUNNING"}
    BY <1>1, <2>1 DEF NoLostWakeup
  <2>3. u # current
    BY <2>1, <2>2
  <2> QED
    BY <2>2, <2>3, <1>4, <1>7
<1>15. RetryAtomic'
  BY <1>1, <1>4, <1>7 DEF RetryAtomic
<1>16. LockPhase'
  BY <1>1, <1>2, <1>4, <1>7 DEF LockPhase
<1> QED
  BY <1>5, <1>6, <1>10, <1>11, <1>12, <1>13, <1>14, <1>15, <1>16 DEF SyncInv

(* sema_up: the first waiter is blocked, so that thread_unblock accepts    *)
(* it, and the lock is free.                                               *)
LEMMA SemaUp ==
  ASSUME SyncInv, release_up
  PROVE  [ThreadNext]_threadVars /\ SyncInv' /\ AbsStep
<1> USE ThreadAssumption, SyncAssumption
<1> DEFINE l == lk[current]
           u == list_pop(waiters[l])
<1>1. /\ current \in Threads /\ status[current] = "TASK_RUNNING"
      /\ pc[current] = "up" /\ l \in Locks
      /\ SchedInv /\ SyncTypeOK /\ HolderAgrees /\ LockPhase /\ MutualExclusion
      /\ WaitersBlocked /\ NoLostWakeup /\ RetryAtomic
      /\ status \in [Threads -> Status]
      /\ pc' = [pc EXCEPT ![current] = "idle"]
      /\ lk' = [lk EXCEPT ![current] = NULL]
      /\ UNCHANGED <<holder, repeat_nr, old, held>>
  BY CurrentFacts DEF release_up, at, goto, SyncInv, SchedInv, ThreadTypeOK
<1>2. Owns(l, current) /\ \A t \in Threads : Owns(l, t) => t = current
  BY <1>1 DEF Owns, MutualExclusion
<1>3. value[l] = 0
  BY <1>1, <1>2 DEF MutualExclusion, SyncTypeOK
<1>4. /\ value' = [value EXCEPT ![l] = @ + 1]
      /\ IF list_empty(waiters[l])
         THEN UNCHANGED <<threadVars, waiters>>
         ELSE /\ waiters' = [waiters EXCEPT ![l] = list_popped(@)]
              /\ thread_unblock(u)
  BY <1>3 DEF release_up, sema_up
<1>5. /\ \A k \in Locks : value'[k] = IF k = l THEN 1 ELSE value[k]
      /\ \A t \in Threads : pc'[t] = IF t = current THEN "idle" ELSE pc[t]
      /\ \A t \in Threads : lk'[t] = IF t = current THEN NULL ELSE lk[t]
  BY <1>1, <1>3, <1>4 DEF SyncTypeOK
<1>6. value' \in [Locks -> 0..1] /\ pc' \in [Threads -> PC]
      /\ lk' \in [Threads -> Locks \cup {NULL}]
  BY <1>1, <1>3, <1>4 DEF SyncTypeOK, PC
<1>7. waiters[l] \in Seq(Threads) /\ NoDuplicates(waiters[l])
  BY <1>1 DEF SyncTypeOK, WaitersBlocked
<1> HIDE DEF l, u
<1>8. \A t \in Threads : held[l][t] = 0
  BY <1>1, <1>2, NoOpenAcquire DEF l
<1>9. \A k \in Locks, t \in Threads : Owns(k, t)' <=> Owns(k, t) /\ k # l
  <2> SUFFICES ASSUME NEW k \in Locks, NEW t \in Threads
               PROVE  Owns(k, t)' <=> Owns(k, t) /\ k # l
    OBVIOUS
  <2>1. CASE k = l
    BY <2>1, <1>1, <1>2, <1>5, <1>8 DEF Owns
  <2>2. CASE k # l
    BY <2>2, <1>1, <1>5 DEF Owns, l
  <2> QED
    BY <2>1, <2>2
<1>10. MutualExclusion' /\ AbsStep
  <2>1. MutualExclusion'
    BY <1>1, <1>2, <1>5, <1>9 DEF MutualExclusion
  <2>2. AbsStep
    BY <1>1, <1>2, <1>9, OwnersRelease
  <2> QED
    BY <2>1, <2>2
<1>11. HolderAgrees'
  BY <1>1, <1>5 DEF HolderAgrees
<1>12. CASE list_empty(waiters[l])
  <2>1. UNCHANGED <<threadVars, waiters>>
    BY <1>4, <1>12
  <2>2. UNCHANGED <<current, status, intr, eflags, panic>>
    BY <2>1 DEF threadVars
  <2>3. [ThreadNext]_threadVars /\ SchedInv'
    BY <2>1, <1>1, ThreadStep
  <2>4. SyncTypeOK'
    BY <2>1, <1>1, <1>6 DEF SyncTypeOK
  <2>5. WaitersBlocked'
    BY <2>1, <2>2, <1>1, <1>5 DEF WaitersBlocked
  <2>6. NoLostWakeup'
    BY <2>1, <2>2, <1>1, <1>5, <1>12 DEF NoLostWakeup
  <2>7. RetryAtomic'
    BY <2>2, <1>1, <1>5 DEF RetryAtomic
  <2>8. LockPhase'
    BY <2>2, <1>1, <1>5 DEF LockPhase, l
  <2> QED
    BY <2>3, <2>4, <2>5, <2>6, <2>7, <2>8, <1>10, <1>11 DEF SyncInv
<1>13. CASE ~ list_empty(waiters[l])
  <2>1. waiters' = [waiters EXCEPT ![l] = list_popped(@)] /\ thread_unblock(u)
    BY <1>4, <1>13
  <2>2. /\ u \in Threads /\ elem_find(waiters[l], u)
        /\ list_popped(waiters[l]) \in Seq(Threads)
        /\ NoDuplicates(list_popped(waiters[l]))
        /\ \A x : elem_find(list_popped(waiters[l]), x) <=> elem_find(waiters[l], x) /\ x # u
    BY <1>7, <1>13, PopElems DEF u
  <2>3. status[u] = "TASK_BLOCKED" /\ pc[u] = "wait" /\ lk[u] = l /\ u # current
    BY <2>2, <1>1 DEF WaitersBlocked
  <2>4. ThreadNext
    BY <2>1, <2>2, <2>3 DEF ThreadNext, BlockedStatus
  <2>5. SchedInv'
    BY <2>4, <1>1, ThreadStep
  <2>6. /\ status' = [status EXCEPT ![u] = "TASK_READY"]
        /\ UNCHANGED <<current, intr, eflags>>
    BY <2>1, <2>5 DEF thread_unblock, panic_spin, SchedInv, NoPanic
  <2>7. /\ \A t \in Threads : status'[t] = IF t = u THEN "TASK_READY" ELSE status[t]
        /\ \A k \in Locks : waiters'[k] = IF k = l THEN list_popped(waiters[l]) ELSE waiters[k]
    BY <2>1, <2>6, <1>1 DEF SyncTypeOK
  <2>8. SyncTypeOK'
    <3>1. waiters' \in [Locks -> Seq(Threads)]
      BY <2>1, <2>2, <1>1 DEF SyncTypeOK
    <3> QED
      BY <3>1, <1>1, <1>6 DEF SyncTypeOK
  <2>9. WaitersBlocked'
    <3> SUFFICES ASSUME NEW k \in Locks
                 PROVE  /\ NoDuplicates(waiters'[k])
                        /\ \A t \in Threads :
                             elem_find(waiters'[k], t)
                               <=> pc'[t] = "wait" /\ lk'[t] = k /\ status'[t] = "TASK_BLOCKED"
      BY DEF WaitersBlocked
    <3>1. CASE k = l
      BY <3>1, <2>2, <2>3, <2>7, <1>1, <1>5 DEF WaitersBlocked
    <3>2. CASE k # l
      BY <3>2, <2>3, <2>7, <1>1, <1>5 DEF WaitersBlocked
    <3> QED
      BY <3>1, <3>2
  <2>10. NoLostWakeup'
    <3> SUFFICES ASSUME NEW k \in Locks, value'[k] = 1, ~ list_empty(waiters'[k])
                 PROVE  \E v \in Threads : /\ pc'[v] = "wait" /\ lk'[v] = k
                                           /\ status'[v] \in {"TASK_READY", "TASK_RUNNING"}
      BY DEF NoLostWakeup
    <3>1. CASE k = l
      BY <3>1, <2>2, <2>3, <2>7, <1>5
    <3>2. CASE k # l
      <4>1. value[k] = 1 /\ ~ list_empty(waiters[k])
        BY <3>2, <2>7, <1>5
      <4>2. PICK v \in Threads : /\ pc[v] = "wait" /\ lk[v] = k
                                 /\ status[v] \in {"TASK_READY", "TASK_RUNNING"}
        BY <4>1, <1>1 DEF NoLostWakeup
      <4> QED
        BY <4>2, <2>7, <1>1, <1>5
    <3> QED
      BY <3>1, <3>2
  <2>11. RetryAtomic'
    BY <2>6, <1>1, <1>5 DEF RetryAtomic
  <2>12. LockPhase'
    BY <2>7, <1>1, <1>5 DEF LockPhase, l
  <2> QED
    BY <2>4, <2>5, <2>8, <2>9, <2>10, <2>11, <2>12, <1>10, <1>11
       DEF SyncInv
<1> QED
  BY <1>12, <1>13
-----------------------------------------------------------------------------
(* Every step of a thread that uses locks is a step of the scheduler and   *)
(* of AbstractLock, or a stutter, and keeps the invariant.                 *)
LEMMA SyncStep ==
  ASSUME SyncInv, [SyncNext]_vars
  PROVE  [ThreadNext]_threadVars /\ SyncInv' /\ AbsStep
<1>1. CASE UNCHANGED vars
  <2>1. UNCHANGED threadVars /\ UNCHANGED syncVars
    BY <1>1 DEF vars
  <2>2. SchedInv' /\ RetryAtomic' /\ UNCHANGED status
    BY <2>1, ThreadStep DEF SyncInv, RetryAtomic, threadVars, syncVars
  <2> QED
    BY <2>1, <2>2, ClientFrame
<1>2. ASSUME NEW l \in Locks, acquire_test(l) \/ release_test(l)
      PROVE  [ThreadNext]_threadVars /\ SyncInv' /\ AbsStep
  BY <1>2, AcquireTest, ReleaseTest
<1>3. CASE acquire_down \/ acquire_retry
  <2>1. /\ current \in Threads /\ current # Main
        /\ pc[current] \in {"down", "wait"} /\ lk[current] \in Locks
        /\ intr \in BOOLEAN /\ old[current] \in BOOLEAN
    BY <1>3, CurrentFacts DEF acquire_down, acquire_retry, at, Clients, SyncInv,
                              SchedInv, ThreadTypeOK, SyncTypeOK
  <2>2. PICK saved \in BOOLEAN : sema_dowm(lk[current], saved)
    BY <1>3, <2>1 DEF acquire_down, acquire_retry
  <2>3. UNCHANGED <<holder, repeat_nr, held>>
    BY <1>3 DEF acquire_down, acquire_retry
  <2> QED
    BY <2>1, <2>2, <2>3, SemaDownBlocks, SemaDownTakes
<1>4. CASE acquire_holder \/ acquire_count \/ release_count
  BY <1>4, AcquireHolder, AcquireCount, ReleaseCount
<1>5. CASE release_up
  BY <1>5, SemaUp
<1>6. CASE client_step \/ sleep \/ clock \/ \E u \in Threads : wake(u)
  BY <1>6, ClientSteps
<1> QED
  BY <1>1, <1>2, <1>3, <1>4, <1>5, <1>6 DEF SyncNext, lock_step

(* New locks are free. *)
LEMMA SyncInitInv ==
  ASSUME SyncInit
  PROVE  SyncInv /\ Abs!Init
<1> USE ThreadAssumption, SyncAssumption
<1>1. SchedInv
  BY ThreadInitInv DEF SyncInit
<1>2. \A l \in Locks, t \in Threads : ~ Owns(l, t)
  BY DEF SyncInit, Owns
<1>3. SyncTypeOK
  BY NewList DEF SyncInit, lock_init, SyncTypeOK, PC
<1>4. MutualExclusion /\ Abs!Init
  BY <1>2 DEF SyncInit, lock_init, MutualExclusion, Abs!Init, Owners
<1>5. HolderAgrees
  BY DEF SyncInit, lock_init, HolderAgrees
<1>6. WaitersBlocked
  BY NewList DEF SyncInit, lock_init, WaitersBlocked
<1>7. NoLostWakeup
  BY DEF SyncInit, lock_init, NoLostWakeup, list_empty, list_init
<1>8. RetryAtomic /\ LockPhase
  BY DEF SyncInit, lock_init, RetryAtomic, LockPhase
<1> QED
  BY <1>1, <1>3, <1>4, <1>5, <1>6, <1>7, <1>8 DEF SyncInv

(* The invariant of the locks holds in every reachable state. *)
THEOREM LocksSafe == SyncSafe => []SyncInv
<1>1. SyncInit => SyncInv
  BY SyncInitInv
<1>2. SyncInv /\ [SyncNext]_vars => SyncInv'
  BY SyncStep
<1> QED
  BY <1>1, <1>2, PTL DEF SyncSafe

(* No two threads are inside one lock, and its semaphore agrees. *)
THEOREM LocksExclude == SyncSafe => []MutualExclusion
<1>1. SyncInv => MutualExclusion
  BY DEF SyncInv
<1> QED
  BY <1>1, LocksSafe, PTL

(* The unprotected test of holder in lock_acquire and the nesting count    *)
(* are right in every interleaving.                                        *)
THEOREM LocksHolder == SyncSafe => []HolderAgrees
<1>1. SyncInv => HolderAgrees
  BY DEF SyncInv
<1> QED
  BY <1>1, LocksSafe, PTL

(* A wake-up is never lost to a thread that overtakes the woken one. *)
THEOREM LocksWakeup == SyncSafe => []NoLostWakeup
<1>1. SyncInv => NoLostWakeup
  BY DEF SyncInv
<1> QED
  BY <1>1, LocksSafe, PTL

(* No ASSERT or PANIC of sync.c or thread.c fires. *)
THEOREM LocksNoPanic == SyncSafe => []NoPanic
<1>1. SyncInv => NoPanic
  BY DEF SyncInv, SchedInv
<1> QED
  BY <1>1, LocksSafe, PTL

(* The locks of sync.c implement AbstractLock. *)
THEOREM LocksImplement == SyncSafe => LockImplemented
<1>1. SyncInit => Abs!Init
  BY SyncInitInv
<1>2. SyncInv /\ [SyncNext]_vars => [Abs!Next]_Owners
  BY SyncStep DEF AbsStep
<1> QED
  BY <1>1, <1>2, LocksSafe, PTL DEF SyncSafe, LockImplemented, Abs!Spec

(* Threads that use locks are clients the scheduler's proofs cover. *)
THEOREM SchedulerRefined == SyncSafe => SchedulerImplemented
<1>1. SyncInit => ThreadInit
  BY DEF SyncInit
<1>2. SyncInv /\ [SyncNext]_vars => [ThreadNext]_threadVars
  BY SyncStep
<1> QED
  BY <1>1, <1>2, LocksSafe, PTL DEF SyncSafe, SchedulerImplemented, ThreadSafe

(* The fields of a lock are written by its owner only. *)
THEOREM LocksOwnerWrites == SyncSafe => OnlyOwnerWrites
<1> DEFINE P == \A l \in Locks :
                  holder'[l] # holder[l] \/ repeat_nr'[l] # repeat_nr[l] => Owns(l, current)
<1>1. ASSUME SyncInv, [SyncNext]_vars
      PROVE  [P]_vars
  <2>1. /\ current \in Threads
        /\ holder \in [Locks -> Threads \cup {NULL}]
        /\ repeat_nr \in [Locks -> 0..MaxDepth]
        /\ pc[current] # "idle" => lk[current] \in Locks
    BY <1>1, CurrentFacts DEF SyncInv, SyncTypeOK
  <2>2. CASE UNCHANGED vars
    BY <2>2
  <2>3. ASSUME NEW l \in Locks, acquire_test(l)
        PROVE  P
    <3>1. CASE holder[l] # current
      BY <2>3, <3>1 DEF acquire_test
    <3>2. CASE holder[l] = current
      <4>1. held[l][current] > 0
        BY <1>1, <2>1, <2>3, <3>2 DEF acquire_test, at, SyncInv, HolderAgrees
      <4> QED
        BY <2>1, <2>3, <3>2, <4>1 DEF acquire_test, Owns
    <3> QED
      BY <3>1, <3>2
  <2>4. ASSUME NEW l \in Locks, release_test(l)
        PROVE  P
    <3>1. Owns(l, current)
      BY <2>4 DEF release_test, Owns
    <3>2. UNCHANGED threadVars
      BY <1>1, <2>4, ReleaseTest
    <3>3. \A k \in Locks : k # l => holder'[k] = holder[k] /\ repeat_nr'[k] = repeat_nr[k]
      BY <2>1, <2>4 DEF release_test
    <3> QED
      BY <3>1, <3>3
  <2>5. CASE acquire_holder \/ acquire_count \/ release_count
    <3>1. pc[current] \in {"own", "cnt", "clr"}
      BY <2>5 DEF acquire_holder, acquire_count, release_count, at
    <3>2. \A k \in Locks : k # lk[current] => holder'[k] = holder[k] /\ repeat_nr'[k] = repeat_nr[k]
      BY <2>1, <2>5 DEF acquire_holder, acquire_count, release_count
    <3> QED
      BY <3>1, <3>2 DEF Owns
  <2>6. CASE acquire_down \/ acquire_retry \/ release_up
    BY <2>6 DEF acquire_down, acquire_retry, release_up
  <2>7. CASE client_step \/ sleep \/ clock \/ \E u \in Threads : wake(u)
    BY <2>7 DEF client_step, sleep, clock, wake, syncVars
  <2> QED
    BY <1>1, <2>2, <2>3, <2>4, <2>5, <2>6, <2>7 DEF SyncNext, lock_step
<1> QED
  BY <1>1, LocksSafe, PTL DEF SyncSafe, OnlyOwnerWrites

(* The variables of sync.c keep their types; holder_repeat_nr never passes *)
(* its bound and never goes below zero.                                    *)
THEOREM LocksTypes == SyncSafe => []SyncTypeOK
<1>1. SyncInv => SyncTypeOK
  BY DEF SyncInv
<1> QED
  BY <1>1, LocksSafe, PTL

(* A semaphore's waiters are exactly the threads that sema_dowm has put to *)
(* sleep on it: general_tag is never in two lists.                         *)
THEOREM LocksWaiters == SyncSafe => []WaitersBlocked
<1>1. SyncInv => WaitersBlocked
  BY DEF SyncInv
<1> QED
  BY <1>1, LocksSafe, PTL

(* A thread that sema_dowm has put to sleep is resumed with interrupts     *)
(* off, so that its next test of value and the decrement are atomic.       *)
THEOREM LocksRetry == SyncSafe => []RetryAtomic
<1>1. SyncInv => RetryAtomic
  BY DEF SyncInv
<1> QED
  BY <1>1, LocksSafe, PTL

(* With threads that contend for locks the ready list still holds exactly  *)
(* the ready threads.                                                      *)
THEOREM LocksReady == SyncSafe => []ReadyListed
<1>1. SyncInv => ReadyListed
  BY DEF SyncInv, SchedInv
<1> QED
  BY <1>1, LocksSafe, PTL

(* With threads that contend for locks the CPU still uses the running      *)
(* thread's page directory and kernel stack.                               *)
THEOREM LocksContext == SyncSafe => []ContextActive
<1>1. SyncInv => ContextActive
  BY DEF SyncInv, SchedInv
<1> QED
  BY <1>1, LocksSafe, PTL

(* With threads that contend for locks, those that stay ready still keep   *)
(* their order.                                                            *)
THEOREM LocksOrder == SyncSafe => ReadyOrderKept
BY SchedulerRefined, SchedulerOrder, PTL DEF SchedulerImplemented
=============================================================================
