-------------------------------- MODULE Sync --------------------------------
(***************************************************************************)
(* Semaphores and recursive locks (sync.c) on top of the scheduler.        *)
(*                                                                         *)
(* sema_dowm and sema_up disable interrupts and are one action each,       *)
(* except that sema_dowm is left when thread_block switches to another     *)
(* thread and continues, still with interrupts disabled, when the thread   *)
(* is resumed.  lock_acquire and lock_release do not disable interrupts:   *)
(* each of their writes to the lock is an action of its own, and the clock *)
(* may preempt the thread between any two of them.  An action reads holder *)
(* and holder_repeat_nr together, which is sound because only the thread   *)
(* that owns the lock writes them (OnlyOwnerWrites).                       *)
(***************************************************************************)
EXTENDS Thread

CONSTANTS
  Locks,
  MaxDepth      \* how often a thread nests lock_acquire on one lock

ASSUME SyncAssumption ==
  /\ MaxDepth \in Nat \ {0}
  /\ NULL \notin Locks

VARIABLES
  value,        \* lock.semaphore.value
  waiters,      \* lock.semaphore.waiters
  holder,       \* lock.holder
  repeat_nr,    \* lock.holder_repeat_nr
  pc,           \* where in lock_acquire or lock_release each thread is
  lk,           \* the lock that call is about, NULL outside of one
  old,          \* old_status of a sema_dowm that has blocked
  held          \* lock_acquires of each thread not yet undone by a lock_release

syncVars == <<value, waiters, holder, repeat_nr, pc, lk, old, held>>

vars == <<threadVars, syncVars>>

(* "down": before sema_dowm; "wait": in its loop, after thread_block;      *)
(* "own": before holder is set; "cnt": before holder_repeat_nr is set;     *)
(* "clr": before holder_repeat_nr is cleared; "up": before sema_up.        *)
PC == {"idle", "down", "wait", "own", "cnt", "clr", "up"}

(* The boot code of the main thread takes and releases locks before any    *)
(* other thread runs, and leaves each as it found it.                      *)
Clients == Threads \ {Main}

-----------------------------------------------------------------------------
at(p) == ~panic /\ current \in Clients /\ pc[current] = p

goto(p, l) ==
  /\ pc' = [pc EXCEPT ![current] = p]
  /\ lk' = [lk EXCEPT ![current] = l]

intr_set_status(s) ==
  /\ intr' = s
  /\ UNCHANGED <<current, status, ticks, thread_ready_list, thread_all_list,
                 eflags, cr3, esp0, panic>>

(* The loop of sema_dowm, from its test on, with interrupts disabled:      *)
(* saved is the flag sema_dowm restores in the end.                        *)
sema_dowm_fault_no_loop(l, saved) ==
  IF value[l] = 0 /\ pc[current] = "down"
  THEN /\ waiters' = [waiters EXCEPT ![l] = list_append(@, current)]
       /\ thread_block("TASK_BLOCKED", FALSE)
       /\ goto("wait", l)
       /\ old' = [old EXCEPT ![current] = saved]
       /\ UNCHANGED value
  ELSE /\ value' = [value EXCEPT ![l] = 0]
       /\ intr_set_status(saved)
       /\ goto("own", l)
       /\ old' = [old EXCEPT ![current] = FALSE]
       /\ UNCHANGED waiters

sema_dowm(l, saved) ==
  IF value[l] = 0
  THEN IF elem_find(waiters[l], current)
       THEN panic_spin /\ UNCHANGED <<value, waiters, pc, lk, old>>
       ELSE /\ waiters' = [waiters EXCEPT ![l] = list_append(@, current)]
            /\ thread_block("TASK_BLOCKED", FALSE)
            /\ goto("wait", l)
            /\ old' = [old EXCEPT ![current] = saved]
            /\ UNCHANGED value
  ELSE IF value[l] - 1 # 0
       THEN panic_spin /\ UNCHANGED <<value, waiters, pc, lk, old>>
       ELSE /\ value' = [value EXCEPT ![l] = @ - 1]
            /\ intr_set_status(saved)
            /\ goto("own", l)
            /\ old' = [old EXCEPT ![current] = FALSE]
            /\ UNCHANGED waiters

-----------------------------------------------------------------------------
(* lock_acquire *)

acquire_test_fault_stale_holder(l) ==
  /\ at("idle")
  /\ IF holder[l] # current /\ value[l] = 0
     THEN goto("down", l) /\ UNCHANGED <<repeat_nr, held>>
     ELSE /\ repeat_nr[l] < MaxDepth
          /\ repeat_nr' = [repeat_nr EXCEPT ![l] = @ + 1]
          /\ held' = [held EXCEPT ![l][current] = @ + 1]
          /\ UNCHANGED <<pc, lk>>
  /\ UNCHANGED <<threadVars, value, waiters, holder, old>>

(* The test of holder, and the whole call when the lock is already held.   *)
acquire_test(l) ==
  /\ at("idle")
  /\ IF holder[l] # current
     THEN goto("down", l) /\ UNCHANGED <<repeat_nr, held>>
     ELSE /\ repeat_nr[l] < MaxDepth
          /\ repeat_nr' = [repeat_nr EXCEPT ![l] = @ + 1]
          /\ held' = [held EXCEPT ![l][current] = @ + 1]
          /\ UNCHANGED <<pc, lk>>
  /\ UNCHANGED <<threadVars, value, waiters, holder, old>>

acquire_down ==
  /\ at("down")
  /\ sema_dowm(lk[current], intr)
  /\ UNCHANGED <<holder, repeat_nr, held>>

(* thread_block has returned inside sema_dowm: the value is tested again.  *)
acquire_retry ==
  /\ at("wait")
  /\ sema_dowm(lk[current], old[current])
  /\ UNCHANGED <<holder, repeat_nr, held>>

acquire_holder ==
  /\ at("own")
  /\ holder' = [holder EXCEPT ![lk[current]] = current]
  /\ goto("cnt", lk[current])
  /\ UNCHANGED <<threadVars, value, waiters, repeat_nr, old, held>>

acquire_count ==
  /\ at("cnt")
  /\ LET l == lk[current] IN
     IF repeat_nr[l] # 0
     THEN panic_spin /\ UNCHANGED <<repeat_nr, pc, lk, held>>
     ELSE /\ repeat_nr' = [repeat_nr EXCEPT ![l] = 1]
          /\ held' = [held EXCEPT ![l][current] = 1]
          /\ goto("idle", NULL)
          /\ UNCHANGED threadVars
  /\ UNCHANGED <<value, waiters, holder, old>>

-----------------------------------------------------------------------------
(* lock_release *)

release_test_fault_keeps_holder(l) ==
  /\ at("idle")
  /\ held[l][current] > 0
  /\ held' = [held EXCEPT ![l][current] = @ - 1]
  /\ IF repeat_nr[l] > 1
     THEN /\ repeat_nr' = [repeat_nr EXCEPT ![l] = @ - 1]
          /\ UNCHANGED <<pc, lk>>
     ELSE goto("clr", l) /\ UNCHANGED repeat_nr
  /\ UNCHANGED <<threadVars, value, waiters, holder, old>>

(* The assertions and the assignment of holder, or the whole call when an  *)
(* outer lock_acquire is still open.  Callers release what they acquired.  *)
release_test(l) ==
  /\ at("idle")
  /\ held[l][current] > 0
  /\ held' = [held EXCEPT ![l][current] = @ - 1]
  /\ IF \/ holder[l] # current
        \/ repeat_nr[l] < 1
     THEN panic_spin /\ UNCHANGED <<holder, repeat_nr, pc, lk>>
     ELSE /\ UNCHANGED threadVars
          /\ IF repeat_nr[l] > 1
             THEN /\ repeat_nr' = [repeat_nr EXCEPT ![l] = @ - 1]
                  /\ UNCHANGED <<holder, pc, lk>>
             ELSE /\ holder' = [holder EXCEPT ![l] = NULL]
                  /\ goto("clr", l)
                  /\ UNCHANGED repeat_nr
  /\ UNCHANGED <<value, waiters, old>>

release_count_fault_no_reset ==
  /\ at("clr")
  /\ goto("up", lk[current])
  /\ UNCHANGED <<threadVars, value, waiters, holder, repeat_nr, old, held>>

release_count ==
  /\ at("clr")
  /\ repeat_nr' = [repeat_nr EXCEPT ![lk[current]] = 0]
  /\ goto("up", lk[current])
  /\ UNCHANGED <<threadVars, value, waiters, holder, old, held>>

(* sema_up(l): the first waiter becomes ready, and the value is 1.         *)
sema_up_fault_no_wakeup(l) ==
  /\ value' = [value EXCEPT ![l] = @ + 1]
  /\ UNCHANGED <<threadVars, waiters>>

sema_up_fault_no_pop(l) ==
  /\ value' = [value EXCEPT ![l] = @ + 1]
  /\ UNCHANGED waiters
  /\ IF list_empty(waiters[l]) THEN UNCHANGED threadVars
                               ELSE thread_unblock(list_pop(waiters[l]))

sema_up(l) ==
  IF value[l] # 0
  THEN panic_spin /\ UNCHANGED <<value, waiters>>
  ELSE /\ value' = [value EXCEPT ![l] = @ + 1]
       /\ IF list_empty(waiters[l])
          THEN UNCHANGED <<threadVars, waiters>>
          ELSE /\ waiters' = [waiters EXCEPT ![l] = list_popped(@)]
               /\ thread_unblock(list_pop(waiters[l]))

release_up ==
  /\ at("up")
  /\ sema_up(lk[current])
  /\ goto("idle", NULL)
  /\ UNCHANGED <<holder, repeat_nr, old, held>>

-----------------------------------------------------------------------------
(* Outside the lock functions a thread does what the kernel's other code   *)
(* does: it changes the interrupt flag, creates threads, and sleeps until  *)
(* somebody wakes it (as ioq_wait does, even with a lock held).            *)
idle == pc[current] = "idle"

client_step ==
  /\ idle
  /\ UNCHANGED syncVars
  /\ \/ \E u \in Threads : thread_start(u)
     \/ \E u \in Threads : process_execute(u)
     \/ intr_enable
     \/ intr_disable

sleep ==
  /\ idle
  /\ thread_block("TASK_BLOCKED", intr)
  /\ UNCHANGED syncVars

(* Called by a running thread or, with IF set, by an interrupt handler.    *)
wake(u) ==
  /\ idle \/ intr
  /\ pc[u] = "idle"
  /\ status[u] \in BlockedStatus
  /\ thread_unblock(u)
  /\ UNCHANGED syncVars

clock == clock_interrupt_handler /\ UNCHANGED syncVars

lock_init ==
  /\ value = [l \in Locks |-> 1]
  /\ waiters = [l \in Locks |-> list_init]
  /\ holder = [l \in Locks |-> NULL]
  /\ repeat_nr = [l \in Locks |-> 0]

SyncInit ==
  /\ ThreadInit
  /\ lock_init
  /\ pc = [t \in Threads |-> "idle"]
  /\ lk = [t \in Threads |-> NULL]
  /\ old = [t \in Threads |-> FALSE]
  /\ held = [l \in Locks |-> [t \in Threads |-> 0]]

lock_step ==
  \/ acquire_down
  \/ acquire_retry
  \/ acquire_holder
  \/ acquire_count
  \/ release_count
  \/ release_up

SyncNext ==
  \/ \E l \in Locks : acquire_test(l)
  \/ \E l \in Locks : release_test(l)
  \/ lock_step
  \/ client_step
  \/ sleep
  \/ \E u \in Threads : wake(u)
  \/ clock

SyncSafe == SyncInit /\ [][SyncNext]_vars

(* The end of a critical section. *)
last_release == \E l \in Locks : held[l][current] = 1 /\ release_test(l)

(* A thread that runs again and again goes on inside the lock functions    *)
(* and ends its critical sections, as every caller in the kernel does, and *)
(* a sleeper is woken.  Nothing makes a thread call lock_acquire.          *)
SyncFairness ==
  /\ SF_vars(clock)
  /\ \A t \in Threads :
       SF_vars(current = t /\ idle /\ UNCHANGED syncVars /\ intr_enable)
  /\ \A t \in Clients :
       /\ SF_vars(current = t /\ (lock_step \/ last_release))
       /\ SF_vars(wake(t))

SyncSpec == SyncSafe /\ SyncFairness

-----------------------------------------------------------------------------
(* Properties *)

(* Every variable has its type. *)
SyncTypeOK ==
  /\ value \in [Locks -> 0..1]
  /\ waiters \in [Locks -> Seq(Threads)]
  /\ holder \in [Locks -> Threads \cup {NULL}]
  /\ repeat_nr \in [Locks -> 0..MaxDepth]
  /\ pc \in [Threads -> PC]
  /\ lk \in [Threads -> Locks \cup {NULL}]
  /\ old \in [Threads -> BOOLEAN]
  /\ held \in [Locks -> [Threads -> 0..MaxDepth]]

(* A thread owns a lock from the moment it takes the semaphore's value     *)
(* until it gives it back.                                                 *)
Owns(l, t) ==
  \/ held[l][t] > 0
  \/ lk[t] = l /\ pc[t] \in {"own", "cnt", "clr", "up"}

(* At most one thread owns a lock, and its semaphore's value is 1 exactly  *)
(* when none does: sema_dowm and sema_up never admit a second thread,      *)
(* whoever overtakes a woken waiter.                                       *)
MutualExclusion ==
  \A l \in Locks :
    /\ \A t, u \in Threads : Owns(l, t) /\ Owns(l, u) => t = u
    /\ value[l] = 1 <=> \A t \in Threads : ~ Owns(l, t)

(* holder names a thread only while that thread has the lock, so that the  *)
(* unprotected test at the start of lock_acquire never lets a thread in,   *)
(* and holder_repeat_nr counts its open lock_acquires.                     *)
HolderAgrees ==
  \A l \in Locks, t \in Threads :
    /\ held[l][t] > 0 => holder[l] = t /\ repeat_nr[l] = held[l][t]
    /\ holder[l] = t => held[l][t] > 0 \/ (pc[t] = "cnt" /\ lk[t] = l)

(* A thread is on the waiters list of a lock exactly when it is blocked in *)
(* sema_dowm on that lock, and it is there once: general_tag links it into *)
(* one list at a time.                                                     *)
WaitersBlocked ==
  \A l \in Locks :
    /\ NoDuplicates(waiters[l])
    /\ \A t \in Threads :
         elem_find(waiters[l], t)
           <=> pc[t] = "wait" /\ lk[t] = l /\ status[t] = "TASK_BLOCKED"

(* While threads wait for a lock that is free, one that was woken for it   *)
(* is ready or running and will take it or wait again: a wake-up is never  *)
(* lost, even when another thread takes the lock first.                    *)
NoLostWakeup ==
  \A l \in Locks :
    value[l] = 1 /\ ~ list_empty(waiters[l])
      => \E u \in Threads : /\ pc[u] = "wait" /\ lk[u] = l
                            /\ status[u] \in {"TASK_READY", "TASK_RUNNING"}

(* A thread that continues in the loop of sema_dowm does so with           *)
(* interrupts disabled: the retested value cannot change before it is      *)
(* taken.                                                                  *)
RetryAtomic ==
  \A t \in Threads :
    pc[t] = "wait" => IF t = current THEN ~ intr ELSE ~ eflags[t]

(* Where lk, held and holder_repeat_nr stand in each phase of a call: a    *)
(* thread on its way in or out holds no open lock_acquire on that lock,    *)
(* and the count is 0 whenever ASSERT(holder_repeat_nr == 0) may be next.  *)
LockPhase ==
  /\ \A t \in Threads :
       /\ pc[t] = "idle" <=> lk[t] = NULL
       /\ status[t] = "TASK_NONE" => pc[t] = "idle"
       /\ \A l \in Locks : lk[t] = l =>
            /\ held[l][t] = 0
            /\ pc[t] \in {"own", "cnt", "up"} => repeat_nr[l] = 0
            /\ pc[t] = "cnt" => holder[l] = t
  /\ \A l \in Locks : value[l] = 1 => repeat_nr[l] = 0

(* The inductive invariant. *)
SyncInv ==
  /\ SchedInv
  /\ SyncTypeOK
  /\ MutualExclusion
  /\ HolderAgrees
  /\ WaitersBlocked
  /\ NoLostWakeup
  /\ RetryAtomic
  /\ LockPhase

(* The fields of a lock are written by the thread that owns it only.       *)
OnlyOwnerWrites ==
  [][\A l \in Locks :
       holder'[l] # holder[l] \/ repeat_nr'[l] # repeat_nr[l]
         => Owns(l, current)]_vars

(* Locks behave as AbstractLock says. *)
Owners == [l \in Locks |-> {t \in Threads : Owns(l, t)}]
Abs == INSTANCE AbstractLock WITH owners <- Owners
LockImplemented == Abs!Spec

(* Seen from the scheduler, the threads that use locks are ordinary        *)
(* clients: they wake blocked threads only.                                *)
SchedulerImplemented == ThreadSafe

(* A thread waiting for a lock is eventually woken. *)
WaiterWoken ==
  \A l \in Locks, t \in Threads :
    elem_find(waiters[l], t) ~> ~ elem_find(waiters[l], t)
=============================================================================
