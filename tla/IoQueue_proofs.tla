--------------------------- MODULE IoQueue_proofs ---------------------------
(***************************************************************************)
(* The ring buffer of ioqueue.c, for any number of readers and writers,    *)
(* any buffer size and any other locks: its users are users of the locks   *)
(* that Sync_proofs covers, characters are neither lost nor repeated, and  *)
(* a waiting slot always names a thread that sleeps with the lock.         *)
(***************************************************************************)
EXTENDS IoQueue, Sync_proofs

(* Threads that a step with locks does not run: the fields of their calls  *)
(* stay, they keep the interrupt flag they left the CPU with, and it is    *)
(* the flag they are resumed with.                                         *)
LEMMA OtherThreads ==
  ASSUME SyncInv, SyncNext
  PROVE  /\ \A t \in Threads : t # current =>
              /\ pc'[t] = pc[t] /\ lk'[t] = lk[t] /\ old'[t] = old[t]
              /\ \A l \in Locks : held'[l][t] = held[l][t]
              /\ status[t] # "TASK_NONE" => status'[t] # "TASK_NONE" /\ eflags'[t] = eflags[t]
         /\ status'[current] # "TASK_NONE"
         /\ current' # current => current' \in Threads /\ intr' = eflags'[current']
<1> USE ThreadAssumption, SyncAssumption
<1>1. /\ current \in Threads /\ status[current] = "TASK_RUNNING" /\ ~ panic
      /\ pc \in [Threads -> PC] /\ lk \in [Threads -> Locks \cup {NULL}]
      /\ old \in [Threads -> BOOLEAN]
      /\ held \in [Locks -> [Threads -> 0..MaxDepth]]
      /\ SchedInv /\ status \in [Threads -> Status] /\ eflags \in [Threads -> BOOLEAN]
      /\ intr \in BOOLEAN
  BY CurrentFacts DEF SyncInv, SyncTypeOK, SchedInv, ThreadTypeOK, NoPanic
<1>2. SyncInv' /\ SchedInv' /\ ~ panic'
  BY SyncStep DEF SyncInv, SchedInv, NoPanic
<1> DEFINE Fields == \A t \in Threads : t # current =>
                       /\ pc'[t] = pc[t] /\ lk'[t] = lk[t] /\ old'[t] = old[t]
                       /\ \A l \in Locks : held'[l][t] = held[l][t]
           Flags == /\ \A t \in Threads : t # current /\ status[t] # "TASK_NONE" =>
                         status'[t] # "TASK_NONE" /\ eflags'[t] = eflags[t]
                    /\ status'[current] # "TASK_NONE"
                    /\ current' # current => current' \in Threads /\ intr' = eflags'[current']
<1>3. ASSUME NEW l \in Locks, acquire_test(l) \/ release_test(l)
      PROVE  Fields /\ Flags
  <2>1. UNCHANGED threadVars
    BY <1>3, AcquireTest, ReleaseTest
  <2>2. Flags
    BY <1>1, <2>1 DEF threadVars
  <2>3. Fields
    BY <1>1, <1>3 DEF acquire_test, release_test, goto
  <2> QED
    BY <2>2, <2>3
<1>4. CASE acquire_holder \/ acquire_count \/ release_count
  <2>1. UNCHANGED threadVars
    BY <1>4, AcquireHolder, AcquireCount, ReleaseCount
  <2>2. Flags
    BY <1>1, <2>1 DEF threadVars
  <2>3. Fields
    BY <1>1, <1>4, <1>2 DEF acquire_holder, acquire_count, release_count, goto
  <2> QED
    BY <2>2, <2>3
<1>5. CASE acquire_down \/ acquire_retry
  <2>1. PICK saved \in BOOLEAN : sema_dowm(lk[current], saved) /\ UNCHANGED held
    BY <1>1, <1>5 DEF acquire_down, acquire_retry
  <2>2. Fields
    BY <1>1, <2>1, ZenonT(60) DEF sema_dowm, goto
  <2>3. ASSUME thread_block("TASK_BLOCKED", FALSE)
        PROVE  Flags
    BY <2>3, <1>1, BlockEffect
  <2>4. ASSUME intr_set_status(saved)
        PROVE  Flags
    BY <2>4, <1>1 DEF intr_set_status
  <2>5. thread_block("TASK_BLOCKED", FALSE) \/ intr_set_status(saved)
    BY <1>2, <2>1 DEF sema_dowm, panic_spin
  <2> QED
    BY <2>2, <2>3, <2>4, <2>5
<1>6. CASE release_up
  <2>1. Fields
    BY <1>1, <1>6 DEF release_up, goto
  <2>2. UNCHANGED threadVars \/ thread_unblock(list_pop(waiters[lk[current]]))
    BY <1>2, <1>6 DEF release_up, sema_up, panic_spin
  <2>3. Flags
    BY <1>1, <1>2, <2>2 DEF threadVars, thread_unblock, panic_spin
  <2> QED
    BY <2>1, <2>3
<1>7. CASE client_step
  <2>1. Fields
    BY <1>7 DEF client_step, syncVars
  <2>2. ASSUME NEW u \in Threads, thread_start(u) \/ process_execute(u)
        PROVE  Flags
    <3>1. enlist(u) /\ status[u] = "TASK_NONE"
      BY <2>2 DEF thread_start, process_execute
    <3> QED
      BY <3>1, <1>1, <1>2 DEF enlist, panic_spin
  <2>3. ASSUME intr_enable \/ intr_disable
        PROVE  Flags
    BY <2>3, <1>1 DEF intr_enable, intr_disable
  <2> QED
    BY <1>7, <2>1, <2>2, <2>3 DEF client_step
<1>8. CASE sleep
  <2>1. Fields
    BY <1>8 DEF sleep, syncVars
  <2>2. Flags
    BY <1>1, <1>8, BlockEffect DEF sleep
  <2> QED
    BY <2>1, <2>2
<1>9. CASE clock
  <2>1. Fields
    BY <1>9 DEF clock, syncVars
  <2>2. Flags
    BY <1>1, <1>9, ClockEffect DEF clock
  <2> QED
    BY <2>1, <2>2
<1>10. ASSUME NEW u \in Threads, wake(u)
       PROVE  Fields /\ Flags
  <2>1. Fields
    BY <1>10 DEF wake, syncVars
  <2>2. Flags
    BY <1>1, <1>2, <1>10 DEF wake, thread_unblock, panic_spin
  <2> QED
    BY <2>1, <2>2
<1> QED
  BY <1>3, <1>4, <1>5, <1>6, <1>7, <1>8, <1>9, <1>10 DEF SyncNext, lock_step

(* A thread that sleeps outside of sema_dowm is not woken by the locks,    *)
(* the clock or a thread that goes to sleep itself.                        *)
LEMMA SleeperKept ==
  ASSUME SyncInv, NEW u \in Threads, status[u] = "TASK_BLOCKED", pc[u] = "idle",
         \/ \E l \in Locks : acquire_test(l) \/ release_test(l)
         \/ lock_step \/ client_step \/ sleep \/ clock
  PROVE  status'[u] = "TASK_BLOCKED"
<1> USE ThreadAssumption, SyncAssumption
<1>1. /\ current \in Threads /\ status[current] = "TASK_RUNNING" /\ u # current
      /\ SchedInv /\ status \in [Threads -> Status] /\ intr \in BOOLEAN
      /\ old \in [Threads -> BOOLEAN]
  BY CurrentFacts DEF SyncInv, SyncTypeOK, SchedInv, ThreadTypeOK
<1>2. ~ panic' /\ SchedInv'
  BY SyncStep DEF SyncNext, SyncInv, SchedInv, NoPanic
<1>3. ASSUME NEW l \in Locks, acquire_test(l) \/ release_test(l)
      PROVE  status'[u] = "TASK_BLOCKED"
  BY <1>3, AcquireTest, ReleaseTest DEF threadVars
<1>4. CASE acquire_holder \/ acquire_count \/ release_count
  BY <1>4, AcquireHolder, AcquireCount, ReleaseCount DEF threadVars
<1>5. CASE acquire_down \/ acquire_retry
  <2>1. PICK saved \in BOOLEAN : sema_dowm(lk[current], saved)
    BY <1>1, <1>5 DEF acquire_down, acquire_retry
  <2>2. thread_block("TASK_BLOCKED", FALSE) \/ intr_set_status(saved)
    BY <1>2, <2>1 DEF sema_dowm, panic_spin
  <2>3. CASE thread_block("TASK_BLOCKED", FALSE)
    BY <2>3, <1>1, BlockEffect
  <2>4. CASE intr_set_status(saved)
    BY <2>4 DEF intr_set_status
  <2> QED
    BY <2>2, <2>3, <2>4
<1>6. CASE release_up
  <2> DEFINE w == waiters[lk[current]]
  <2>1. /\ lk[current] \in Locks
        /\ w \in Seq(Threads) /\ NoDuplicates(w)
        /\ ~ elem_find(w, u)
    BY <1>6, CurrentFacts DEF release_up, at, SyncInv, SyncTypeOK, WaitersBlocked
  <2>2. UNCHANGED threadVars \/ (~ list_empty(w) /\ thread_unblock(list_pop(w)))
    BY <1>2, <1>6 DEF release_up, sema_up, panic_spin
  <2>3. ~ list_empty(w) => list_pop(w) # u
    BY <2>1, PopElems
  <2> HIDE DEF w
  <2> QED
    BY <1>1, <1>2, <2>2, <2>3 DEF threadVars, thread_unblock, panic_spin
<1>7. CASE client_step
  <2>1. ASSUME NEW v \in Threads, thread_start(v) \/ process_execute(v)
        PROVE  status'[u] = "TASK_BLOCKED"
    <3>1. enlist(v) /\ status[v] = "TASK_NONE"
      BY <2>1 DEF thread_start, process_execute
    <3> QED
      BY <3>1, <1>1, <1>2 DEF enlist, panic_spin
  <2>2. CASE intr_enable \/ intr_disable
    BY <2>2 DEF intr_enable, intr_disable
  <2> QED
    BY <1>7, <2>1, <2>2 DEF client_step
<1>8. CASE sleep
  <2>1. current' \in Threads /\ status[current'] = "TASK_READY"
        /\ status'[u] = IF u = current THEN "TASK_BLOCKED"
                        ELSE IF u = current' THEN "TASK_RUNNING" ELSE status[u]
    BY <1>1, <1>8, BlockEffect DEF sleep
  <2> QED
    BY <2>1
<1>9. CASE clock
  BY <1>1, <1>9, ClockEffect DEF clock
<1> QED
  BY <1>3, <1>4, <1>5, <1>6, <1>7, <1>8, <1>9 DEF lock_step

-----------------------------------------------------------------------------
(* What the invariant says of the thread that runs. *)
LEMMA IoCurrent ==
  ASSUME IoInv
  PROVE  /\ SyncInv /\ SchedInv
         /\ current \in Threads /\ status[current] = "TASK_RUNNING"
         /\ status \in [Threads -> Status]
         /\ intr \in BOOLEAN /\ ~ panic
         /\ qpc \in [Threads -> QPC]
         /\ waiter \in [Sides -> Consumers \cup Producers \cup {NULL}]
         /\ Phase(current)
         /\ QLock \in Locks /\ QLock # NULL
         /\ Consumers \cup Producers \subseteq Threads
         /\ NULL \notin Consumers \cup Producers
BY CurrentFacts, IoAssumption, SyncAssumption, ThreadAssumption
   DEF IoInv, SyncInv, SchedInv, ThreadTypeOK, NoPanic, IoTypeOK, QueuePhase, Clients

(* A wake-up of the other side is one that the locks' users may do, or     *)
(* nothing.                                                                *)
LEMMA WakeupStep ==
  ASSUME IoInv, NEW s \in Sides, wakeup(s), UNCHANGED syncVars, idle \/ intr
  PROVE  /\ waiter[s] = NULL => UNCHANGED vars /\ UNCHANGED waiter
         /\ waiter[s] # NULL =>
              /\ waiter[s] \in Threads /\ wake(waiter[s])
              /\ waiter' = [waiter EXCEPT ![s] = NULL]
         /\ [SyncNext]_vars
<1>1. CASE waiter[s] = NULL
  BY <1>1 DEF wakeup, vars
<1>2. CASE waiter[s] # NULL
  <2>1. /\ waiter[s] \in Threads
        /\ status[waiter[s]] = "TASK_BLOCKED"
        /\ qpc[waiter[s]] = "release"
    BY <1>2, IoCurrent DEF IoInv, SlotSleeps
  <2>2. pc[waiter[s]] = "idle"
    BY <2>1 DEF IoInv, QueuePhase, Phase
  <2>3. wake(waiter[s])
    BY <1>2, <2>1, <2>2 DEF wakeup, wake, BlockedStatus
  <2> QED
    BY <1>2, <2>1, <2>3 DEF wakeup, SyncNext
<1> QED
  BY <1>1, <1>2

(* The four ways through ioq_test and ioq_wait: the assertion on the       *)
(* interrupt flag holds and the waiting slot is free.                      *)
LEMMA TestCases ==
  ASSUME IoInv, ioq_test
  PROVE  /\ at("idle") /\ ~ intr
         /\ current \in Consumers \cup Producers
         /\ qpc[current] \in {"idle", "loop"}
         /\ \/ /\ must_wait(current)
               /\ acquire_test(QLock) /\ holder[QLock] # current
               /\ qpc' = [qpc EXCEPT ![current] = "wait"]
               /\ UNCHANGED <<head, tail, buf, waiter, puts, gets, last>>
            \/ /\ ~ must_wait(current)
               /\ IF current \in Consumers THEN get_byte ELSE put_byte
               /\ wakeup(other(side(current)))
               /\ qpc' = [qpc EXCEPT ![current] = "idle"]
               /\ UNCHANGED syncVars
<1>1. at("idle") /\ ~ intr /\ pc[current] = "idle"
  BY IoCurrent DEF ioq_test, at, Phase
<1>2. held[QLock][current] = 0 /\ holder[QLock] # current
  BY <1>1, IoCurrent DEF ioq_test, Phase, SyncInv, HolderAgrees
<1> QED
  BY <1>1, <1>2 DEF ioq_test

LEMMA WaitCases ==
  ASSUME IoInv, ioq_wait
  PROVE  /\ at("idle") /\ ~ intr /\ qpc[current] = "wait"
         /\ current \in Consumers \cup Producers
         /\ held[QLock][current] = 1
         /\ waiter' = [waiter EXCEPT ![side(current)] = current]
         /\ sleep
         /\ qpc' = [qpc EXCEPT ![current] = "release"]
         /\ UNCHANGED <<head, tail, buf, puts, gets, last>>
<1>1. /\ at("idle") /\ ~ intr /\ qpc[current] = "wait" /\ pc[current] = "idle"
      /\ current \in Consumers \cup Producers
      /\ held[QLock][current] = 1
  BY IoCurrent DEF ioq_wait, at, Phase
<1>2. waiter[side(current)] = NULL
  <2> SUFFICES ASSUME waiter[side(current)] # NULL
               PROVE  FALSE
    OBVIOUS
  <2>1. side(current) \in Sides
    BY DEF side, Sides
  <2>2. /\ status[waiter[side(current)]] = "TASK_BLOCKED"
        /\ Owns(QLock, waiter[side(current)])
        /\ waiter[side(current)] \in Threads
    BY <2>1, IoCurrent DEF IoInv, SlotSleeps
  <2>3. Owns(QLock, current)
    BY <1>1 DEF Owns
  <2>4. waiter[side(current)] = current
    BY <2>2, <2>3, IoCurrent DEF SyncInv, MutualExclusion
  <2> QED
    BY <2>2, <2>4, IoCurrent
<1> QED
  BY <1>1, <1>2 DEF ioq_wait, sleep, idle

(* Every step of the ring buffer's users is a step of a user of the locks. *)
LEMMA IoIsSync ==
  ASSUME IoInv, IoNext
  PROVE  [SyncNext]_vars
<1>1. QLock \in Locks
  BY IoAssumption
<1>2. CASE ioq_test
  <2>1. other(side(current)) \in Sides
    BY DEF other, side, Sides
  <2>2. idle
    BY <1>2, TestCases DEF at, idle
  <2> QED
    BY <1>1, <1>2, <2>1, <2>2, TestCases, WakeupStep DEF SyncNext
<1>3. CASE ioq_wait
  BY <1>3, WaitCases DEF SyncNext
<1>4. CASE ioq_release
  BY <1>1, <1>4 DEF ioq_release, SyncNext
<1>5. CASE keyboard_put
  BY <1>5, WakeupStep DEF keyboard_put, Sides
<1>6. CASE io_client \/ io_lock \/ io_clock
  BY <1>6 DEF io_client, io_lock, io_clock, SyncNext
<1> QED
  BY <1>2, <1>3, <1>4, <1>5, <1>6 DEF IoNext

-----------------------------------------------------------------------------
(* Positions and serial numbers go round: sums and differences modulo the  *)
(* size.                                                                   *)
LEMMA WrapSum ==
  ASSUME NEW m \in Nat \ {0}, NEW a \in 0..m - 1, NEW i \in 0..m
  PROVE  (a + i) % m = IF a + i < m THEN a + i ELSE a + i - m
OBVIOUS

LEMMA WrapDifference ==
  ASSUME NEW m \in Nat \ {0}, NEW a \in 0..m - 1, NEW i \in 0..m - 1
  PROVE  (a - i) % m = IF a >= i THEN a - i ELSE a - i + m
OBVIOUS

(* One step further round, from any distance below the size. *)
LEMMA WrapStep ==
  ASSUME NEW m \in Nat \ {0}, NEW a \in 0..m - 1, NEW i \in 0..m - 1
  PROVE  (((a + 1) % m) + i) % m = (a + (i + 1)) % m
<1>1. 1 \in 0..m /\ i \in 0..m /\ i + 1 \in 0..m
  OBVIOUS
<1>2. (a + 1) % m = IF a + 1 < m THEN a + 1 ELSE a + 1 - m
  BY <1>1, WrapSum
<1>3. (a + (i + 1)) % m = IF a + (i + 1) < m THEN a + (i + 1) ELSE a + (i + 1) - m
  BY <1>1, WrapSum
<1> DEFINE n == (a + 1) % m
<1>4. n \in 0..m - 1
  BY <1>2
<1>5. (n + i) % m = IF n + i < m THEN n + i ELSE n + i - m
  BY <1>1, <1>4, WrapSum
<1> DEFINE lhs == (n + i) % m
           rhs == (a + (i + 1)) % m
<1> HIDE DEF n, lhs, rhs
<1>6. /\ n = IF a + 1 < m THEN a + 1 ELSE a + 1 - m
      /\ rhs = IF a + (i + 1) < m THEN a + (i + 1) ELSE a + (i + 1) - m
      /\ lhs = IF n + i < m THEN n + i ELSE n + i - m
  BY <1>2, <1>3, <1>5 DEF n, lhs, rhs
<1>7. lhs = rhs
  BY <1>6
<1> QED
  BY <1>7 DEF lhs, rhs, n

(* The number of characters in the buffer, and that the position after     *)
(* them is head.                                                           *)
LEMMA PendingRange ==
  ASSUME IoTypeOK
  PROVE  /\ Pending \in 0..BufSize - 1
         /\ Pending = IF head >= tail THEN head - tail ELSE head - tail + BufSize
         /\ (tail + Pending) % BufSize = head
         /\ ioq_empty <=> Pending = 0
         /\ ioq_full <=> Pending = BufSize - 1
<1> USE IoAssumption
<1>1. /\ head \in 0..BufSize - 1 /\ tail \in 0..BufSize - 1
      /\ BufSize \in Nat \ {0} /\ BufSize > 1 /\ 1 \in 0..BufSize
  BY DEF IoTypeOK
<1>2. Pending = IF head >= tail THEN head - tail ELSE head - tail + BufSize
  BY <1>1, WrapDifference DEF Pending
<1>3. Pending \in 0..BufSize - 1 /\ Pending \in 0..BufSize
  BY <1>1, <1>2
<1> HIDE DEF Pending
<1>4. (tail + Pending) % BufSize = head
  <2>1. (tail + Pending) % BufSize = IF tail + Pending < BufSize THEN tail + Pending
                                     ELSE tail + Pending - BufSize
    BY <1>1, <1>3, WrapSum
  <2>2. (IF tail + Pending < BufSize THEN tail + Pending ELSE tail + Pending - BufSize) = head
    BY <1>1, <1>2
  <2> QED
    BY <2>1, <2>2
<1>5. ioq_empty <=> Pending = 0
  BY <1>1, <1>2 DEF ioq_empty
<1>6. ioq_full <=> Pending = BufSize - 1
  <2> DEFINE n == next_pos(head)
  <2>1. n = IF head + 1 < BufSize THEN head + 1 ELSE head + 1 - BufSize
    BY <1>1, WrapSum DEF next_pos
  <2> HIDE DEF n
  <2>2. n = tail <=> Pending = BufSize - 1
    BY <2>1, <1>1, <1>2
  <2> QED
    BY <2>2 DEF ioq_full, n
<1> QED
  BY <1>2, <1>3, <1>4, <1>5, <1>6

(* The part of the type invariant that the buffer's operations touch. *)
BufTypeOK ==
  /\ head \in 0..BufSize - 1
  /\ tail \in 0..BufSize - 1
  /\ buf \in [0..BufSize - 1 -> 0..Serials - 1]
  /\ puts \in 0..Serials - 1
  /\ gets \in 0..Serials - 1
  /\ last \in 0..Serials - 1

(* Each place of the buffer in use, and what it holds. *)
LEMMA PlaceOf ==
  ASSUME IoTypeOK, NEW i \in 0..BufSize - 1
  PROVE  /\ (tail + i) % BufSize \in 0..BufSize - 1
         /\ (tail + i) % BufSize = IF tail + i < BufSize THEN tail + i ELSE tail + i - BufSize
         /\ (gets + i) % Serials \in 0..Serials - 1
         /\ (gets + i) % Serials = IF gets + i < Serials THEN gets + i ELSE gets + i - Serials
<1> USE IoAssumption
<1>1. /\ BufSize \in Nat \ {0} /\ Serials \in Nat \ {0} /\ BufSize < Serials
      /\ tail \in 0..BufSize - 1 /\ gets \in 0..Serials - 1
      /\ i \in 0..BufSize /\ i \in 0..Serials
  BY DEF IoTypeOK
<1>2. (tail + i) % BufSize = IF tail + i < BufSize THEN tail + i ELSE tail + i - BufSize
  BY <1>1, WrapSum
<1>3. (gets + i) % Serials = IF gets + i < Serials THEN gets + i ELSE gets + i - Serials
  BY <1>1, WrapSum
<1> QED
  BY <1>1, <1>2, <1>3

(* A character put into a buffer that is not full comes out after those    *)
(* that are there, and overwrites none of them.                            *)
LEMMA PutByte ==
  ASSUME IoTypeOK, FifoDelivered, ~ ioq_full, put_byte
  PROVE  BufTypeOK' /\ FifoDelivered'
<1> USE IoAssumption
<1>1. /\ head \in 0..BufSize - 1 /\ tail \in 0..BufSize - 1
      /\ buf \in [0..BufSize - 1 -> 0..Serials - 1]
      /\ puts \in 0..Serials - 1 /\ gets \in 0..Serials - 1 /\ last \in 0..Serials - 1
      /\ BufSize \in Nat \ {0} /\ Serials \in Nat \ {0} /\ BufSize < Serials
      /\ 1 \in 0..BufSize /\ 1 \in 0..Serials
  BY DEF IoTypeOK
<1>2. /\ Pending \in 0..BufSize - 2
      /\ Pending = IF head >= tail THEN head - tail ELSE head - tail + BufSize
      /\ (tail + Pending) % BufSize = head
  BY <1>1, PendingRange
<1>3. /\ buf' = [buf EXCEPT ![head] = puts]
      /\ head' = IF head + 1 < BufSize THEN head + 1 ELSE head + 1 - BufSize
      /\ puts' = IF puts + 1 < Serials THEN puts + 1 ELSE puts + 1 - Serials
      /\ UNCHANGED <<tail, gets, last>>
  BY <1>1, WrapSum DEF put_byte, next_pos
<1>4. BufTypeOK'
  BY <1>1, <1>3 DEF BufTypeOK
<1>5. Pending' = Pending + 1
  <2>1. head' \in 0..BufSize - 1 /\ tail' = tail
    BY <1>3, <1>4 DEF BufTypeOK
  <2>2. Pending' = IF head' >= tail THEN head' - tail ELSE head' - tail + BufSize
    BY <1>1, <2>1, WrapDifference DEF Pending
  <2> HIDE DEF Pending
  <2> QED
    BY <1>1, <1>2, <1>3, <2>2
<1> HIDE DEF Pending
<1>6. (gets' + Pending') % Serials = puts'
  <2>1. puts = IF gets + Pending < Serials THEN gets + Pending ELSE gets + Pending - Serials
    <3>1. Pending \in 0..BufSize - 1
      BY <1>1, <1>2
    <3>2. (gets + Pending) % Serials = puts
      BY DEF FifoDelivered
    <3> QED
      BY <3>1, <3>2, PlaceOf
  <2>2. Pending + 1 \in 0..BufSize - 1
    BY <1>1, <1>2
  <2>3. (gets + (Pending + 1)) % Serials
          = IF gets + (Pending + 1) < Serials THEN gets + (Pending + 1)
            ELSE gets + (Pending + 1) - Serials
    BY <2>2, PlaceOf
  <2>4. puts' = IF gets + (Pending + 1) < Serials THEN gets + (Pending + 1)
                ELSE gets + (Pending + 1) - Serials
    BY <1>1, <1>2, <1>3, <2>1
  <2> QED
    BY <2>3, <2>4, <1>3, <1>5
<1>7. ASSUME NEW i \in 0..Pending' - 1
      PROVE  buf'[(tail' + i) % BufSize] = (gets' + i) % Serials
  <2>1. i \in 0..Pending /\ i \in 0..BufSize - 1
    BY <1>1, <1>2, <1>5
  <2>2. CASE i = Pending
    <3>1. (tail + i) % BufSize = head /\ (gets + i) % Serials = puts
      BY <2>2, <1>2 DEF FifoDelivered
    <3> QED
      BY <3>1, <1>1, <1>3
  <2>3. CASE i # Pending
    <3>1. i \in 0..Pending - 1
      BY <2>1, <2>3, <1>2
    <3> DEFINE k == (tail + i) % BufSize
    <3>2. /\ k \in 0..BufSize - 1
          /\ k = IF tail + i < BufSize THEN tail + i ELSE tail + i - BufSize
      BY <2>1, PlaceOf
    <3>3. buf[k] = (gets + i) % Serials
      BY <3>1 DEF FifoDelivered
    <3> HIDE DEF k
    <3>4. k # head
      BY <3>1, <3>2, <1>1, <1>2
    <3>5. buf'[k] = buf[k]
      BY <3>2, <3>4, <1>1, <1>3
    <3> QED
      BY <3>3, <3>5, <1>3 DEF k
  <2> QED
    BY <2>2, <2>3
<1>8. (last' + 1) % Serials = gets'
  BY <1>3 DEF FifoDelivered
<1> QED
  BY <1>4, <1>6, <1>7, <1>8 DEF FifoDelivered

(* What is read from a buffer that is not empty is the oldest character,   *)
(* the successor of the one read before.                                   *)
LEMMA GetByte ==
  ASSUME IoTypeOK, FifoDelivered, ~ ioq_empty, get_byte
  PROVE  BufTypeOK' /\ FifoDelivered'
<1> USE IoAssumption
<1>1. /\ head \in 0..BufSize - 1 /\ tail \in 0..BufSize - 1
      /\ buf \in [0..BufSize - 1 -> 0..Serials - 1]
      /\ puts \in 0..Serials - 1 /\ gets \in 0..Serials - 1 /\ last \in 0..Serials - 1
      /\ BufSize \in Nat \ {0} /\ Serials \in Nat \ {0} /\ BufSize < Serials
      /\ 1 \in 0..BufSize /\ 1 \in 0..Serials /\ 0 \in 0..BufSize - 1
  BY DEF IoTypeOK
<1>2. /\ Pending \in 1..BufSize - 1
      /\ Pending = IF head >= tail THEN head - tail ELSE head - tail + BufSize
  BY <1>1, PendingRange
<1>3. /\ last' = buf[tail]
      /\ gets' = (gets + 1) % Serials
      /\ tail' = (tail + 1) % BufSize
      /\ UNCHANGED <<head, buf, puts>>
  BY DEF get_byte, next_pos
<1>4. /\ tail' = IF tail + 1 < BufSize THEN tail + 1 ELSE tail + 1 - BufSize
      /\ gets' = IF gets + 1 < Serials THEN gets + 1 ELSE gets + 1 - Serials
  BY <1>1, <1>3, WrapSum
<1>5. BufTypeOK'
  <2>1. tail' \in 0..BufSize - 1 /\ gets' \in 0..Serials - 1
    BY <1>1, <1>4
  <2>2. last' \in 0..Serials - 1 /\ UNCHANGED <<head, buf, puts>>
    BY <1>1, <1>3
  <2> QED
    BY <2>1, <2>2, <1>1 DEF BufTypeOK
<1>6. Pending' = Pending - 1
  <2>1. tail' \in 0..BufSize - 1 /\ head' = head
    BY <1>3, <1>5 DEF BufTypeOK
  <2>2. Pending' = IF head >= tail' THEN head - tail' ELSE head - tail' + BufSize
    BY <1>1, <2>1, WrapDifference DEF Pending
  <2> HIDE DEF Pending
  <2> QED
    BY <1>1, <1>2, <1>4, <2>2
<1> HIDE DEF Pending
<1>7. last' = gets
  <2>1. buf[(tail + 0) % BufSize] = (gets + 0) % Serials
    BY <1>2 DEF FifoDelivered
  <2>2. (tail + 0) % BufSize = tail /\ (gets + 0) % Serials = gets
    BY <1>1, PlaceOf
  <2> QED
    BY <2>1, <2>2, <1>3
<1>8. (gets' + Pending') % Serials = puts'
  <2>1. Pending - 1 \in 0..Serials - 1 /\ Pending - 1 + 1 = Pending
    BY <1>1, <1>2
  <2>2. (((gets + 1) % Serials) + (Pending - 1)) % Serials = (gets + (Pending - 1 + 1)) % Serials
    BY <1>1, <2>1, WrapStep
  <2>3. (gets + Pending) % Serials = puts
    BY DEF FifoDelivered
  <2> QED
    BY <2>1, <2>2, <2>3, <1>3, <1>6
<1>9. ASSUME NEW i \in 0..Pending' - 1
      PROVE  buf'[(tail' + i) % BufSize] = (gets' + i) % Serials
  <2>1. i \in 0..BufSize - 1 /\ i \in 0..Serials - 1 /\ i + 1 \in 0..Pending - 1
    BY <1>1, <1>2, <1>6
  <2>2. (((tail + 1) % BufSize) + i) % BufSize = (tail + (i + 1)) % BufSize
    BY <1>1, <2>1, WrapStep
  <2>3. (((gets + 1) % Serials) + i) % Serials = (gets + (i + 1)) % Serials
    BY <1>1, <2>1, WrapStep
  <2>4. buf[(tail + (i + 1)) % BufSize] = (gets + (i + 1)) % Serials
    BY <2>1 DEF FifoDelivered
  <2> QED
    BY <2>2, <2>3, <2>4, <1>3
<1>10. (last' + 1) % Serials = gets'
  BY <1>3, <1>7
<1> QED
  BY <1>5, <1>8, <1>9, <1>10 DEF FifoDelivered

-----------------------------------------------------------------------------
(* The steps of one thread leave the phases of the others alone. *)
LEMMA PhaseFrame ==
  ASSUME IoInv, SyncNext, NEW c \in Threads, c = current,
         \A t \in Threads : t # c => qpc'[t] = qpc[t],
         Phase(c)'
  PROVE  QueuePhase'
<1> SUFFICES ASSUME NEW t \in Threads, t # c
             PROVE  Phase(t)'
  BY DEF QueuePhase
<1>1. /\ pc'[t] = pc[t] /\ lk'[t] = lk[t] /\ old'[t] = old[t] /\ qpc'[t] = qpc[t]
      /\ held'[QLock][t] = held[QLock][t]
      /\ status[t] # "TASK_NONE" => status'[t] # "TASK_NONE" /\ eflags'[t] = eflags[t]
      /\ current' # current => intr' = eflags'[current']
  BY OtherThreads, IoCurrent
<1>2. Phase(t)
  BY DEF IoInv, QueuePhase
<1>3. qpc[t] # "idle" => IF t = current' THEN ~ intr' ELSE ~ eflags'[t]
  BY <1>1, <1>2 DEF Phase
<1> QED
  BY <1>1, <1>2, <1>3 DEF Phase

(* A step that neither wakes a thread nor touches the waiting slots keeps  *)
(* those who sleep in them.                                                *)
LEMMA SlotFrame ==
  ASSUME IoInv,
         \/ \E l \in Locks : acquire_test(l) \/ release_test(l)
         \/ lock_step \/ client_step \/ sleep \/ clock,
         NEW s \in Sides, waiter'[s] = waiter[s], waiter[s] # NULL,
         \A t \in Threads : t # current => qpc'[t] = qpc[t]
  PROVE  /\ status'[waiter'[s]] = "TASK_BLOCKED"
         /\ side(waiter'[s]) = s
         /\ qpc'[waiter'[s]] = "release"
         /\ Owns(QLock, waiter[s])'
<1> DEFINE u == waiter[s]
<1>1. /\ u \in Threads /\ status[u] = "TASK_BLOCKED" /\ side(u) = s
      /\ qpc[u] = "release" /\ u # current
  BY IoCurrent DEF IoInv, SlotSleeps
<1>2. pc[u] = "idle" /\ held[QLock][u] = 1
  BY <1>1 DEF IoInv, QueuePhase, Phase
<1>3. status'[u] = "TASK_BLOCKED"
  BY <1>1, <1>2, SleeperKept, IoCurrent
<1>4. held'[QLock][u] = 1
  BY <1>1, <1>2, OtherThreads, IoCurrent DEF SyncNext
<1> QED
  BY <1>1, <1>3, <1>4 DEF Owns

(* A wake-up takes the sleeper of one side out of its slot and leaves the  *)
(* other side alone.                                                       *)
LEMMA WakeupInv ==
  ASSUME IoInv, NEW c \in Sides, wakeup(c), UNCHANGED syncVars, idle \/ intr,
         qpc' = [qpc EXCEPT ![current] = qpc'[current]],
         qpc'[current] \in QPC, qpc'[current] \in {qpc[current], "idle"},
         qpc'[current] # qpc[current] => qpc[current] = "loop" /\ pc[current] = "idle",
         BufTypeOK', FifoDelivered'
  PROVE  IoInv'
<1> USE IoAssumption
<1>1. /\ \A s \in Sides : waiter'[s] = IF s = c THEN NULL ELSE waiter[s]
      /\ waiter' \in [Sides -> Consumers \cup Producers \cup {NULL}]
  BY WakeupStep, IoCurrent
<1>2. SyncInv'
  BY WakeupStep, IoCurrent, SyncStep
<1>3. /\ current' = current /\ intr' = intr /\ eflags' = eflags
      /\ \A t \in Threads : t # waiter[c] => status'[t] = status[t]
      /\ \A t \in Threads : status[t] # "TASK_NONE" => status'[t] # "TASK_NONE"
  <2>1. CASE waiter[c] = NULL
    BY <2>1, WakeupStep DEF vars, threadVars
  <2>2. CASE waiter[c] # NULL
    <3>1. ~ panic'
      BY <1>2 DEF SyncInv, SchedInv, NoPanic
    <3>2. waiter[c] \in Threads /\ wake(waiter[c])
      BY <2>2, WakeupStep
    <3>3. /\ status' = [status EXCEPT ![waiter[c]] = "TASK_READY"]
          /\ UNCHANGED <<current, intr, eflags>>
      BY <3>1, <3>2 DEF wake, thread_unblock, panic_spin
    <3> QED
      BY <3>2, <3>3, IoCurrent
  <2> QED
    BY <2>1, <2>2
<1>4. IoTypeOK'
  BY <1>1, IoCurrent DEF IoTypeOK, BufTypeOK
<1>5. \A t \in Threads : qpc'[t] = qpc[t] \/ (t = current /\ qpc[t] = "loop" /\ qpc'[t] = "idle" /\ pc[t] = "idle")
  BY IoCurrent
<1>6. QueuePhase'
  <2> SUFFICES ASSUME NEW t \in Threads
               PROVE  Phase(t)'
    BY DEF QueuePhase
  <2>1. Phase(t)
    BY DEF IoInv, QueuePhase
  <2>2. UNCHANGED <<pc, lk, old, held>>
    BY DEF syncVars
  <2> QED
    BY <1>3, <1>5, <2>1, <2>2 DEF Phase
<1>7. SlotSleeps'
  <2> SUFFICES ASSUME NEW s \in Sides, waiter'[s] # NULL
               PROVE  /\ status'[waiter'[s]] = "TASK_BLOCKED"
                      /\ side(waiter'[s]) = s
                      /\ qpc'[waiter'[s]] = "release"
                      /\ Owns(QLock, waiter[s])'
    BY DEF SlotSleeps
  <2> DEFINE u == waiter[s]
  <2>1. s # c /\ waiter'[s] = u
    BY <1>1
  <2>2. /\ u \in Threads /\ status[u] = "TASK_BLOCKED" /\ side(u) = s
        /\ qpc[u] = "release" /\ Owns(QLock, u)
    BY <2>1, IoCurrent DEF IoInv, SlotSleeps
  <2>3. u # waiter[c]
    <3> SUFFICES ASSUME u = waiter[c]
                 PROVE  FALSE
      OBVIOUS
    <3>1. waiter[c] # NULL
      BY <2>1
    <3>2. side(waiter[c]) = c
      BY <3>1 DEF IoInv, SlotSleeps
    <3> QED
      BY <3>2, <2>1, <2>2
  <2>4. status'[u] = "TASK_BLOCKED" /\ qpc'[u] = "release"
    BY <2>2, <2>3, <1>3, <1>5
  <2>5. Owns(QLock, waiter[s])'
    BY <2>1, <2>2 DEF Owns, syncVars
  <2> QED
    BY <2>1, <2>2, <2>4, <2>5
<1> QED
  BY <1>2, <1>4, <1>6, <1>7 DEF IoInv

(* What a call does to the buffer when it does not have to wait. *)
LEMMA TestInv ==
  ASSUME IoInv, ioq_test
  PROVE  IoInv'
<1> USE IoAssumption
<1>1. /\ at("idle") /\ ~ intr /\ pc[current] = "idle"
      /\ current \in Consumers \cup Producers
      /\ qpc[current] \in {"idle", "loop"}
  BY TestCases DEF at
<1>2. CASE ~ must_wait(current)
  <2>1. /\ IF current \in Consumers THEN get_byte ELSE put_byte
        /\ wakeup(other(side(current)))
        /\ qpc' = [qpc EXCEPT ![current] = "idle"]
        /\ UNCHANGED syncVars
    BY <1>2, TestCases
  <2>2. BufTypeOK' /\ FifoDelivered'
    BY <1>2, <2>1, GetByte, PutByte DEF must_wait, IoInv
  <2>3. qpc'[current] = "idle"
    BY <2>1, IoCurrent
  <2>4. other(side(current)) \in Sides
    BY DEF other, side, Sides
  <2>5. qpc' = [qpc EXCEPT ![current] = qpc'[current]]
    BY <2>1, <2>3
  <2>6. /\ qpc'[current] \in QPC /\ qpc'[current] \in {qpc[current], "idle"}
        /\ qpc'[current] # qpc[current] => qpc[current] = "loop" /\ pc[current] = "idle"
    BY <1>1, <2>3 DEF QPC
  <2> QED
    BY <1>1, <2>1, <2>2, <2>4, <2>5, <2>6, WakeupInv DEF idle
<1>3. CASE must_wait(current)
  <2>1. /\ acquire_test(QLock) /\ holder[QLock] # current
        /\ qpc' = [qpc EXCEPT ![current] = "wait"]
        /\ UNCHANGED <<head, tail, buf, waiter, puts, gets, last>>
    BY <1>3, TestCases
  <2>2. /\ pc' = [pc EXCEPT ![current] = "down"] /\ lk' = [lk EXCEPT ![current] = QLock]
        /\ UNCHANGED <<threadVars, old, held>>
    BY <2>1 DEF acquire_test, goto
  <2>3. SyncInv'
    BY <2>1, IoCurrent, AcquireTest
  <2>4. IoTypeOK' /\ FifoDelivered'
    BY <2>1, IoCurrent DEF IoInv, IoTypeOK, QPC, FifoDelivered, Pending
  <2>5. \A t \in Threads : qpc'[t] = IF t = current THEN "wait" ELSE qpc[t]
    BY <2>1, IoCurrent
  <2>6. QueuePhase'
    <3>1. PICK c \in Threads : c = current
      BY IoCurrent
    <3>2. Phase(c)
      BY DEF IoInv, QueuePhase
    <3>3. /\ pc'[c] = "down" /\ lk'[c] = QLock /\ qpc'[c] = "wait"
          /\ UNCHANGED <<old, held, current, intr, status, eflags>>
      BY <2>2, <2>5, <3>1, CurrentFacts, IoCurrent DEF threadVars
    <3>4. Phase(c)'
      BY <1>1, <3>1, <3>2, <3>3, IoCurrent DEF Phase
    <3> QED
      BY <2>1, <2>5, <3>1, <3>4, PhaseFrame, IoCurrent DEF SyncNext
  <2>7. SlotSleeps'
    BY <2>1, <2>5, SlotFrame, IoCurrent DEF SlotSleeps
  <2> QED
    BY <2>3, <2>4, <2>6, <2>7 DEF IoInv
<1> QED
  BY <1>2, <1>3

(* ioq_wait: the thread goes to sleep in its own slot. *)
LEMMA WaitInv ==
  ASSUME IoInv, ioq_wait
  PROVE  IoInv'
<1> USE IoAssumption
<1>1. /\ at("idle") /\ ~ intr /\ qpc[current] = "wait" /\ pc[current] = "idle"
      /\ current \in Consumers \cup Producers
      /\ held[QLock][current] = 1
      /\ waiter' = [waiter EXCEPT ![side(current)] = current]
      /\ sleep
      /\ qpc' = [qpc EXCEPT ![current] = "release"]
      /\ UNCHANGED <<head, tail, buf, puts, gets, last>>
      /\ UNCHANGED syncVars
  BY WaitCases DEF at, sleep
<1>2. SyncNext /\ SyncInv'
  BY <1>1, IoCurrent, SyncStep DEF SyncNext
<1>3. side(current) \in Sides
  BY DEF side, Sides
<1>4. /\ \A s \in Sides : waiter'[s] = IF s = side(current) THEN current ELSE waiter[s]
      /\ \A t \in Threads : qpc'[t] = IF t = current THEN "release" ELSE qpc[t]
  BY <1>1, <1>3, IoCurrent
<1>5. IoTypeOK' /\ FifoDelivered'
  <2>1. /\ waiter' \in [Sides -> Consumers \cup Producers \cup {NULL}]
        /\ qpc' \in [Threads -> QPC]
    BY <1>1, <1>3, IoCurrent DEF QPC
  <2>2. UNCHANGED <<head, tail, buf, puts, gets, last>>
    BY <1>1
  <2> QED
    BY <2>1, <2>2 DEF IoInv, IoTypeOK, FifoDelivered, Pending
<1>6. PICK c \in Threads : c = current
  BY IoCurrent
<1>7. /\ current' # c /\ status'[c] = "TASK_BLOCKED" /\ ~ eflags'[c]
  BY <1>1, <1>6, IoCurrent, BlockEffect DEF sleep
<1>8. UNCHANGED <<pc, lk, old, held>>
  BY <1>1 DEF syncVars
<1>9. QueuePhase'
  <2>1. Phase(c)
    BY DEF IoInv, QueuePhase
  <2>2. Phase(c)'
    BY <1>1, <1>4, <1>6, <1>7, <1>8, <2>1 DEF Phase
  <2> QED
    BY <1>2, <1>4, <1>6, <2>2, PhaseFrame
<1>10. SlotSleeps'
  <2> SUFFICES ASSUME NEW s \in Sides, waiter'[s] # NULL
               PROVE  /\ status'[waiter'[s]] = "TASK_BLOCKED"
                      /\ side(waiter'[s]) = s
                      /\ qpc'[waiter'[s]] = "release"
                      /\ Owns(QLock, waiter[s])'
    BY DEF SlotSleeps
  <2>1. CASE s = side(current)
    <3>1. waiter'[s] = c
      BY <2>1, <1>4, <1>6
    <3>2. held'[QLock][c] = 1
      BY <1>1, <1>6, <1>8
    <3> QED
      BY <2>1, <3>1, <3>2, <1>4, <1>6, <1>7 DEF Owns
  <2>2. CASE s # side(current)
    BY <2>2, <1>1, <1>4, SlotFrame
  <2> QED
    BY <2>1, <2>2
<1> QED
  BY <1>2, <1>5, <1>9, <1>10 DEF IoInv

(* lock_release after ioq_wait. *)
LEMMA ReleaseInv ==
  ASSUME IoInv, ioq_release
  PROVE  IoInv'
<1> USE IoAssumption
<1>1. /\ at("idle") /\ qpc[current] = "release" /\ pc[current] = "idle"
      /\ release_test(QLock)
      /\ qpc' = [qpc EXCEPT ![current] = "loop"]
      /\ UNCHANGED <<head, tail, buf, waiter, puts, gets, last>>
  BY DEF ioq_release, at
<1>2. /\ SyncNext /\ SyncInv' /\ UNCHANGED threadVars
  BY <1>1, IoCurrent, ReleaseTest DEF SyncNext
<1>3. PICK c \in Threads : c = current
  BY IoCurrent
<1>4. held[QLock][c] = 1 /\ holder[QLock] = c /\ repeat_nr[QLock] = 1
  BY <1>1, <1>3, IoCurrent DEF Phase, SyncInv, HolderAgrees
<1>5. /\ pc'[c] = "clr" /\ lk'[c] = QLock /\ held'[QLock][c] = 0 /\ old' = old
  BY <1>1, <1>3, <1>4, CurrentFacts, IoCurrent DEF release_test, goto
<1>6. \A t \in Threads : qpc'[t] = IF t = current THEN "loop" ELSE qpc[t]
  BY <1>1, IoCurrent
<1>7. QueuePhase'
  <2>1. Phase(c)
    BY DEF IoInv, QueuePhase
  <2>2. UNCHANGED <<current, intr, status, eflags>>
    BY <1>2 DEF threadVars
  <2>3. Phase(c)'
    BY <1>1, <1>3, <1>5, <1>6, <2>1, <2>2 DEF Phase
  <2> QED
    BY <1>2, <1>3, <1>6, <2>3, PhaseFrame
<1>8. IoTypeOK' /\ FifoDelivered'
  BY <1>1, IoCurrent DEF IoInv, IoTypeOK, QPC, FifoDelivered, Pending
<1>9. SlotSleeps'
  BY <1>1, <1>6, SlotFrame, IoCurrent DEF SlotSleeps
<1> QED
  BY <1>2, <1>7, <1>8, <1>9 DEF IoInv

(* The keyboard's interrupt handler runs when nobody is inside a call. *)
LEMMA KeyboardInv ==
  ASSUME IoInv, keyboard_put
  PROVE  IoInv'
<1>1. intr /\ ~ ioq_full /\ put_byte /\ wakeup("consumer") /\ UNCHANGED <<syncVars, qpc>>
  BY DEF keyboard_put
<1>2. BufTypeOK' /\ FifoDelivered'
  BY <1>1, PutByte DEF IoInv
<1>3. qpc' = [qpc EXCEPT ![current] = qpc'[current]] /\ qpc'[current] \in QPC
  BY <1>1, IoCurrent
<1> QED
  BY <1>1, <1>2, <1>3, WakeupInv DEF Sides

(* Inside the lock functions: with interrupts off from the first test of   *)
(* holder to the end of lock_release.                                      *)
LEMMA LockInv ==
  ASSUME IoInv, io_lock
  PROVE  IoInv'
<1> USE IoAssumption
<1>1. lock_step /\ UNCHANGED ioVars
  BY DEF io_lock
<1>2. SyncNext /\ SyncInv' /\ ~ panic'
  BY <1>1, IoCurrent, SyncStep DEF SyncNext, SyncInv, SchedInv, NoPanic
<1>3. IoTypeOK' /\ FifoDelivered'
  BY <1>1 DEF ioVars, IoInv, IoTypeOK, FifoDelivered, Pending
<1>4. SlotSleeps'
  BY <1>1, SlotFrame DEF ioVars, SlotSleeps
<1>5. PICK c \in Threads : c = current
  BY IoCurrent
<1>6. /\ Phase(c) /\ lk[c] \in {QLock, NULL} /\ qpc' = qpc
      /\ pc \in [Threads -> PC] /\ lk \in [Threads -> Locks \cup {NULL}]
      /\ old \in [Threads -> BOOLEAN]
      /\ held \in [Locks -> [Threads -> 0..MaxDepth]]
      /\ status[c] = "TASK_RUNNING"
      /\ pc[c] # "idle" => lk[c] = QLock
  BY <1>1, <1>5, CurrentFacts, IoCurrent DEF IoInv, QueuePhase, Phase, ioVars, SyncInv, SyncTypeOK, LockPhase
<1>7. Phase(c)'
  <2>1. CASE acquire_down \/ acquire_retry
    <3>1. pc[c] \in {"down", "wait"} /\ qpc[c] = "wait" /\ ~ intr /\ ~ old[c]
      BY <2>1, <1>5, <1>6 DEF acquire_down, acquire_retry, at, Phase, QPC, IoInv, IoTypeOK
    <3>2. sema_dowm(lk[c], FALSE) /\ UNCHANGED held
      BY <2>1, <3>1, <1>5, <1>6, IoCurrent DEF acquire_down, acquire_retry
    <3>3. CASE thread_block("TASK_BLOCKED", FALSE)
      <4>1. /\ current' # c /\ status'[c] = "TASK_BLOCKED" /\ ~ eflags'[c]
        BY <3>3, <1>5, IoCurrent, BlockEffect
      <4>2. /\ pc'[c] = "wait" /\ lk'[c] = lk[c] /\ ~ old'[c]
        BY <1>2, <3>2, <3>3, <4>1, <1>5, <1>6 DEF sema_dowm, goto, intr_set_status, panic_spin
      <4> QED
        BY <3>1, <3>2, <4>1, <4>2, <1>6 DEF Phase
    <3>4. CASE ~ thread_block("TASK_BLOCKED", FALSE)
      <4>1. /\ intr_set_status(FALSE) /\ pc'[c] = "own" /\ lk'[c] = lk[c] /\ ~ old'[c]
        BY <1>2, <3>2, <3>4, <1>5, <1>6 DEF sema_dowm, goto, panic_spin
      <4> QED
        BY <3>1, <3>2, <4>1, <1>5, <1>6 DEF Phase, intr_set_status
    <3> QED
      BY <3>3, <3>4
  <2>2. CASE acquire_holder \/ release_count
    <3>1. /\ UNCHANGED <<threadVars, old, held>>
          /\ lk'[c] = lk[c]
          /\ \/ pc[c] = "own" /\ pc'[c] = "cnt"
             \/ pc[c] = "clr" /\ pc'[c] = "up"
      BY <2>2, <1>5, <1>6 DEF acquire_holder, release_count, at, goto
    <3> QED
      BY <3>1, <1>6 DEF Phase, threadVars
  <2>3. CASE acquire_count
    <3>1. /\ UNCHANGED threadVars /\ pc[c] = "cnt"
      BY <2>3, <1>5, IoCurrent, AcquireCount DEF acquire_count, at
    <3>2. /\ UNCHANGED old /\ lk'[c] = NULL /\ pc'[c] = "idle" /\ held'[QLock][c] = 1
      BY <2>3, <3>1, <1>2, <1>5, <1>6 DEF acquire_count, goto, panic_spin
    <3>3. qpc[c] = "wait"
      BY <3>1, <1>6, IoCurrent DEF Phase, QPC
    <3> QED
      BY <3>1, <3>2, <3>3, <1>6 DEF Phase, threadVars
  <2>4. CASE release_up
    <3>1. /\ pc[c] = "up" /\ pc'[c] = "idle" /\ lk'[c] = NULL /\ UNCHANGED <<old, held>>
      BY <2>4, <1>5, <1>6 DEF release_up, at, goto
    <3>2. qpc[c] = "loop" /\ held[QLock][c] = 0
      BY <3>1, <1>6, IoCurrent DEF Phase, QPC
    <3>3. UNCHANGED threadVars \/ thread_unblock(list_pop(waiters[lk[current]]))
      BY <1>2, <2>4 DEF release_up, sema_up, panic_spin
    <3>4. UNCHANGED <<current, intr, eflags>>
      BY <1>2, <3>3 DEF threadVars, thread_unblock, panic_spin
    <3>5. status'[c] # "TASK_NONE"
      BY <1>2, <1>5, IoCurrent, OtherThreads
    <3> QED
      BY <3>1, <3>2, <3>4, <3>5, <1>6 DEF Phase
  <2> QED
    BY <1>1, <2>1, <2>2, <2>3, <2>4 DEF lock_step
<1>8. QueuePhase'
  BY <1>2, <1>5, <1>6, <1>7, PhaseFrame
<1> QED
  BY <1>2, <1>3, <1>4, <1>8 DEF IoInv

(* Between two calls, and when the clock interrupts a thread that is       *)
(* between two calls: in all other places interrupts are off.              *)
LEMMA OutsideInv ==
  ASSUME IoInv, io_client \/ io_clock
  PROVE  IoInv'
<1> USE IoAssumption
<1>1. (client_step \/ clock) /\ UNCHANGED ioVars /\ UNCHANGED syncVars
  BY DEF io_client, io_clock, client_step, clock
<1>2. SyncNext /\ SyncInv'
  BY <1>1, IoCurrent, SyncStep DEF SyncNext
<1>3. IoTypeOK' /\ FifoDelivered'
  BY <1>1 DEF ioVars, IoInv, IoTypeOK, FifoDelivered, Pending
<1>4. SlotSleeps'
  BY <1>1, SlotFrame DEF ioVars, SlotSleeps
<1>5. PICK c \in Threads : c = current
  BY IoCurrent
<1>6. qpc[c] = "idle"
  BY <1>5, IoCurrent DEF io_client, io_clock, clock, clock_interrupt_handler, Phase
<1>7. Phase(c)'
  <2>1. Phase(c)
    BY DEF IoInv, QueuePhase
  <2>2. UNCHANGED <<pc, lk, old, held, qpc>>
    BY <1>1 DEF syncVars, ioVars
  <2> QED
    BY <2>1, <2>2, <1>6 DEF Phase
<1>8. QueuePhase'
  BY <1>1, <1>2, <1>5, <1>7, PhaseFrame DEF ioVars
<1> QED
  BY <1>2, <1>3, <1>4, <1>8 DEF IoInv

-----------------------------------------------------------------------------
(* Every step of the ring buffer's users keeps the invariant. *)
LEMMA IoStep ==
  ASSUME IoInv, [IoNext]_allVars
  PROVE  IoInv'
<1>1. CASE UNCHANGED allVars
  <2>1. /\ UNCHANGED vars /\ UNCHANGED ioVars
    BY <1>1 DEF allVars
  <2>2. SyncInv'
    BY <2>1, IoCurrent, SyncStep
  <2>3. IoTypeOK' /\ FifoDelivered'
    BY <2>1 DEF ioVars, IoInv, IoTypeOK, FifoDelivered, Pending
  <2>4. SlotSleeps' /\ QueuePhase'
    BY <2>1 DEF ioVars, vars, threadVars, syncVars, IoInv, SlotSleeps, QueuePhase, Phase, Owns
  <2> QED
    BY <2>2, <2>3, <2>4 DEF IoInv
<1> QED
  BY <1>1, TestInv, WaitInv, ReleaseInv, KeyboardInv, LockInv, OutsideInv DEF IoNext

(* The buffer is empty at first and nobody waits. *)
LEMMA IoInitInv ==
  ASSUME IoInit
  PROVE  IoInv
<1> USE IoAssumption, ThreadAssumption, SyncAssumption
<1>1. SyncInv
  BY SyncInitInv DEF IoInit
<1>2. IoTypeOK
  BY DEF IoInit, IoTypeOK, QPC
<1>3. FifoDelivered
  <2>1. Pending = 0 /\ gets = 0 /\ puts = 0 /\ last = Serials - 1
    BY <1>2, PendingRange DEF IoInit, ioq_empty
  <2>2. Serials \in Nat \ {0} /\ Serials - 1 \in 0..Serials - 1 /\ 0 \in 0..Serials - 1
        /\ 0 \in 0..Serials /\ 1 \in 0..Serials
    OBVIOUS
  <2>3. (0 + 0) % Serials = 0 /\ (Serials - 1 + 1) % Serials = 0
    BY <2>2, WrapSum
  <2>4. 0..Pending - 1 = {}
    BY <2>1
  <2> QED
    BY <2>1, <2>3, <2>4 DEF FifoDelivered
<1>4. SlotSleeps
  BY DEF IoInit, SlotSleeps
<1>5. QueuePhase
  BY DEF IoInit, SyncInit, QueuePhase, Phase
<1> QED
  BY <1>1, <1>2, <1>3, <1>4, <1>5 DEF IoInv

(* The invariant of the ring buffer holds in every reachable state. *)
THEOREM QueueSafe == IoSafe => []IoInv
<1>1. IoInit => IoInv
  BY IoInitInv
<1>2. IoInv /\ [IoNext]_allVars => IoInv'
  BY IoStep
<1> QED
  BY <1>1, <1>2, PTL DEF IoSafe

(* The variables of ioqueue.c keep their types: head and tail stay inside  *)
(* the buffer.                                                             *)
THEOREM QueueTypes == IoSafe => []IoTypeOK
<1>1. IoInv => IoTypeOK
  BY DEF IoInv
<1> QED
  BY <1>1, QueueSafe, PTL

(* However readers, writers and the keyboard interleave, characters come   *)
(* out of the ring buffer in the order they were put in, each once.        *)
THEOREM QueueFifo == IoSafe => []FifoDelivered
<1>1. IoInv => FifoDelivered
  BY DEF IoInv
<1> QED
  BY <1>1, QueueSafe, PTL

(* A waiting slot of ioqueue.c names a thread that sleeps with the lock;   *)
(* so wakeup always finds one that thread_unblock accepts.                 *)
THEOREM QueueSlots == IoSafe => []SlotSleeps
<1>1. IoInv => SlotSleeps
  BY DEF IoInv
<1> QED
  BY <1>1, QueueSafe, PTL

(* No assertion of ioqueue.c, sync.c or thread.c fires in the ring         *)
(* buffer's users: interrupts are off at every test, and the slot of a     *)
(* thread that waits is free.                                              *)
THEOREM QueueNoPanic == IoSafe => []NoPanic
<1>1. IoInv => NoPanic
  BY DEF IoInv, SyncInv, SchedInv
<1> QED
  BY <1>1, QueueSafe, PTL

(* Seen from sync.c the ring buffer's users are ordinary users of locks;   *)
(* so all that is proved of the locks holds of them.                       *)
THEOREM QueueRefines == IoSafe => LocksImplemented
<1>1. IoInit => SyncInit
  BY DEF IoInit
<1>2. IoInv /\ [IoNext]_allVars => [SyncNext]_vars
  BY IoIsSync DEF allVars
<1> QED
  BY <1>1, <1>2, QueueSafe, PTL DEF IoSafe, LocksImplemented, SyncSafe

-----------------------------------------------------------------------------
(* The queue as the keyboard driver uses it: nobody calls ioq_putchar but  *)
(* the interrupt handler, and one thread reads.                            *)
OneReader == Producers = {} /\ \A a, b \in Consumers : a = b

(* The reader then gets the lock at once: from the test of the buffer to   *)
(* its sleep nothing else runs.                                            *)
ReaderAlone ==
  /\ \A t \in Threads : qpc[t] = "wait" => t = current /\ ioq_empty
  /\ SleepsOnlyWhenEmpty

(* Every step keeps it: the lock is free when the reader asks for it. *)
LEMMA ReaderStep ==
  ASSUME OneReader, IoInv, ReaderAlone, [IoNext]_allVars
  PROVE  ReaderAlone'
<1> USE IoAssumption
<1>1. \A t, u \in Threads : qpc[t] # "idle" /\ qpc[u] # "idle" => t = u
  BY DEF OneReader, IoInv, QueuePhase, Phase
<1>2. "consumer" \in Sides /\ IoInv'
  BY IoStep DEF Sides
<1>3. CASE UNCHANGED allVars
  BY <1>3 DEF allVars, vars, threadVars, ioVars, ReaderAlone, SleepsOnlyWhenEmpty, ioq_empty
<1>4. CASE ioq_test
  <2>1. \A t \in Threads : qpc[t] = "wait" => FALSE
    BY <1>1, <1>4, TestCases, IoCurrent DEF ReaderAlone
  <2>2. current \in Consumers
    BY <1>4, TestCases DEF OneReader
  <2>3. CASE must_wait(current)
    <3>1. /\ acquire_test(QLock)
          /\ qpc' = [qpc EXCEPT ![current] = "wait"]
          /\ UNCHANGED <<head, tail, waiter>>
      BY <1>4, <2>3, TestCases
    <3>2. UNCHANGED current
      BY <3>1 DEF acquire_test, threadVars
    <3>3. ioq_empty
      BY <2>2, <2>3 DEF must_wait
    <3> QED
      BY <2>1, <3>1, <3>2, <3>3, IoCurrent DEF ReaderAlone, SleepsOnlyWhenEmpty, ioq_empty
  <2>4. CASE ~ must_wait(current)
    <3>1. waiter["consumer"] = NULL
      BY <2>2, <2>4 DEF must_wait, ReaderAlone, SleepsOnlyWhenEmpty
    <3>2. /\ wakeup("producer")
          /\ qpc' = [qpc EXCEPT ![current] = "idle"]
      BY <1>4, <2>2, <2>4, TestCases DEF other, side
    <3>3. waiter'["consumer"] = NULL
      BY <3>1, <3>2, IoCurrent, <1>2 DEF wakeup
    <3> QED
      BY <2>1, <3>2, <3>3, IoCurrent DEF ReaderAlone, SleepsOnlyWhenEmpty
  <2> QED
    BY <2>3, <2>4
<1>5. CASE ioq_wait
  <2>1. /\ qpc[current] = "wait" /\ qpc' = [qpc EXCEPT ![current] = "release"]
        /\ UNCHANGED <<head, tail>>
    BY <1>5, WaitCases
  <2>2. ioq_empty
    BY <2>1, IoCurrent DEF ReaderAlone
  <2>3. \A t \in Threads : qpc'[t] # "wait"
    BY <2>1, IoCurrent DEF ReaderAlone
  <2> QED
    BY <2>1, <2>2, <2>3 DEF ReaderAlone, SleepsOnlyWhenEmpty, ioq_empty
<1>6. CASE ioq_release
  <2>1. /\ qpc[current] = "release" /\ qpc' = [qpc EXCEPT ![current] = "loop"]
        /\ UNCHANGED <<head, tail, waiter>>
    BY <1>6 DEF ioq_release
  <2>2. \A t \in Threads : qpc'[t] # "wait"
    BY <2>1, IoCurrent DEF ReaderAlone
  <2> QED
    BY <2>1, <2>2 DEF ReaderAlone, SleepsOnlyWhenEmpty, ioq_empty
<1>7. CASE keyboard_put
  <2>1. intr /\ wakeup("consumer") /\ UNCHANGED qpc
    BY <1>7 DEF keyboard_put
  <2>2. waiter'["consumer"] = NULL
    BY <2>1, <1>2, IoCurrent DEF wakeup
  <2>3. \A t \in Threads : qpc'[t] # "wait"
    BY <2>1, IoCurrent DEF ReaderAlone, Phase
  <2> QED
    BY <2>2, <2>3 DEF ReaderAlone, SleepsOnlyWhenEmpty
<1>8. CASE io_client \/ io_clock
  <2>1. qpc[current] = "idle" /\ UNCHANGED ioVars
    BY <1>8, IoCurrent DEF io_client, io_clock, clock, clock_interrupt_handler, Phase
  <2>2. \A t \in Threads : qpc[t] # "wait"
    BY <2>1 DEF ReaderAlone
  <2> QED
    BY <2>1, <2>2 DEF ReaderAlone, SleepsOnlyWhenEmpty, ioq_empty, ioVars
<1>9. CASE io_lock
  <2>1. lock_step /\ UNCHANGED <<qpc, head, tail, waiter>> /\ ~ panic'
    BY <1>2, <1>9 DEF io_lock, ioVars, IoInv, SyncInv, SchedInv, NoPanic
  <2>2. UNCHANGED current
    <3>1. CASE acquire_down \/ acquire_retry
      <4>1. pc[current] \in {"down", "wait"} /\ qpc[current] # "idle" /\ lk[current] = QLock
        BY <3>1, IoCurrent DEF acquire_down, acquire_retry, at, Phase, SyncInv, LockPhase
      <4>2. held[QLock][current] = 0
        BY <4>1, IoCurrent DEF Phase
      <4>3. \A t \in Threads : ~ Owns(QLock, t)
        <5> SUFFICES ASSUME NEW t \in Threads, Owns(QLock, t)
                     PROVE  FALSE
          OBVIOUS
        <5>1. Phase(t)
          BY DEF IoInv, QueuePhase
        <5>2. qpc[t] # "idle"
          BY <5>1, IoCurrent DEF Phase, Owns
        <5>3. t = current
          BY <5>2, <4>1, <1>1, IoCurrent
        <5> QED
          BY <5>3, <4>1, <4>2 DEF Owns
      <4>4. value[QLock] = 1
        BY <4>3, IoCurrent DEF SyncInv, MutualExclusion
      <4>5. \E saved \in BOOLEAN : intr_set_status(saved)
        BY <2>1, <3>1, <4>1, <4>4, IoCurrent
           DEF acquire_down, acquire_retry, sema_dowm, panic_spin, SyncInv, SyncTypeOK
      <4> QED
        BY <4>5 DEF intr_set_status
    <3>2. CASE acquire_holder \/ acquire_count \/ release_count
      BY <3>2, IoCurrent, AcquireHolder, AcquireCount, ReleaseCount DEF threadVars
    <3>3. CASE release_up
      <4>1. UNCHANGED threadVars \/ thread_unblock(list_pop(waiters[lk[current]]))
        BY <2>1, <3>3 DEF release_up, sema_up, panic_spin
      <4> QED
        BY <4>1, <2>1 DEF threadVars, thread_unblock, panic_spin
    <3> QED
      BY <2>1, <3>1, <3>2, <3>3 DEF lock_step
  <2> QED
    BY <2>1, <2>2 DEF ReaderAlone, SleepsOnlyWhenEmpty, ioq_empty
<1> QED
  BY <1>3, <1>4, <1>5, <1>6, <1>7, <1>8, <1>9 DEF IoNext

(* With the keyboard as the only producer and one reader, ioq_wait never   *)
(* puts the reader to sleep on a buffer that holds a character.            *)
THEOREM QueueReader ==
  ASSUME OneReader
  PROVE  IoSafe => []SleepsOnlyWhenEmpty
<1>1. IoInit => ReaderAlone
  BY DEF IoInit, ReaderAlone, SleepsOnlyWhenEmpty, Sides
<1>2. IoInv /\ ReaderAlone /\ [IoNext]_allVars => ReaderAlone'
  BY ReaderStep
<1>3. ReaderAlone => SleepsOnlyWhenEmpty
  BY DEF ReaderAlone
<1> QED
  BY <1>1, <1>2, <1>3, QueueSafe, PTL DEF IoSafe
=============================================================================
