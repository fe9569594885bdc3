------------------------------ MODULE IoQueue ------------------------------
(***************************************************************************)
(* The ring buffer of ioqueue.c between the keyboard's interrupt handler   *)
(* and the threads that read from it, with the lock, the two waiting slots *)
(* and the scheduler underneath.                                           *)
(*                                                                         *)
(* ioq_getchar and ioq_putchar are called with interrupts disabled and     *)
(* leave the CPU in two places only: in lock_acquire, when another thread  *)
(* has the queue's lock, and in ioq_wait.  The keyboard handler never      *)
(* waits: it drops the character when the buffer is full.                  *)
(***************************************************************************)
EXTENDS Sync

CONSTANTS
  Consumers,    \* threads that call ioq_getchar
  Producers,    \* threads that call ioq_putchar
  QLock,        \* ioqueue.lock
  BufSize,      \* bufsize
  Serials       \* characters are numbered modulo Serials

ASSUME IoAssumption ==
  /\ Consumers \subseteq Clients /\ Producers \subseteq Clients
  /\ Consumers \cap Producers = {}
  /\ QLock \in Locks
  /\ BufSize \in Nat \ {0, 1}
  /\ Serials \in Nat /\ Serials > BufSize

VARIABLES
  head,         \* where the next character is written
  tail,         \* where the next character is read
  buf,          \* the characters, each the number it got when it was put in
  waiter,       \* ioqueue.consumer and ioqueue.producer
  qpc,          \* where in ioq_getchar or ioq_putchar each thread is
  puts,         \* how many characters have been put in, modulo Serials
  gets,         \* how many have been read, modulo Serials
  last          \* the character that was read last

ioVars == <<head, tail, buf, waiter, qpc, puts, gets, last>>

allVars == <<vars, ioVars>>

Sides == {"consumer", "producer"}

(* "loop": before the next test of the while loop; "wait": has the lock,   *)
(* before ioq_wait; "release": after ioq_wait, before lock_release.        *)
QPC == {"idle", "loop", "wait", "release"}

-----------------------------------------------------------------------------
next_pos_fault_no_wrap(pos) == pos + 1

next_pos(pos) == (pos + 1) % BufSize

ioq_full == next_pos(head) = tail

ioq_empty == head = tail

side(t) == IF t \in Consumers THEN "consumer" ELSE "producer"

other(s) == IF s = "consumer" THEN "producer" ELSE "consumer"

must_wait(t) == IF t \in Consumers THEN ioq_empty ELSE ioq_full

(* Wake whoever sleeps on side s, if anybody does.                         *)
wakeup_fault_keeps_waiter(s) ==
  /\ UNCHANGED waiter
  /\ IF waiter[s] = NULL THEN UNCHANGED threadVars ELSE thread_unblock(waiter[s])

wakeup_fault_lost(s) == UNCHANGED <<threadVars, waiter>>

wakeup(s) ==
  IF waiter[s] = NULL
  THEN UNCHANGED <<threadVars, waiter>>
  ELSE /\ thread_unblock(waiter[s])
       /\ waiter' = [waiter EXCEPT ![s] = NULL]

put_byte ==
  /\ buf' = [buf EXCEPT ![head] = puts]
  /\ head' = next_pos(head)
  /\ puts' = (puts + 1) % Serials
  /\ UNCHANGED <<tail, gets, last>>

get_byte ==
  /\ last' = buf[tail]
  /\ gets' = (gets + 1) % Serials
  /\ tail' = next_pos(tail)
  /\ UNCHANGED <<head, buf, puts>>

-----------------------------------------------------------------------------
(* The while loop's test.  To wait, the thread starts lock_acquire; else   *)
(* it reads or writes one character and wakes the other side.              *)
ioq_test_fault_no_lock ==
  /\ at("idle")
  /\ current \in Consumers \cup Producers
  /\ qpc[current] \in {"idle", "loop"}
  /\ ~ intr
  /\ IF must_wait(current)
     THEN /\ qpc' = [qpc EXCEPT ![current] = "wait"]
          /\ UNCHANGED <<vars, head, tail, buf, waiter, puts, gets, last>>
     ELSE /\ IF current \in Consumers THEN get_byte ELSE put_byte
          /\ wakeup(other(side(current)))
          /\ qpc' = [qpc EXCEPT ![current] = "idle"]
          /\ UNCHANGED syncVars

ioq_test ==
  /\ at("idle")
  /\ current \in Consumers \cup Producers
  /\ qpc[current] \in {"idle", "loop"}
  /\ qpc[current] = "idle" => ~ intr
  /\ IF intr
     THEN panic_spin /\ UNCHANGED <<syncVars, ioVars>>
     ELSE IF must_wait(current)
     THEN /\ acquire_test(QLock)
          /\ qpc' = [qpc EXCEPT ![current] = "wait"]
          /\ UNCHANGED <<head, tail, buf, waiter, puts, gets, last>>
     ELSE /\ IF current \in Consumers THEN get_byte ELSE put_byte
          /\ wakeup(other(side(current)))
          /\ qpc' = [qpc EXCEPT ![current] = "idle"]
          /\ UNCHANGED syncVars

(* ioq_wait: the slot is free, because the lock is held; sleep in it.      *)
ioq_wait ==
  /\ at("idle")
  /\ qpc[current] = "wait"
  /\ IF waiter[side(current)] # NULL
     THEN panic_spin /\ UNCHANGED <<waiter, qpc>>
     ELSE /\ waiter' = [waiter EXCEPT ![side(current)] = current]
          /\ thread_block("TASK_BLOCKED", intr)
          /\ qpc' = [qpc EXCEPT ![current] = "release"]
  /\ UNCHANGED <<syncVars, head, tail, buf, puts, gets, last>>

ioq_release ==
  /\ at("idle")
  /\ qpc[current] = "release"
  /\ release_test(QLock)
  /\ qpc' = [qpc EXCEPT ![current] = "loop"]
  /\ UNCHANGED <<head, tail, buf, waiter, puts, gets, last>>

(* IRQ 1 with a key that has a character: ioq_full, then ioq_putchar.      *)
keyboard_put_fault_no_full_test ==
  /\ ~panic
  /\ intr
  /\ put_byte
  /\ wakeup("consumer")
  /\ UNCHANGED <<syncVars, qpc>>

keyboard_put ==
  /\ ~panic
  /\ intr
  /\ ~ ioq_full
  /\ put_byte
  /\ wakeup("consumer")
  /\ UNCHANGED <<syncVars, qpc>>

-----------------------------------------------------------------------------
IoInit ==
  /\ SyncInit
  /\ head = 0 /\ tail = 0
  /\ buf = [i \in 0..BufSize - 1 |-> 0]
  /\ waiter = [s \in Sides |-> NULL]
  /\ qpc = [t \in Threads |-> "idle"]
  /\ puts = 0 /\ gets = 0
  /\ last = Serials - 1

(* Between two calls a thread may do what a user of locks may; inside one  *)
(* it is in the lock functions.                                            *)
io_client == qpc[current] = "idle" /\ client_step /\ UNCHANGED ioVars

io_lock == lock_step /\ UNCHANGED ioVars

io_clock == clock /\ UNCHANGED ioVars

IoNext ==
  \/ ioq_test
  \/ ioq_wait
  \/ ioq_release
  \/ keyboard_put
  \/ io_client
  \/ io_lock
  \/ io_clock

IoSafe == IoInit /\ [][IoNext]_allVars

(* A consumer that is run again and again keeps reading: it disables       *)
(* interrupts, calls ioq_getchar and enables them again.                   *)
IoFairness ==
  /\ SF_allVars(io_clock)
  /\ \A t \in Threads :
       SF_allVars(current = t /\ io_client /\ intr_enable)
  /\ \A t \in Consumers :
       /\ SF_allVars(current = t /\ (ioq_test \/ ioq_wait \/ ioq_release \/ io_lock))
       /\ SF_allVars(current = t /\ io_client /\ intr_disable)

IoSpec == IoSafe /\ IoFairness

-----------------------------------------------------------------------------
(* Properties *)

(* Every variable has its type. *)
IoTypeOK ==
  /\ head \in 0..BufSize - 1
  /\ tail \in 0..BufSize - 1
  /\ buf \in [0..BufSize - 1 -> 0..Serials - 1]
  /\ waiter \in [Sides -> Consumers \cup Producers \cup {NULL}]
  /\ qpc \in [Threads -> QPC]
  /\ puts \in 0..Serials - 1
  /\ gets \in 0..Serials - 1
  /\ last \in 0..Serials - 1

(* The characters come out in the order they were put in, each exactly     *)
(* once; those not yet read are in the buffer from tail to head.           *)
Pending == (head - tail) % BufSize

FifoDelivered ==
  /\ (gets + Pending) % Serials = puts
  /\ (last + 1) % Serials = gets
  /\ \A i \in 0..Pending - 1 : buf[(tail + i) % BufSize] = (gets + i) % Serials

(* A waiting slot names a thread that sleeps in ioq_wait with the queue's  *)
(* lock held; so at most one of the two slots is in use, and wakeup always *)
(* finds a thread that thread_unblock accepts.                             *)
SlotSleeps ==
  \A s \in Sides : waiter[s] # NULL =>
    /\ status[waiter[s]] = "TASK_BLOCKED"
    /\ side(waiter[s]) = s
    /\ qpc[waiter[s]] = "release"
    /\ Owns(QLock, waiter[s])

(* Where a call of ioq_getchar or ioq_putchar stands with the lock: only a *)
(* thread that waits has it or is on its way to it, and from the first     *)
(* lock_acquire to the last test of the loop interrupts are off, so that   *)
(* ASSERT(intr_get_status() == INTR_OFF) holds at every test.              *)
Phase(t) ==
  /\ ~ old[t]
  /\ qpc[t] # "idle" =>
       /\ t \in Consumers \cup Producers
       /\ status[t] # "TASK_NONE"
       /\ IF t = current THEN ~ intr ELSE ~ eflags[t]
  /\ qpc[t] = "idle" => pc[t] = "idle"
  /\ qpc[t] = "loop" => pc[t] \in {"idle", "clr", "up"}
  /\ qpc[t] = "wait" => pc[t] \in {"idle", "down", "wait", "own", "cnt"}
  /\ qpc[t] = "release" => pc[t] = "idle"
  /\ lk[t] \in {NULL, QLock}
  /\ held[QLock][t] = IF pc[t] = "idle" /\ qpc[t] \in {"wait", "release"} THEN 1 ELSE 0

QueuePhase == \A t \in Threads : Phase(t)

(* The inductive invariant. *)
IoInv ==
  /\ SyncInv
  /\ IoTypeOK
  /\ FifoDelivered
  /\ SlotSleeps
  /\ QueuePhase

(* With the keyboard as the only producer and one reader, the reader never *)
(* sleeps while a character is there for it, although ioq_wait does not    *)
(* test the buffer again after lock_acquire.                               *)
SleepsOnlyWhenEmpty == waiter["consumer"] # NULL => ioq_empty

(* Seen from the locks, readers and writers of the queue are ordinary      *)
(* users: they release what they hold and wake sleepers only.              *)
LocksImplemented == SyncSafe

(* A character in the buffer is eventually read, once there is a reader.   *)
Buffered(n) == \E i \in 0..Pending - 1 : buf[(tail + i) % BufSize] = n

CharsDelivered ==
  \A n \in 0..Serials - 1 :
    Buffered(n) /\ (\A t \in Consumers : status[t] # "TASK_NONE") ~> last = n
=============================================================================
