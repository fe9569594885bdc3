------------------------------ MODULE Interrupt ------------------------------
(***************************************************************************)
(* How threads get on and off the CPU, word by word of their kernel        *)
(* stacks: the entry and exit of interrupts (interrupt.c,                  *)
(* interrupt_handler.asm), the interrupt controller, switch_to             *)
(* (switch.asm), the stacks that thread_create and start_process build     *)
(* (thread.c, process.c), and tss.esp0 (tss.c).                            *)
(*                                                                         *)
(* A kernel stack is the upper part of its task_struct's page; esp is an   *)
(* offset in words into the page of cur.  A word is whatever names its     *)
(* value: a program point, a selector, a register's owner, or JUNK, which  *)
(* also stands for every word below esp.  A user program does not use its  *)
(* stack here: its esp stays at the top, the word UserTop, and is 0 in the *)
(* variable.                                                               *)
(***************************************************************************)
EXTENDS List

CONSTANTS
  Threads, Main, Procs, Priority, NULL,     \* as in Thread
  PgWords,         \* words of a page: 1024
  CFrame,          \* words a C function takes: return address and locals
  Exceptions       \* vectors of exceptions that a user program raises

ASSUME InterruptAssumption ==
  /\ Main \in Threads
  /\ Procs \subseteq Threads \ {Main}
  /\ NULL \notin Threads
  /\ Priority \in [Threads -> 0..255]
  /\ {PgWords, CFrame} \subseteq Nat \ {0}
  /\ PgWords > 4 * CFrame + 127 /\ PgWords > 5 * CFrame + 103   \* stacks do not overflow
  /\ Exceptions \subseteq 0..31

(* struct intr_stack and struct thread_stack, from low to high addresses.  *)
intr_stack == <<"vec_no", "edi", "esi", "ebp", "esp_dummy", "ebx", "edx", "ecx", "eax",
                "gs", "fs", "es", "ds", "err_code", "eip", "cs", "eflags", "esp", "ss">>

thread_stack == <<"ebp", "ebx", "edi", "esi", "eip", "unused_retaddr", "function", "func_arg">>

sizeof(struct) == 4 * Len(struct)

(* The offset of a field. *)
field(struct, f) == (CHOOSE i \in DOMAIN struct : struct[i] = f) - 1

General == {"edi", "esi", "ebp", "ebx", "edx", "ecx", "eax"}
Segments == {"gs", "fs", "es", "ds"}
JUNK == "junk"
MAGIC == "0x19870916"
UserTop == "0xc0000000"

VARIABLES
  cur,             \* the thread in whose page esp is, or whose user code runs
  esp, pc, user, reg, intr,      \* the CPU: user is true in privilege level 3
  vec,             \* the vector whose entry runs
  irr, isr,        \* the 8259A: requests, and requests in service
  mem,             \* the words of each page
  self_kstack, ticks,            \* of each task_struct
  proc_stack,      \* start_process's variable, for each thread
  ready, all,      \* thread_ready_list and thread_all_list
  cr3, esp0,       \* as in Thread
  due              \* for each thread the contexts it has to return to

cpu == <<cur, esp, pc, user, reg, intr, vec>>
pic == <<irr, isr>>
sched == <<self_kstack, ticks, ready, all, cr3, esp0>>
vars == <<cpu, pic, mem, sched, proc_stack, due>>

-----------------------------------------------------------------------------
(* Stacks.  The first of words is pushed first and lies highest. *)

pushed(page, e, words) ==
  [i \in DOMAIN page |-> IF i \in e - Len(words)..e - 1 THEN words[e - i] ELSE page[i]]

popped(page, e, n) == [i \in DOMAIN page |-> IF i \in e..e + n - 1 THEN JUNK ELSE page[i]]

junk(n) == [i \in 1..n |-> JUNK]

(* A struct at offset e with the given values in its fields.               *)
stored(page, e, struct, values) ==
  [i \in DOMAIN page |->
     IF i - e + 1 \in DOMAIN struct /\ struct[i - e + 1] \in DOMAIN values
     THEN values[struct[i - e + 1]] ELSE page[i]]

-----------------------------------------------------------------------------
(* Vectors.  clock_interrupt_handler and the keyboard's handler are        *)
(* registered; the default handler returns for the two spurious vectors.   *)

c_interrupt_entry_table(v) ==
  CASE v = 32 -> "clock"
    [] v = 33 -> "keyboard"
    [] v \in {39, 47} -> "return"
    [] OTHER -> "spin"

(* The exceptions for which the CPU pushes an error code, and those whose  *)
(* VECTOR says so.  They differ for the stack fault, 12, whose handler     *)
(* does not return.                                                        *)
error_code(v) == v \in {8, 10, 11, 12, 13, 14, 17}

VECTOR_fault_clock(v) == v \in {8, 10, 11, 13, 14, 17, 24, 26, 27, 29, 30, 32}

VECTOR(v) == v \in {8, 10, 11, 13, 14, 17, 24, 26, 27, 29, 30}

(* The CPU enters the gate for v: on the stack of tss.esp0 from user mode. *)
(* Every gate is an interrupt gate (0b10001110), which clears IF.          *)
gate_fault_trap(i) == i

gate(i) == FALSE

enter(v) ==
  LET t == IF user THEN esp0 ELSE cur
      e == IF user THEN PgWords ELSE esp
      words == (IF user THEN <<"user data", UserTop>> ELSE <<>>)
               \o <<"IF", IF user THEN "user" ELSE "kernel", pc>>
               \o (IF error_code(v) THEN <<"code">> ELSE <<>>)
  IN /\ mem' = [mem EXCEPT ![t] = pushed(@, e, words)]
     /\ cur' = t
     /\ esp' = e - Len(words)
     /\ user' = FALSE
     /\ intr' = gate(intr)
     /\ pc' = "entry"
     /\ vec' = v
     /\ due' = [due EXCEPT ![cur] = Append(@, [pc |-> pc, esp |-> esp, user |-> user, reg |-> reg])]
     /\ UNCHANGED <<reg, sched, proc_stack>>

(* A new process has a full time slice; the few instructions from          *)
(* kernel_thread to line 22 of process.c are over before it ends.          *)
Early == {"call", "start_process"}

prompt == ~ (pc \in Early /\ cur \in Procs /\ ticks[cur] = 0)

-----------------------------------------------------------------------------
(* The devices.  A request that is already there is not counted again.     *)
(* Lines 0 and 1 alone are not masked.                                     *)
request(i) ==
  /\ irr' = irr \cup {i}
  /\ UNCHANGED <<cpu, isr, mem, sched, proc_stack, due>>

acknowledge(i) ==
  /\ intr /\ i \in irr
  /\ \A j \in irr \cup isr : i <= j
  /\ i \notin isr
  /\ i = 0 => prompt
  /\ irr' = irr \ {i}
  /\ isr' = isr \cup {i}
  /\ enter(32 + i)

(* A request that is gone when it is acknowledged. *)
spurious == intr /\ enter(39) /\ UNCHANGED pic

exception(v) == user /\ enter(v) /\ UNCHANGED pic

-----------------------------------------------------------------------------
(* The entry. *)

push_registers ==
  LET words == (IF VECTOR(vec) THEN <<>> ELSE <<"0">>)
               \o <<reg["ds"], reg["es"], reg["fs"], reg["gs"]>>
               \o <<reg["eax"], reg["ecx"], reg["edx"], reg["ebx"], "esp",
                    reg["ebp"], reg["esi"], reg["edi"]>>
  IN /\ pc = "entry"
     /\ pc' = "eoi"
     /\ mem' = [mem EXCEPT ![cur] = pushed(@, esp, words)]
     /\ esp' = esp - Len(words)
     /\ UNCHANGED <<cur, user, reg, intr, vec, pic, sched, proc_stack, due>>

(* The controller ends the request of the highest priority. *)
eoi ==
  /\ pc = "eoi"
  /\ pc' = "handler"
  /\ isr' = {i \in isr : \E j \in isr : j < i}
  /\ mem' = [mem EXCEPT ![cur] = pushed(@, esp, <<"vector">>)]
  /\ esp' = esp - 1
  /\ UNCHANGED <<cur, user, reg, intr, vec, irr, sched, proc_stack, due>>

-----------------------------------------------------------------------------
(* The handlers.  A C function may change any register.                    *)

update_tss_esp_fault_previous(next) == cur

update_tss_esp(next) == next

process_activate(next) ==
  /\ cr3' = IF next \in Procs THEN next ELSE NULL
  /\ esp0' = IF next \in Procs THEN update_tss_esp(next) ELSE esp0

(* The frames of the clock's handler and of schedule, the arguments and    *)
(* the return address of switch_to, and the four registers it saves.       *)
switch_to(next) ==
  LET frames == junk(2 * CFrame + 2) \o <<"return">> \o junk(4)
      saved == [mem EXCEPT ![cur] = pushed(@, esp, frames)]
      k == self_kstack'[next]
      eip == saved[next][k + field(thread_stack, "eip")]
      used == IF eip = "return" THEN Len(frames) ELSE field(thread_stack, "unused_retaddr")
  IN /\ cur' = next
     /\ self_kstack' = [self_kstack EXCEPT ![cur] = esp - Len(frames)]
     /\ mem' = [saved EXCEPT ![next] = popped(@, k, used)]
     /\ esp' = k + used
     /\ pc' = IF eip = "return" THEN "intr_exit" ELSE eip
     /\ reg' = [r \in DOMAIN reg |->
                  IF r \in {"ebp", "ebx", "edi", "esi"} THEN saved[next][k + field(thread_stack, r)]
                  ELSE JUNK]

schedule ==
  LET queue == list_append(ready, cur)
      next == list_pop(queue)
  IN /\ ready' = list_popped(queue)
     /\ ticks' = [ticks EXCEPT ![cur] = Priority[cur]]
     /\ process_activate(next)
     /\ switch_to(next)
     /\ UNCHANGED all

clock_interrupt_handler ==
  IF mem[cur][0] # MAGIC
  THEN pc' = "panic" /\ UNCHANGED <<cur, esp, reg, mem, sched>>
  ELSE IF ticks[cur] = 0 THEN schedule
  ELSE /\ ticks' = [ticks EXCEPT ![cur] = @ - 1]
       /\ pc' = "intr_exit"
       /\ reg' = [r \in DOMAIN reg |-> JUNK]
       /\ UNCHANGED <<cur, esp, mem, self_kstack, ready, all, cr3, esp0>>

call_handler ==
  /\ pc = "handler"
  /\ vec' = 0
  /\ IF c_interrupt_entry_table(vec) = "clock" THEN clock_interrupt_handler
     ELSE /\ pc' = IF c_interrupt_entry_table(vec) = "spin" THEN "spin" ELSE "intr_exit"
          /\ reg' = [r \in DOMAIN reg |-> JUNK]
          /\ UNCHANGED <<cur, esp, mem, sched>>
  /\ UNCHANGED <<user, intr, pic, proc_stack, due>>

-----------------------------------------------------------------------------
(* The exit: the registers and the error code, then iretd. *)

intr_exit ==
  LET n == field(intr_stack, "eip")
  IN /\ pc = "intr_exit"
     /\ pc' = "iretd"
     /\ reg' = [r \in DOMAIN reg |-> mem[cur][esp + field(intr_stack, r)]]
     /\ mem' = [mem EXCEPT ![cur] = popped(@, esp, n)]
     /\ esp' = esp + n
     /\ UNCHANGED <<cur, user, intr, vec, pic, sched, proc_stack, due>>

iretd ==
  LET to_user == mem[cur][esp + 1] = "user"
      n == IF to_user THEN 5 ELSE 3
  IN /\ pc = "iretd"
     /\ pc' = mem[cur][esp]
     /\ user' = to_user
     /\ intr' = (mem[cur][esp + 2] = "IF")
     /\ esp' = IF to_user THEN 0 ELSE esp + 3
     /\ mem' = [mem EXCEPT ![cur] = popped(@, esp, n)]
     /\ due' = [due EXCEPT ![cur] = SubSeq(@, 1, Len(@) - 1)]
     /\ UNCHANGED <<cur, reg, vec, pic, sched, proc_stack>>

-----------------------------------------------------------------------------
(* New threads.  init_thread and thread_create: sizes in bytes are         *)
(* subtracted from a pointer to words.                                     *)
kstack == PgWords - sizeof(intr_stack) - sizeof(thread_stack)

thread_create(u) ==
  /\ pc = "init"
  /\ ~ elem_find(all, u)
  /\ self_kstack' = [self_kstack EXCEPT ![u] = kstack]
  /\ mem' = [mem EXCEPT ![u] =
       stored(@, kstack, thread_stack,
              [ebp |-> "0", ebx |-> "0", edi |-> "0", esi |-> "0", eip |-> "kernel_thread",
               function |-> IF u \in Procs THEN "start_process" ELSE "function"])]
  /\ ticks' = [ticks EXCEPT ![u] = Priority[u]]
  /\ ready' = list_append(ready, u)
  /\ all' = list_append(all, u)
  /\ UNCHANGED <<cpu, pic, proc_stack, cr3, esp0, due>>

main_enables ==
  /\ pc = "init"
  /\ pc' = "loop"
  /\ intr' = TRUE
  /\ UNCHANGED <<cur, esp, user, reg, vec, pic, mem, sched, proc_stack, due>>

kernel_thread_fault_no_sti ==
  /\ pc = "kernel_thread"
  /\ pc' = "call"
  /\ intr' = intr
  /\ UNCHANGED <<cur, esp, user, reg, vec, pic, mem, sched, proc_stack, due>>

kernel_thread ==
  /\ pc = "kernel_thread"
  /\ pc' = "call"
  /\ intr' = TRUE
  /\ UNCHANGED <<cur, esp, user, reg, vec, pic, mem, sched, proc_stack, due>>

(* kernel_thread calls the function it finds above its return address. *)
call_function ==
  /\ pc = "call"
  /\ pc' = mem[cur][esp + 1]
  /\ esp' = esp - 2 * CFrame
  /\ mem' = [mem EXCEPT ![cur] = pushed(@, esp, junk(2 * CFrame))]
  /\ reg' = [r \in DOMAIN reg |-> cur]
  /\ UNCHANGED <<cur, user, intr, vec, pic, sched, proc_stack, due>>

(* The registers of a new process. *)
NewRegisters == [r \in General \cup Segments |->
                   IF r \in Segments \ {"gs"} THEN "user data" ELSE "0"]

start_process ==
  LET k == self_kstack[cur] + sizeof(thread_stack)
  IN /\ pc = "start_process"
     /\ pc' = "get_a_page"
     /\ self_kstack' = [self_kstack EXCEPT ![cur] = k]
     /\ proc_stack' = [proc_stack EXCEPT ![cur] = k]
     /\ mem' = [mem EXCEPT ![cur] = stored(@, k, intr_stack,
          [r \in General \cup Segments \cup {"eip", "cs", "eflags", "esp_dummy"} |->
             CASE r = "eip" -> "user" [] r = "cs" -> "user" [] r = "eflags" -> "IF"
               [] r = "esp_dummy" -> "0" [] OTHER -> NewRegisters[r]])]
     /\ UNCHANGED <<cur, esp, user, reg, intr, vec, pic, ticks, ready, all, cr3, esp0, due>>

(* get_a_page's frames lie below esp. *)
get_user_stack ==
  /\ pc = "get_a_page"
  /\ pc' = "jmp"
  /\ mem' = [mem EXCEPT ![cur] =
       stored(pushed(@, esp, junk(3 * CFrame)), proc_stack[cur], intr_stack,
              [esp |-> UserTop, ss |-> "user data"])]
  /\ due' = [due EXCEPT ![cur] =
       Append(@, [pc |-> "user", esp |-> 0, user |-> TRUE, reg |-> NewRegisters])]
  /\ UNCHANGED <<cur, esp, user, reg, intr, vec, pic, sched, proc_stack>>

jmp_intr_exit ==
  /\ pc = "jmp"
  /\ pc' = "intr_exit"
  /\ esp' = proc_stack[cur]
  /\ UNCHANGED <<cur, user, reg, intr, vec, pic, mem, sched, proc_stack, due>>

-----------------------------------------------------------------------------
(* What thread_init and the initialisation of the interrupts leave. *)
Init ==
  /\ cur = Main
  /\ esp = PgWords - CFrame
  /\ pc = "init"
  /\ user = FALSE
  /\ reg = [r \in General \cup Segments |-> Main]
  /\ intr = FALSE
  /\ vec = 0
  /\ irr = {} /\ isr = {}
  /\ mem = [t \in Threads |-> [i \in 0..PgWords - 1 |-> IF i = 0 THEN MAGIC ELSE JUNK]]
  /\ self_kstack = [t \in Threads |-> PgWords]
  /\ ticks = [t \in Threads |-> IF t = Main THEN Priority[t] ELSE 0]
  /\ proc_stack = [t \in Threads |-> 0]
  /\ ready = list_init
  /\ all = <<Main>>
  /\ cr3 = NULL /\ esp0 = NULL
  /\ due = [t \in Threads |-> <<>>]

Next ==
  \/ \E i \in {0, 1} : request(i) \/ acknowledge(i)
  \/ spurious
  \/ \E v \in Exceptions : exception(v)
  \/ push_registers \/ eoi \/ call_handler \/ intr_exit \/ iretd
  \/ \E u \in Threads : thread_create(u)
  \/ main_enables
  \/ kernel_thread \/ call_function
  \/ start_process \/ get_user_stack \/ jmp_intr_exit

(* The CPU goes on: interrupts do not come so fast that it never executes  *)
(* the next instruction.  It takes the clock's request, the one of highest *)
(* priority, when IF is set.  Main enables interrupts once it has created  *)
(* its threads.                                                            *)
Fairness ==
  /\ WF_vars(push_registers \/ eoi \/ call_handler \/ kernel_thread \/ main_enables)
  /\ SF_vars(intr_exit) /\ SF_vars(iretd)
  /\ SF_vars(call_function)
  /\ SF_vars(start_process) /\ SF_vars(get_user_stack) /\ SF_vars(jmp_intr_exit)
  /\ SF_vars(acknowledge(0))

Spec == Init /\ [][Next]_vars /\ Fairness

-----------------------------------------------------------------------------
(* Properties *)

(* What iretd is about to restore is the context that was interrupted, or  *)
(* the one start_process made, to the last register: no frame has been     *)
(* moved or overwritten, by a handler, by a switch or by get_a_page, and   *)
(* entry and exit agree about what is on the stack.  The frame that        *)
(* start_process fills lies above the stack it is itself running on, and   *)
(* no handler is interrupted.                                              *)
FrameKept ==
  /\ \A t \in Threads : \A i \in DOMAIN due[t] :
       due[t][i].pc \notin {"entry", "eoi", "handler"}
  /\ pc \in {"get_a_page", "jmp"} => proc_stack[cur] >= kstack + Len(thread_stack)
  /\ pc = "iretd" =>
       LET d == due[cur][Len(due[cur])]
       IN /\ reg = d.reg
          /\ mem[cur][esp] = d.pc
          /\ mem[cur][esp + 1] = (IF d.user THEN "user" ELSE "kernel")
          /\ mem[cur][esp + 2] = "IF"
          /\ IF d.user THEN mem[cur][esp + 3] = UserTop ELSE esp + 3 = d.esp

(* A request of the clock is served, unless an exception has stopped the   *)
(* machine: also after the handler has switched to a thread that never     *)
(* was in a handler, to which it does not return.                          *)
ClockTicks == 0 \in irr ~> (pc = "entry" /\ vec = 32) \/ pc = "spin"

(* With its stacks, the machine schedules as Thread says: only a clock     *)
(* interrupt whose handler finds the time slice used up changes the        *)
(* running thread, and the next one continues where it was.                *)
Sched == INSTANCE Thread WITH
  current <- cur,
  status <- [t \in Threads |-> IF t = cur THEN "TASK_RUNNING"
                               ELSE IF elem_find(ready, t) THEN "TASK_READY" ELSE "TASK_NONE"],
  thread_ready_list <- ready,
  thread_all_list <- all,
  intr <- pc # "init",
  eflags <- [t \in Threads |-> self_kstack[t] # PgWords],
  panic <- pc = "panic"
ThreadImplemented == Sched!ThreadSafe
=============================================================================
