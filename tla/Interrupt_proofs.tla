-------------------------- MODULE Interrupt_proofs --------------------------
(*****************************************************************************)
(* What a thread was doing when an interrupt or a switch took it off the CPU *)
(* is on its kernel stack, word by word, until it goes on: for any number of *)
(* threads and processes, any priorities, any stack depth of the compiled C  *)
(* functions and any page size that leaves room for them. InterruptInv       *)
(* describes the kernel stack of every thread; it is inductive, gives        *)
(* FrameKept, and every step of the machine is then a step of the scheduler  *)
(* of Thread or leaves the scheduler alone.                                  *)
(*****************************************************************************)
EXTENDS Interrupt, List_proofs, SequenceTheorems

-----------------------------------------------------------------------------
(* The inductive invariant. *)

(* The registers that the entry of interrupt_handler.asm saves. *)
Regs == General \cup Segments

(* A new process at the start of its program, in user mode. *)
U == [pc |-> "user", esp |-> 0, user |-> TRUE, reg |-> NewRegisters]

(* The words that iretd takes, and the registers below them. *)
Iret(page, e, c) ==
  /\ page[e] = c.pc
  /\ page[e + 1] = IF c.pc = "user" THEN "user" ELSE "kernel"
  /\ page[e + 2] = "IF"
  /\ c.pc = "user" => page[e + 3] = UserTop
  /\ c.pc # "user" => e + 3 = c.esp

(* The registers regs are in the frame that begins at the word e. *)
Kept(page, e, regs) ==
  \A r \in Regs : page[e + field(intr_stack, r)] = regs[r]

(* A whole frame of interrupt_handler.asm: registers, and what iretd       *)
(* takes.                                                                  *)
Frame(page, e, c) == Kept(page, e, c.reg) /\ Iret(page, e + 14, c)

(* Where the frame of an interrupted context begins. *)
Low(c) == IF c.pc = "user" THEN PgWords - 19 ELSE c.esp - 17

(* What kernel_thread calls in a new thread. *)
Func(t) == IF t \in Procs THEN "start_process" ELSE "function"

(* A process's frame before it has a user stack. *)
Prepared(page, e) ==
  /\ Kept(page, e, NewRegisters)
  /\ page[e + 14] = "user" /\ page[e + 15] = "user" /\ page[e + 16] = "IF"

(* The stack pointer inside the function that kernel_thread called. *)
inner == kstack + 5 - 2 * CFrame

(* Where start_process finds the intr_stack that thread_create skipped:    *)
(* its pointer arithmetic counts bytes as words.                           *)
frame == kstack + 32

(* A context outside the handlers: what is on the stack of t, and what t   *)
(* has to return to after it.                                              *)
Own(t, c, page, ps, rest) ==
  /\ c.reg = [r \in Regs |-> c.reg[r]]
  /\ c.user <=> (c.pc = "user")
  /\ \/ c.pc = "user" /\ c.esp = 0 /\ t \in Procs /\ rest = <<>>
     \/ c.pc = "loop" /\ c.esp = PgWords - CFrame /\ t = Main /\ rest = <<>>
     \/ c.pc = "call" /\ c.esp = kstack + 5 /\ t # Main /\ rest = <<>>
          /\ page[kstack + 6] = Func(t)
     \/ c.pc = "function" /\ c.esp = inner /\ t # Main /\ t \notin Procs /\ rest = <<>>
     \/ c.pc = "start_process" /\ c.esp = inner /\ t \in Procs /\ rest = <<>>
     \/ c.pc = "get_a_page" /\ c.esp = inner /\ t \in Procs /\ rest = <<>>
          /\ ps = frame /\ Prepared(page, frame)
     \/ c.pc = "jmp" /\ c.esp = inner /\ t \in Procs /\ rest = <<U>>
          /\ ps = frame /\ Frame(page, frame, U)
     \/ c.pc = "intr_exit" /\ c.esp = frame /\ t \in Procs /\ rest = <<U>>
          /\ Frame(page, frame, U)
     \/ c.pc = "iretd" /\ c.esp = frame + 14 /\ t \in Procs /\ rest = <<U>>
          /\ c.reg = NewRegisters /\ Iret(page, frame + 14, U)

(* start_process needs self_kstack as thread_create left it. *)
EarlyKept(t, c, ks) == c.pc \in Early /\ t \in Procs => ks = kstack

(* The context that an interrupted thread goes on with first, and those    *)
(* that come after it.                                                     *)
last(d) == d[Len(d)]
front(d) == SubSeq(d, 1, Len(d) - 1)

(* The vectors whose handlers return: clock, keyboard, spurious. *)
Returning == {32, 33, 39}

(* The part of the running thread's stack that belongs to the handler at   *)
(* the program point here.                                                 *)
Handling(t, here, v, e, regs, slice, c, page) ==
  \/ /\ here = "entry" /\ v \in Returning
     /\ e = Low(c) + 14 /\ Iret(page, Low(c) + 14, c) /\ regs = c.reg
     /\ c.pc \in Early /\ t \in Procs /\ v = 32 => slice # 0
  \/ /\ here = "eoi" /\ v \in Returning
     /\ e = Low(c) + 1 /\ Frame(page, Low(c), c)
     /\ c.pc \in Early /\ t \in Procs /\ v = 32 => slice # 0
  \/ /\ here = "handler" /\ v \in Returning
     /\ e = Low(c) /\ Frame(page, Low(c), c)
     /\ c.pc \in Early /\ t \in Procs /\ v = 32 => slice # 0
  \/ here = "intr_exit" /\ e = Low(c) /\ Frame(page, Low(c), c)
  \/ here = "iretd" /\ e = Low(c) + 14 /\ Iret(page, Low(c) + 14, c) /\ regs = c.reg

(* The context on the CPU, as enter records it. *)
Running == [pc |-> pc, esp |-> esp, user |-> user, reg |-> reg]

(* The running thread: main before it enables interrupts, a new thread in  *)
(* kernel_thread, a context outside the handlers, or a handler.            *)
OnCPU ==
  \/ /\ pc = "init" /\ cur = Main /\ esp = PgWords - CFrame /\ ~ user /\ ~ intr
     /\ due[cur] = <<>>
  \/ /\ pc = "kernel_thread" /\ cur # Main /\ esp = kstack + 5 /\ ~ user /\ ~ intr
     /\ mem[cur][kstack + 6] = Func(cur) /\ self_kstack[cur] = kstack
     /\ due[cur] = <<>>
  \/ /\ intr /\ Own(cur, Running, mem[cur], proc_stack[cur], due[cur])
     /\ EarlyKept(cur, Running, self_kstack[cur])
  \/ /\ ~ intr /\ ~ user /\ due[cur] # <<>>
     /\ Own(cur, last(due[cur]), mem[cur], proc_stack[cur], front(due[cur]))
     /\ EarlyKept(cur, last(due[cur]), self_kstack[cur])
     /\ Handling(cur, pc, vec, esp, reg, ticks[cur], last(due[cur]), mem[cur])

(* A thread that has not run yet. *)
Fresh(t, page, ks, d) ==
  /\ t # Main /\ ks = kstack /\ d = <<>>
  /\ page[kstack + 4] = "kernel_thread" /\ page[kstack + 6] = Func(t)

(* A thread that was switched from: under its frame lie those of the       *)
(* switch.                                                                 *)
Switched(t, page, ks, ps, d) ==
  /\ d # <<>>
  /\ Own(t, last(d), page, ps, front(d))
  /\ ~ (last(d).pc \in Early /\ t \in Procs)
  /\ Frame(page, Low(last(d)), last(d))
  /\ ks = Low(last(d)) - (2 * CFrame + 7)
  /\ page[ks + 4] = "return"

(* A thread in the ready list is one or the other. *)
Waiting(t, page, ks, ps, d) == Fresh(t, page, ks, d) \/ Switched(t, page, ks, ps, d)

(* What the next switch to t relies on. *)
Parked(t) == Waiting(t, mem[t], self_kstack[t], proc_stack[t], due[t])

(* The variables are functions on their domains. *)
Shape ==
  /\ mem = [t \in Threads |-> mem[t]]
  /\ \A t \in Threads : mem[t] = [i \in 0..PgWords - 1 |-> mem[t][i]]
  /\ self_kstack = [t \in Threads |-> self_kstack[t]]
  /\ proc_stack = [t \in Threads |-> proc_stack[t]]
  /\ due = [t \in Threads |-> due[t]]
  /\ reg = [r \in Regs |-> reg[r]]

(* The ready list holds each thread once and never the running one; the    *)
(* list of all threads holds the created ones.                             *)
Listed ==
  /\ cur \in Threads
  /\ ready \in Seq(Threads) /\ all \in Seq(Threads)
  /\ NoDuplicates(ready)
  /\ ~ elem_find(ready, cur)
  /\ \A t \in Threads : elem_find(all, t) <=> t = cur \/ elem_find(ready, t)

(* The kernel is running: no stack has reached its thread's control block, *)
(* the TSS names the running process, and all stacks are as described.     *)
Live ==
  /\ \A t \in Threads : mem[t][0] = MAGIC
  /\ cur \in Procs => esp0 = cur
  /\ OnCPU
  /\ \A t \in Threads : elem_find(ready, t) => Parked(t)
  /\ \A t \in Threads : ~ elem_find(all, t) => due[t] = <<>>

(* An exception's handler never returns: default_interrupt_handler spins   *)
(* with interrupts off, and nothing is claimed of the stacks.              *)
Dead ==
  /\ ~ intr /\ ~ user
  /\ \/ pc = "spin"
     \/ pc \in {"entry", "eoi", "handler"} /\ vec \in 0..31

(* Nothing is ever interrupted inside the entry or a handler. *)
Outside(d) == \A i \in DOMAIN d : d[i].pc \notin {"entry", "eoi", "handler"}

(* Only the running thread, or one not yet created, can have a self_kstack *)
(* as it was first set.                                                    *)
Kstacks == \A t \in Threads : self_kstack[t] = PgWords => t = cur \/ ~ elem_find(all, t)

(* The inductive invariant. *)
InterruptInv ==
  /\ Shape
  /\ Listed
  /\ Kstacks
  /\ \A t \in Threads : Outside(due[t])
  /\ Live \/ Dead

-----------------------------------------------------------------------------
(* Numbers. *)

(* The place of each register in struct intr_stack, counted in words. *)
LEMMA IntrFields ==
  /\ Len(intr_stack) = 19
  /\ field(intr_stack, "edi") = 1 /\ field(intr_stack, "esi") = 2
  /\ field(intr_stack, "ebp") = 3 /\ field(intr_stack, "ebx") = 5
  /\ field(intr_stack, "edx") = 6 /\ field(intr_stack, "ecx") = 7
  /\ field(intr_stack, "eax") = 8 /\ field(intr_stack, "gs") = 9
  /\ field(intr_stack, "fs") = 10 /\ field(intr_stack, "es") = 11
  /\ field(intr_stack, "ds") = 12 /\ field(intr_stack, "eip") = 14
<1> DEFINE s == intr_stack
<1>1. /\ DOMAIN s = 1..19 /\ Len(s) = 19
      /\ s[1] = "vec_no" /\ s[2] = "edi" /\ s[3] = "esi" /\ s[4] = "ebp" /\ s[5] = "esp_dummy"
      /\ s[6] = "ebx" /\ s[7] = "edx" /\ s[8] = "ecx" /\ s[9] = "eax" /\ s[10] = "gs"
      /\ s[11] = "fs" /\ s[12] = "es" /\ s[13] = "ds" /\ s[14] = "err_code" /\ s[15] = "eip"
      /\ s[16] = "cs" /\ s[17] = "eflags" /\ s[18] = "esp" /\ s[19] = "ss"
  BY DEF intr_stack
<1>2. \A i \in 1..19 : \/ i = 1 \/ i = 2 \/ i = 3 \/ i = 4 \/ i = 5 \/ i = 6 \/ i = 7
        \/ i = 8 \/ i = 9 \/ i = 10 \/ i = 11 \/ i = 12 \/ i = 13 \/ i = 14 \/ i = 15
        \/ i = 16 \/ i = 17 \/ i = 18 \/ i = 19
  OBVIOUS
<1> HIDE DEF s
<1>3. \A i, j \in DOMAIN s : s[i] = s[j] => i = j
  BY <1>1, <1>2
<1>4. ASSUME NEW j \in 1..19
      PROVE  field(s, s[j]) = j - 1
  <2>1. j \in DOMAIN s
    BY <1>1
  <2>2. (CHOOSE i \in DOMAIN s : s[i] = s[j]) \in DOMAIN s
        /\ s[CHOOSE i \in DOMAIN s : s[i] = s[j]] = s[j]
    BY <2>1, Zenon
  <2>3. (CHOOSE i \in DOMAIN s : s[i] = s[j]) = j
    BY <1>3, <2>1, <2>2
  <2> QED
    BY <2>3 DEF field
<1>5. /\ field(s, s[2]) = 1 /\ field(s, s[3]) = 2 /\ field(s, s[4]) = 3 /\ field(s, s[6]) = 5
      /\ field(s, s[7]) = 6 /\ field(s, s[8]) = 7 /\ field(s, s[9]) = 8 /\ field(s, s[10]) = 9
      /\ field(s, s[11]) = 10 /\ field(s, s[12]) = 11 /\ field(s, s[13]) = 12 /\ field(s, s[15]) = 14
  <2>1. /\ 2 \in 1..19 /\ 3 \in 1..19 /\ 4 \in 1..19 /\ 6 \in 1..19 /\ 7 \in 1..19 /\ 8 \in 1..19
        /\ 9 \in 1..19 /\ 10 \in 1..19 /\ 11 \in 1..19 /\ 12 \in 1..19 /\ 13 \in 1..19 /\ 15 \in 1..19
    OBVIOUS
  <2> QED
    BY <1>4, <2>1
<1> QED
  BY <1>1, <1>5 DEF s

(* The fields of struct thread_stack and the places of those that          *)
(* switch_to uses.                                                         *)
LEMMA ThreadFields ==
  /\ Len(thread_stack) = 8
  /\ field(thread_stack, "eip") = 4 /\ field(thread_stack, "unused_retaddr") = 5
  /\ thread_stack[5] = "eip" /\ thread_stack[7] = "function"
  /\ DOMAIN thread_stack = 1..8
<1> DEFINE s == thread_stack
<1>1. /\ DOMAIN s = 1..8 /\ Len(s) = 8
      /\ s[1] = "ebp" /\ s[2] = "ebx" /\ s[3] = "edi" /\ s[4] = "esi" /\ s[5] = "eip"
      /\ s[6] = "unused_retaddr" /\ s[7] = "function" /\ s[8] = "func_arg"
  BY DEF thread_stack
<1>2. \A i \in 1..8 : \/ i = 1 \/ i = 2 \/ i = 3 \/ i = 4 \/ i = 5 \/ i = 6 \/ i = 7 \/ i = 8
  OBVIOUS
<1> HIDE DEF s
<1>3. \A i, j \in DOMAIN s : s[i] = s[j] => i = j
  BY <1>1, <1>2
<1>4. ASSUME NEW j \in 1..8
      PROVE  field(s, s[j]) = j - 1
  <2>1. j \in DOMAIN s
    BY <1>1
  <2>2. (CHOOSE i \in DOMAIN s : s[i] = s[j]) \in DOMAIN s
        /\ s[CHOOSE i \in DOMAIN s : s[i] = s[j]] = s[j]
    BY <2>1, Zenon
  <2>3. (CHOOSE i \in DOMAIN s : s[i] = s[j]) = j
    BY <1>3, <2>1, <2>2
  <2> QED
    BY <2>3 DEF field
<1>5. field(s, s[5]) = 4 /\ field(s, s[6]) = 5
  BY <1>4
<1> QED
  BY <1>1, <1>5 DEF s

(* thread_create subtracts byte counts from a word pointer, so a new       *)
(* thread's stack begins 108 words below the page's end and a process's    *)
(* frame 76.                                                               *)
LEMMA Sizes ==
  /\ PgWords \in Nat /\ CFrame \in Nat /\ CFrame >= 1
  /\ PgWords > 4 * CFrame + 127 /\ PgWords > 5 * CFrame + 103
  /\ kstack = PgWords - 108
  /\ frame = PgWords - 76
  /\ inner = PgWords - 103 - 2 * CFrame
<1>1. /\ PgWords \in Nat /\ CFrame \in Nat /\ CFrame >= 1
      /\ PgWords > 4 * CFrame + 127 /\ PgWords > 5 * CFrame + 103
  BY InterruptAssumption
<1>2. sizeof(intr_stack) = 76 /\ sizeof(thread_stack) = 32
  BY IntrFields, ThreadFields DEF sizeof
<1>3. kstack = PgWords - 108
  BY <1>1, <1>2 DEF kstack
<1> QED
  BY <1>1, <1>3 DEF frame, inner

(* The registers lie in the first words of the frame. *)
LEMMA RegFields ==
  ASSUME NEW r \in Regs
  PROVE  field(intr_stack, r) \in 1..12 /\ field(intr_stack, r) # 4
BY IntrFields DEF Regs, General, Segments

-----------------------------------------------------------------------------
(* Pages. *)

(* p has a value for each word of a page and nothing else. *)
IsPage(p) == p = [i \in 0..PgWords - 1 |-> p[i]]

(* A push changes the words below esp, as many as are pushed, to the words *)
(* pushed.                                                                 *)
LEMMA PushedWords ==
  ASSUME NEW p, IsPage(p), NEW e \in Int, NEW w, Len(w) \in Nat
  PROVE  /\ IsPage(pushed(p, e, w))
         /\ \A i \in 0..PgWords - 1 :
              /\ i >= e => pushed(p, e, w)[i] = p[i]
              /\ i < e - Len(w) => pushed(p, e, w)[i] = p[i]
              /\ i < e /\ i >= e - Len(w) => pushed(p, e, w)[i] = w[e - i]
<1>1. DOMAIN p = 0..PgWords - 1
  BY DEF IsPage
<1>2. pushed(p, e, w) = [i \in 0..PgWords - 1 |->
                           IF i \in e - Len(w)..e - 1 THEN w[e - i] ELSE p[i]]
  BY <1>1 DEF pushed
<1>3. IsPage(pushed(p, e, w))
  BY <1>2 DEF IsPage
<1> QED
  BY <1>2, <1>3, Sizes

(* A pop gives up the words from esp on, as many as are popped. *)
LEMMA PoppedWords ==
  ASSUME NEW p, IsPage(p), NEW e \in Int, NEW n \in Nat
  PROVE  /\ IsPage(popped(p, e, n))
         /\ \A i \in 0..PgWords - 1 : i < e \/ i >= e + n => popped(p, e, n)[i] = p[i]
<1>1. DOMAIN p = 0..PgWords - 1
  BY DEF IsPage
<1>2. popped(p, e, n) = [i \in 0..PgWords - 1 |->
                           IF i \in e..e + n - 1 THEN JUNK ELSE p[i]]
  BY <1>1 DEF popped
<1>3. IsPage(popped(p, e, n))
  BY <1>2 DEF IsPage
<1>4. \A i \in 0..PgWords - 1 : i < e \/ i >= e + n => i \notin e..e + n - 1
  BY Sizes
<1> QED
  BY <1>2, <1>3, <1>4, Sizes

(* A store into a struct on the stack changes the fields that are          *)
(* assigned.                                                               *)
LEMMA StoredWords ==
  ASSUME NEW p, IsPage(p), NEW e \in Int, NEW s, NEW n \in Nat, DOMAIN s = 1..n, NEW v
  PROVE  /\ IsPage(stored(p, e, s, v))
         /\ \A i \in 0..PgWords - 1 :
              /\ i < e \/ i >= e + n => stored(p, e, s, v)[i] = p[i]
              /\ i >= e /\ i < e + n /\ s[i - e + 1] \in DOMAIN v =>
                   stored(p, e, s, v)[i] = v[s[i - e + 1]]
              /\ i >= e /\ i < e + n /\ s[i - e + 1] \notin DOMAIN v =>
                   stored(p, e, s, v)[i] = p[i]
<1>1. DOMAIN p = 0..PgWords - 1
  BY DEF IsPage
<1>2. stored(p, e, s, v) = [i \in 0..PgWords - 1 |->
        IF i - e + 1 \in 1..n /\ s[i - e + 1] \in DOMAIN v THEN v[s[i - e + 1]] ELSE p[i]]
  BY <1>1 DEF stored
<1>3. IsPage(stored(p, e, s, v))
  BY <1>2 DEF IsPage
<1>4. \A i \in 0..PgWords - 1 : i - e + 1 \in 1..n <=> i >= e /\ i < e + n
  BY Sizes
<1> QED
  BY <1>2, <1>3, <1>4, Sizes

(* q has the words of p from e on. *)
Above(p, q, e) == \A i \in 0..PgWords - 1 : i >= e => q[i] = p[i]

(* What iretd takes at e does not depend on words below e. *)
LEMMA IretAbove ==
  ASSUME NEW p, NEW q, NEW e \in Nat, e + 4 <= PgWords, Above(p, q, e),
         NEW c, Iret(p, e, c)
  PROVE  Iret(q, e, c)
<1>1. q[e] = p[e] /\ q[e + 1] = p[e + 1] /\ q[e + 2] = p[e + 2] /\ q[e + 3] = p[e + 3]
  BY Sizes DEF Above
<1> QED
  BY <1>1, Zenon DEF Iret

(* Pages that agree from e up agree from any higher word up. *)
LEMMA AboveHigher ==
  ASSUME NEW p, NEW q, NEW e \in Int, Above(p, q, e), NEW f \in Int, f >= e
  PROVE  Above(p, q, f)
BY Sizes DEF Above

(* The saved registers depend only on the words from the first one up. *)
LEMMA KeptAbove ==
  ASSUME NEW p, NEW q, NEW e \in Nat, e + 14 <= PgWords, Above(p, q, e + 1),
         NEW regs, Kept(p, e, regs)
  PROVE  Kept(q, e, regs)
<1> SUFFICES ASSUME NEW r \in Regs
             PROVE  q[e + field(intr_stack, r)] = regs[r]
  BY DEF Kept
<1>1. field(intr_stack, r) \in 1..12
  BY RegFields
<1>2. q[e + field(intr_stack, r)] = p[e + field(intr_stack, r)]
  BY <1>1, Sizes DEF Above
<1> QED
  BY <1>2 DEF Kept

(* So does a whole frame. *)
LEMMA FrameAbove ==
  ASSUME NEW p, NEW q, NEW e \in Nat, e + 18 <= PgWords, Above(p, q, e + 1),
         NEW c, Frame(p, e, c)
  PROVE  Frame(q, e, c)
<1>1. Above(p, q, e + 14)
  BY DEF Above
<1> QED
  BY <1>1, IretAbove, KeptAbove, Sizes DEF Frame

(* And the frame of a process that has no user stack yet. *)
LEMMA PreparedAbove ==
  ASSUME NEW p, NEW q, NEW e \in Nat, e + 18 <= PgWords, Above(p, q, e + 1), Prepared(p, e)
  PROVE  Prepared(q, e)
<1>1. q[e + 14] = p[e + 14] /\ q[e + 15] = p[e + 15] /\ q[e + 16] = p[e + 16]
  BY Sizes DEF Above
<1>2. Kept(q, e, NewRegisters)
  BY KeptAbove, Sizes DEF Prepared
<1> QED
  BY <1>1, <1>2 DEF Prepared

(* Where the stack of a context begins, and the room below it. *)
Top(c) == IF c.pc = "user" THEN PgWords ELSE c.esp

(* Below every context outside the handlers there is room for an           *)
(* interrupt's frame and for the frames of a switch, and above its frame   *)
(* the words of the context.                                               *)
LEMMA OwnRoom ==
  ASSUME NEW t, NEW c, NEW p, NEW ps, NEW rest, Own(t, c, p, ps, rest)
  PROVE  /\ Low(c) \in Nat /\ Low(c) - (2 * CFrame + 7) > 0
         /\ Low(c) + 18 <= PgWords
         /\ Top(c) \in Nat /\ Top(c) <= PgWords
         /\ Low(c) + (IF c.pc = "user" THEN 19 ELSE 17) = Top(c)
<1>1. CASE c.pc = "user"
  BY <1>1, Sizes DEF Low, Top
<1>2. CASE c.pc # "user"
  <2>1. c.esp \in {PgWords - CFrame, kstack + 5, inner, frame, frame + 14}
    BY <1>2 DEF Own
  <2>2. c.esp \in Int /\ c.esp >= PgWords - 103 - 2 * CFrame /\ c.esp < PgWords
    BY <2>1, Sizes
  <2> QED
    BY <1>2, <2>2, Sizes DEF Low, Top
<1> QED
  BY <1>1, <1>2

(* What a context needs of its page lies above its stack pointer. *)
LEMMA OwnAbove ==
  ASSUME NEW t, NEW c, NEW p, NEW q, NEW ps, NEW rest, Own(t, c, p, ps, rest),
         Above(p, q, Top(c))
  PROVE  Own(t, c, q, ps, rest)
<1>1. CASE c.pc \in {"user", "loop", "function", "start_process"}
  BY <1>1, Zenon DEF Own
<1>2. CASE c.pc = "call"
  <2>1. c.esp = kstack + 5 /\ Top(c) = kstack + 5
    BY <1>2 DEF Own, Top
  <2>2. q[kstack + 6] = p[kstack + 6]
    BY <2>1, Sizes DEF Above
  <2> QED
    BY <1>2, <2>2, Zenon DEF Own
<1>3. CASE c.pc = "get_a_page"
  <2>1. c.esp = inner /\ Top(c) = inner /\ Prepared(p, frame)
    BY <1>3 DEF Own, Top
  <2>2. Above(p, q, frame + 1)
    BY <2>1, Sizes DEF Above
  <2>3. Prepared(q, frame)
    BY <2>1, <2>2, PreparedAbove, Sizes
  <2> QED
    BY <1>3, <2>3, Zenon DEF Own
<1>4. CASE c.pc = "jmp"
  <2>1. c.esp = inner /\ Top(c) = inner /\ Frame(p, frame, U)
    BY <1>4 DEF Own, Top
  <2>2. Above(p, q, frame + 1)
    BY <2>1, Sizes DEF Above
  <2>3. Frame(q, frame, U)
    BY <2>1, <2>2, FrameAbove, Sizes
  <2> QED
    BY <1>4, <2>3, Zenon DEF Own
<1>5. CASE c.pc = "intr_exit"
  <2>1. c.esp = frame /\ Top(c) = frame /\ Frame(p, frame, U)
    BY <1>5 DEF Own, Top
  <2>2. Above(p, q, frame + 1)
    BY <2>1, Sizes DEF Above
  <2>3. Frame(q, frame, U)
    BY <2>1, <2>2, FrameAbove, Sizes
  <2> QED
    BY <1>5, <2>3, Zenon DEF Own
<1>6. CASE c.pc = "iretd"
  <2>1. c.esp = frame + 14 /\ Top(c) = frame + 14 /\ Iret(p, frame + 14, U)
    BY <1>6 DEF Own, Top
  <2>3. Iret(q, frame + 14, U)
    BY <2>1, IretAbove, Sizes
  <2> QED
    BY <1>6, <2>3, Zenon DEF Own
<1> QED
  BY <1>1, <1>2, <1>3, <1>4, <1>5, <1>6, Zenon DEF Own

-----------------------------------------------------------------------------
(* A step of the running thread that changes nothing of another thread. *)

(* A step of the running thread that changes its own page, contexts and    *)
(* saved stack pointers only: what is left to show is the thread itself.   *)
LEMMA LocalStep ==
  ASSUME Shape, Listed, Kstacks, \A t \in Threads : Outside(due[t]),
         NEW q, NEW d, NEW k, NEW ps, Outside(d), IsPage(q),
         mem' = [mem EXCEPT ![cur] = q], due' = [due EXCEPT ![cur] = d],
         self_kstack' = [self_kstack EXCEPT ![cur] = k],
         proc_stack' = [proc_stack EXCEPT ![cur] = ps],
         UNCHANGED <<cur, ready, all, esp0>>,
         reg' = [r \in Regs |-> reg'[r]]
  PROVE  /\ Shape' /\ Listed' /\ Kstacks'
         /\ \A t \in Threads : Outside(due'[t])
         /\ Live /\ q[0] = MAGIC /\ OnCPU' => Live'
         /\ mem'[cur] = q /\ due'[cur] = d /\ self_kstack'[cur] = k /\ proc_stack'[cur] = ps
<1>0. cur \in Threads /\ ready' = ready /\ all' = all /\ cur' = cur /\ esp0' = esp0
  BY DEF Listed
<1>1. /\ mem = [t \in Threads |-> mem[t]] /\ due = [t \in Threads |-> due[t]]
      /\ self_kstack = [t \in Threads |-> self_kstack[t]]
      /\ proc_stack = [t \in Threads |-> proc_stack[t]]
  BY DEF Shape
<1>2. /\ mem'[cur] = q /\ due'[cur] = d /\ self_kstack'[cur] = k /\ proc_stack'[cur] = ps
      /\ mem' = [t \in Threads |-> mem'[t]] /\ due' = [t \in Threads |-> due'[t]]
      /\ self_kstack' = [t \in Threads |-> self_kstack'[t]]
      /\ proc_stack' = [t \in Threads |-> proc_stack'[t]]
  BY <1>0, <1>1
<1>3. \A t \in Threads : t # cur =>
        /\ mem'[t] = mem[t] /\ due'[t] = due[t]
        /\ self_kstack'[t] = self_kstack[t] /\ proc_stack'[t] = proc_stack[t]
  BY <1>1
<1>4. \A t \in Threads : IsPage(mem'[t])
  <2>1. \A t \in Threads : IsPage(mem[t])
    BY DEF Shape, IsPage
  <2> QED
    BY <1>2, <1>3, <2>1
<1>5. Shape'
  BY <1>2, <1>4 DEF Shape, IsPage
<1>6. Listed'
  BY <1>0 DEF Listed
<1>7. Kstacks'
  BY <1>0, <1>3 DEF Kstacks
<1>8. ASSUME Live, q[0] = MAGIC, OnCPU'
      PROVE  Live'
  <2>1. \A t \in Threads : mem'[t][0] = MAGIC
    BY <1>2, <1>3, <1>8 DEF Live
  <2>2. \A t \in Threads : elem_find(ready, t) => Parked(t)'
    <3> SUFFICES ASSUME NEW t \in Threads, elem_find(ready, t)
                 PROVE  Parked(t)'
      OBVIOUS
    <3>1. t # cur /\ Parked(t)
      BY <1>8 DEF Listed, Live
    <3> QED
      BY <1>3, <3>1 DEF Parked
  <2>3. \A t \in Threads : ~ elem_find(all, t) => due'[t] = <<>>
    <3>1. \A t \in Threads : ~ elem_find(all, t) => t # cur /\ due[t] = <<>>
      BY <1>8 DEF Listed, Live
    <3> QED
      BY <1>3, <3>1
  <2>4. cur' \in Procs => esp0' = cur'
    BY <1>0, <1>8 DEF Live
  <2> QED
    BY <1>0, <1>8, <2>1, <2>2, <2>3, <2>4 DEF Live
<1>11. \A t \in Threads : Outside(due'[t])
  BY <1>2, <1>3
<1> QED
  BY <1>2, <1>5, <1>6, <1>7, <1>8, <1>11

-----------------------------------------------------------------------------
(* Entering an interrupt. *)

(* What the CPU pushes when c is interrupted. *)
EntryWords(c) == IF c.pc = "user" THEN <<"user data", UserTop, "IF", "user", c.pc>>
                                  ELSE <<"IF", "kernel", c.pc>>

(* The CPU pushes what iretd will take, below the stack of the context. *)
LEMMA EntryFrame ==
  ASSUME NEW p, IsPage(p), NEW t, NEW c, NEW ps, NEW rest, Own(t, c, p, ps, rest), NEW q,
         q = pushed(p, Top(c), EntryWords(c))
  PROVE  /\ IsPage(q) /\ q[0] = p[0]
         /\ Own(t, c, q, ps, rest)
         /\ Iret(q, Low(c) + 14, c)
         /\ Top(c) - Len(EntryWords(c)) = Low(c) + 14
<1> DEFINE w == EntryWords(c)
<1> DEFINE e == Top(c)
<1>1. /\ Low(c) \in Nat /\ Low(c) + 18 <= PgWords /\ e \in Nat /\ e <= PgWords
      /\ Low(c) + (IF c.pc = "user" THEN 19 ELSE 17) = e
      /\ PgWords \in Nat
  BY OwnRoom, Sizes
<1>2. Len(w) = IF c.pc = "user" THEN 5 ELSE 3
  BY DEF EntryWords
<1>3. e - Len(w) = Low(c) + 14
  BY <1>1, <1>2
<1> HIDE DEF w, e
<1>4. /\ IsPage(q)
      /\ \A i \in 0..PgWords - 1 :
              /\ i >= e => q[i] = p[i]
              /\ i < e - Len(w) => q[i] = p[i]
              /\ i < e /\ i >= e - Len(w) => q[i] = w[e - i]
  <2>1. q = pushed(p, e, w) /\ e \in Int /\ Len(w) \in Nat
    BY <1>1, <1>2 DEF e, w
  <2> QED
    BY <2>1, PushedWords
<1>5. q[0] = p[0]
  BY <1>1, <1>3, <1>4
<1>6. Own(t, c, q, ps, rest)
  <2>1. Above(p, q, Top(c))
    BY <1>4 DEF Above, e
  <2> QED
    BY <2>1, OwnAbove
<1>7. Iret(q, Low(c) + 14, c)
  <2>1. CASE c.pc = "user"
    <3>1. w[5] = c.pc /\ w[4] = "user" /\ w[3] = "IF" /\ w[2] = UserTop
      BY <2>1 DEF w, EntryWords
    <3>2. /\ q[Low(c) + 14] = w[5] /\ q[(Low(c) + 14) + 1] = w[4] /\ q[(Low(c) + 14) + 2] = w[3]
          /\ q[(Low(c) + 14) + 3] = w[2]
      <4>1. e = Low(c) + 19 /\ Len(w) = 5
        BY <1>1, <1>2, <2>1
      <4> QED
        BY <1>1, <1>4, <4>1
    <3> QED
      BY <2>1, <3>1, <3>2 DEF Iret
  <2>2. CASE c.pc # "user"
    <3>1. w[3] = c.pc /\ w[2] = "kernel" /\ w[1] = "IF"
      BY <2>2 DEF w, EntryWords
    <3>2. /\ q[Low(c) + 14] = w[3] /\ q[(Low(c) + 14) + 1] = w[2] /\ q[(Low(c) + 14) + 2] = w[1]
      <4>1. e = Low(c) + 17 /\ Len(w) = 3
        BY <1>1, <1>2, <2>2
      <4> QED
        BY <1>1, <1>4, <4>1
    <3>3. (Low(c) + 14) + 3 = c.esp
      BY <1>1, <2>2 DEF e, Top
    <3> QED
      BY <2>2, <3>1, <3>2, <3>3 DEF Iret
  <2> QED
    BY <2>1, <2>2
<1> QED
  BY <1>3, <1>4, <1>5, <1>6, <1>7 DEF w, e

(* The program points outside the handlers, and the stack pointer at each. *)
LEMMA OwnPlaces ==
  ASSUME NEW t, NEW c, NEW p, NEW ps, NEW rest, Own(t, c, p, ps, rest)
  PROVE  /\ c.pc \in {"user", "loop", "call", "function", "start_process", "get_a_page", "jmp",
                      "intr_exit", "iretd"}
         /\ rest \in {<<>>, <<U>>}
         /\ c.reg = [r \in Regs |-> c.reg[r]]
         /\ c.user <=> (c.pc = "user")
         /\ c.pc = "user" => t \in Procs
         /\ c.pc # "user" => Top(c) = c.esp
         /\ c.pc = "user" => Top(c) = PgWords /\ c.esp = 0
<1>1. /\ c.pc \in {"user", "loop", "call", "function", "start_process", "get_a_page", "jmp",
                      "intr_exit", "iretd"}
      /\ rest \in {<<>>, <<U>>}
      /\ c.reg = [r \in Regs |-> c.reg[r]]
      /\ c.user <=> (c.pc = "user")
      /\ c.pc = "user" => t \in Procs /\ c.esp = 0
  BY Zenon DEF Own
<1> QED
  BY <1>1 DEF Top

(* Appending to a sequence of one element, and taking the last away again. *)
LEMMA Pairs ==
  ASSUME NEW a, NEW c
  PROVE  /\ Append(<<a>>, c) = <<a, c>>
         /\ SubSeq(<<a, c>>, 1, 1) = <<a>>
<1>1. <<a, c>> \in Seq({a, c}) /\ Len(<<a, c>>) = 2 /\ <<a, c>>[1] = a /\ <<a, c>>[2] = c
  OBVIOUS
<1>2. <<a>> \in Seq({a, c}) /\ Len(<<a>>) = 1 /\ <<a>>[1] = a
  OBVIOUS
<1> DEFINE z == SubSeq(<<a, c>>, 1, 1)
<1> DEFINE y == Append(<<a>>, c)
<1>3. z \in Seq({a, c}) /\ Len(z) = 1 /\ z[1] = a
  BY <1>1, SubSeqProperties
<1>4. y \in Seq({a, c}) /\ Len(y) = 2 /\ y[1] = a /\ y[2] = c
  BY <1>2, AppendProperties
<1> HIDE DEF y, z
<1>5. z = <<a>>
  BY <1>3, SeqEqual
<1>6. y = <<a, c>>
  BY <1>1, <1>4, SeqEqual
<1> QED
  BY <1>5, <1>6 DEF y, z

(* An interrupt appends the interrupted context, and nothing is lost below *)
(* it.                                                                     *)
LEMMA DueAppend ==
  ASSUME NEW rest \in {<<>>, <<U>>}, NEW c, c.pc \notin {"entry", "eoi", "handler"}
  PROVE  /\ last(Append(rest, c)) = c
         /\ front(Append(rest, c)) = rest
         /\ Append(rest, c) # <<>>
         /\ Outside(Append(rest, c))
         /\ Outside(rest)
<1>0. U.pc = "user"
  BY DEF U
<1>1. CASE rest = <<>>
  <2>1. Append(rest, c) = <<c>>
    BY <1>1
  <2>2. Len(<<c>>) = 1 /\ SubSeq(<<c>>, 1, 0) = <<>> /\ <<c>>[1] = c /\ DOMAIN <<c>> = {1}
    OBVIOUS
  <2> QED
    BY <1>1, <2>1, <2>2 DEF last, front, Outside
<1>2. CASE rest = <<U>>
  <2>1. Append(rest, c) = <<U, c>> /\ SubSeq(<<U, c>>, 1, 1) = <<U>>
    BY <1>2, Pairs
  <2>2. /\ Len(<<U, c>>) = 2 /\ <<U, c>>[1] = U /\ <<U, c>>[2] = c
        /\ DOMAIN <<U, c>> = {1, 2} /\ DOMAIN <<U>> = {1} /\ <<U>>[1] = U
        /\ <<U, c>> # <<>>
    OBVIOUS
  <2>3. last(<<U, c>>) = c /\ front(<<U, c>>) = <<U>>
    BY <2>1, <2>2 DEF last, front
  <2>4. Outside(<<U, c>>) /\ Outside(<<U>>)
    BY <1>0, <2>2 DEF Outside
  <2> QED
    BY <1>2, <2>1, <2>2, <2>3, <2>4
<1> QED
  BY <1>1, <1>2

(* An assignment of the value that is there already changes nothing. *)
LEMMA SameExcept ==
  ASSUME NEW f, f = [t \in Threads |-> f[t]], NEW t0
  PROVE  f = [f EXCEPT ![t0] = f[t0]]
OBVIOUS

(* The words that the CPU pushes. *)
LEMMA EntryConcat ==
  ASSUME NEW x, NEW y
  PROVE  /\ (<<"user data", UserTop>> \o <<"IF", y, x>>) \o <<>> = <<"user data", UserTop, "IF", y, x>>
         /\ (<<>> \o <<"IF", y, x>>) \o <<>> = <<"IF", y, x>>
         /\ Len((<<"user data", UserTop>> \o <<"IF", y, x>>) \o <<"code">>) \in Nat
<1> DEFINE S == {"user data", UserTop, "IF", y, x, "code"}
<1> DEFINE s == <<"user data", UserTop>>
<1> DEFINE t == <<"IF", y, x>>
<1> DEFINE u == <<"user data", UserTop, "IF", y, x>>
<1>1. /\ s \in Seq(S) /\ t \in Seq(S) /\ u \in Seq(S) /\ <<"code">> \in Seq(S)
      /\ Len(s) = 2 /\ Len(t) = 3 /\ Len(u) = 5 /\ Len(<<"code">>) = 1
  OBVIOUS
<1>2. /\ u[1] = s[1] /\ u[2] = s[2] /\ u[3] = t[1] /\ u[4] = t[2] /\ u[5] = t[3]
  OBVIOUS
<1> HIDE DEF S, s, t, u
<1>3. /\ s \o t \in Seq(S) /\ Len(s \o t) = Len(s) + Len(t)
      /\ \A i \in 1..Len(s) + Len(t) : (s \o t)[i] = IF i <= Len(s) THEN s[i] ELSE t[i - Len(s)]
  BY <1>1, ConcatProperties, Zenon
<1>4. s \o t = u
  <2>1. Len(s \o t) = 5 /\ \A i \in 1..5 : (s \o t)[i] = IF i <= 2 THEN s[i] ELSE t[i - 2]
    <3>1. Len(s) + Len(t) = 5
      BY <1>1
    <3> QED
      BY <1>1, <1>3, <3>1
  <2>2. /\ (s \o t)[1] = s[1] /\ (s \o t)[2] = s[2] /\ (s \o t)[3] = t[1]
        /\ (s \o t)[4] = t[2] /\ (s \o t)[5] = t[3]
    BY <2>1
  <2>3. \A i \in 1..5 : i = 1 \/ i = 2 \/ i = 3 \/ i = 4 \/ i = 5
    OBVIOUS
  <2>4. \A i \in 1..5 : (s \o t)[i] = u[i]
    BY <1>2, <2>2, <2>3
  <2> QED
    BY <1>1, <1>3, <2>1, <2>4, SeqEqual
<1>5. Len((s \o t) \o <<"code">>) \in Nat
  BY <1>1, <1>3, ConcatProperties, LenProperties
<1>6. (s \o t) \o <<>> = s \o t /\ <<>> \o t = t /\ t \o <<>> = t
  BY <1>1, <1>3, ConcatEmptySeq, Zenon
<1> QED
  BY <1>4, <1>5, <1>6 DEF s, t, u

(* The CPU enters an interrupt, with a frame that matches what it          *)
(* interrupts.                                                             *)
LEMMA EnterStep ==
  ASSUME InterruptInv, NEW v, enter(v), intr \/ user,
         v \in Returning \/ v \in 0..31, v \in 0..31 => user, v = 32 => prompt
  PROVE  InterruptInv'
<1> DEFINE c == Running
<1> DEFINE p == mem[cur]
<1>1. Live
  BY DEF InterruptInv, Dead
<1>2. /\ Own(cur, c, p, proc_stack[cur], due[cur])
      /\ EarlyKept(cur, c, self_kstack[cur])
  BY <1>1 DEF Live, OnCPU
<1>3. c.pc = pc /\ c.esp = esp /\ c.user = user /\ c.reg = reg
  BY DEF Running
<1>4. /\ pc \in {"user", "loop", "call", "function", "start_process", "get_a_page", "jmp",
                      "intr_exit", "iretd"}
      /\ due[cur] \in {<<>>, <<U>>}
      /\ reg = [r \in Regs |-> reg[r]]
      /\ user <=> (pc = "user")
      /\ pc = "user" => cur \in Procs
      /\ Top(c) = IF pc = "user" THEN PgWords ELSE esp
  <2> HIDE DEF c
  <2> QED
    BY <1>2, <1>3, OwnPlaces
<1>5. cur \in Threads /\ user => esp0 = cur
  BY <1>1, <1>4 DEF Live
<1> DEFINE w == ((IF user THEN <<"user data", UserTop>> ELSE <<>>)
               \o <<"IF", IF user THEN "user" ELSE "kernel", pc>>)
               \o (IF error_code(v) THEN <<"code">> ELSE <<>>)
<1> DEFINE q == pushed(p, Top(c), w)
<1>6. /\ mem' = [mem EXCEPT ![cur] = pushed(mem[cur], IF user THEN PgWords ELSE esp, w)]
      /\ cur' = cur
      /\ esp' = (IF user THEN PgWords ELSE esp) - Len(w)
      /\ user' = FALSE /\ intr' = FALSE /\ pc' = "entry" /\ vec' = v
      /\ due' = [due EXCEPT ![cur] = Append(@, [pc |-> pc, esp |-> esp, user |-> user, reg |-> reg])]
      /\ UNCHANGED <<reg, sched, proc_stack>>
  <2>1. CASE user
    BY <1>5, <2>1 DEF enter, gate, Listed, InterruptInv
  <2>2. CASE ~ user
    BY <2>2 DEF enter, gate
  <2> QED
    BY <2>1, <2>2
<1>7. /\ mem' = [mem EXCEPT ![cur] = q]
      /\ esp' = Top(c) - Len(w)
      /\ due' = [due EXCEPT ![cur] = Append(due[cur], c)]
      /\ self_kstack' = [self_kstack EXCEPT ![cur] = self_kstack[cur]]
      /\ proc_stack' = [proc_stack EXCEPT ![cur] = proc_stack[cur]]
      /\ UNCHANGED <<cur, ready, all, esp0>>
      /\ self_kstack' = self_kstack /\ ticks' = ticks /\ reg' = reg
  <2>1. (IF user THEN PgWords ELSE esp) = Top(c)
    BY <1>4, Zenon
  <2>2. mem' = [mem EXCEPT ![cur] = q] /\ esp' = Top(c) - Len(w)
    BY <1>6, <2>1, Zenon
  <2>3. due' = [due EXCEPT ![cur] = Append(due[cur], c)]
    BY <1>6, Zenon DEF Running
  <2>4. UNCHANGED <<self_kstack, ticks, ready, all, esp0, proc_stack, cur, reg>>
    BY <1>6 DEF sched
  <2> HIDE DEF q, w, c, p
  <2> QED
    BY <2>2, <2>3, <2>4, SameExcept DEF InterruptInv, Shape
<1>8. IsPage(p) /\ Top(c) \in Nat /\ p[0] = MAGIC /\ cur \in Threads
  <2>1. cur \in Threads
    BY DEF InterruptInv, Listed
  <2>2. Top(c) \in Nat
    BY <1>2, OwnRoom
  <2> QED
    BY <1>1, <2>1, <2>2 DEF InterruptInv, Shape, Live, IsPage
<1>w. /\ ~ user => w = <<"IF", "kernel", pc>>
      /\ user /\ ~ error_code(v) => w = <<"user data", UserTop, "IF", "user", pc>>
      /\ user /\ error_code(v) =>
           w = (<<"user data", UserTop>> \o <<"IF", "user", pc>>) \o <<"code">>
  <2>1. ~ user => ~ error_code(v)
    BY DEF error_code, Returning
  <2>2. CASE ~ user
    <3>1. w = (<<>> \o <<"IF", "kernel", pc>>) \o <<>>
      BY <2>1, <2>2
    <3> QED
      BY <2>2, <3>1, EntryConcat, Zenon
  <2>3. CASE user /\ error_code(v)
    BY <2>3
  <2>4. CASE user /\ ~ error_code(v)
    <3>1. w = (<<"user data", UserTop>> \o <<"IF", "user", pc>>) \o <<>>
      BY <2>4
    <3> QED
      BY <2>4, <3>1, EntryConcat, Zenon
  <2> QED
    BY <2>2, <2>3, <2>4
<1>9. Len(w) \in Nat
  <2> HIDE DEF w
  <2>1. /\ Len(<<"IF", "kernel", pc>>) \in Nat
        /\ Len(<<"user data", UserTop, "IF", "user", pc>>) \in Nat
    OBVIOUS
  <2>2. Len((<<"user data", UserTop>> \o <<"IF", "user", pc>>) \o <<"code">>) \in Nat
    BY EntryConcat, Zenon
  <2>3. user \/ ~ user
    OBVIOUS
  <2> QED
    BY <1>w, <2>1, <2>2, <2>3, Zenon
<1> HIDE DEF p, c, w
<1>10. IsPage(q)
  BY <1>8, <1>9, PushedWords
<1> HIDE DEF q
<1>11. /\ last(Append(due[cur], c)) = c /\ front(Append(due[cur], c)) = due[cur]
       /\ Append(due[cur], c) # <<>> /\ Outside(Append(due[cur], c))
  <2>1. c.pc \notin {"entry", "eoi", "handler"}
    BY <1>3, <1>4
  <2> QED
    BY <1>4, <2>1, DueAppend
<1>12. /\ Shape' /\ Listed' /\ Kstacks'
       /\ \A t \in Threads : Outside(due'[t])
       /\ Live /\ q[0] = MAGIC /\ OnCPU' => Live'
       /\ mem'[cur] = q /\ due'[cur] = Append(due[cur], c)
       /\ self_kstack'[cur] = self_kstack[cur] /\ proc_stack'[cur] = proc_stack[cur]
  <2>1. reg' = [r \in Regs |-> reg'[r]]
    BY <1>4, <1>7
  <2> QED
    BY <1>7, <1>10, <1>11, <2>1, LocalStep DEF InterruptInv
<1>13. CASE v \in Returning
  <2>1. w = EntryWords(c)
    <3>1. ~ error_code(v)
      BY <1>13 DEF error_code, Returning
    <3> QED
      BY <1>3, <1>4, <1>w, <3>1, Zenon DEF EntryWords
  <2>2. /\ q[0] = MAGIC
        /\ Own(cur, c, q, proc_stack[cur], due[cur])
        /\ Iret(q, Low(c) + 14, c)
        /\ esp' = Low(c) + 14
    <3>1. q = pushed(p, Top(c), EntryWords(c))
      BY <2>1 DEF q
    <3>2. Own(cur, c, p, proc_stack[cur], due[cur])
      BY <1>2
    <3>3. /\ q[0] = p[0] /\ Own(cur, c, q, proc_stack[cur], due[cur])
          /\ Iret(q, Low(c) + 14, c) /\ Top(c) - Len(EntryWords(c)) = Low(c) + 14
      BY ONLY <1>8, <3>1, <3>2, EntryFrame
    <3> QED
      BY <1>7, <1>8, <2>1, <3>3, Zenon
  <2>3. c.pc \in Early /\ cur \in Procs /\ v = 32 => ticks[cur] # 0
    BY <1>3 DEF prompt
  <2>4. OnCPU'
    <3>1. ~ intr' /\ ~ user' /\ pc' = "entry" /\ vec' \in Returning /\ cur' = cur /\ reg' = c.reg
          /\ vec' = v /\ ticks' = ticks
      BY <1>3, <1>6, <1>7, <1>13
    <3>2. Handling(cur, pc', v, esp', reg', ticks[cur], c, q)
      BY <1>13, <2>2, <2>3, <3>1, Zenon DEF Handling
    <3>3. EarlyKept(cur, c, self_kstack'[cur])
      BY <1>2, <1>7, Zenon
    <3> QED
      BY <1>2, <1>11, <1>12, <2>2, <3>1, <3>2, <3>3, Zenon DEF OnCPU
  <2> QED
    BY <1>1, <1>12, <2>2, <2>4, <1>7 DEF InterruptInv
<1>14. CASE v \in 0..31
  <2>2. Dead'
    BY <1>6, <1>14 DEF Dead
  <2> QED
    BY <1>12, <2>2, <1>7 DEF InterruptInv
<1> QED
  BY <1>13, <1>14

-----------------------------------------------------------------------------
(* The steps of a handler. *)

(* A handler of a running kernel has an interrupted context, whose frame   *)
(* it keeps.                                                               *)
LEMMA InHandler ==
  ASSUME Live, ~ intr, pc \in {"entry", "eoi", "handler", "intr_exit", "iretd"}
  PROVE  /\ ~ user /\ due[cur] # <<>>
         /\ Own(cur, last(due[cur]), mem[cur], proc_stack[cur], front(due[cur]))
         /\ EarlyKept(cur, last(due[cur]), self_kstack[cur])
         /\ Handling(cur, pc, vec, esp, reg, ticks[cur], last(due[cur]), mem[cur])
BY Zenon DEF Live, OnCPU

(* The entry and the handlers run with interrupts off. *)
LEMMA NotOwn ==
  ASSUME Live, pc \in {"entry", "eoi", "handler"}
  PROVE  ~ intr
<1> SUFFICES ASSUME intr PROVE FALSE
  OBVIOUS
<1>1. Own(cur, Running, mem[cur], proc_stack[cur], due[cur])
  BY Zenon DEF Live, OnCPU
<1>2. Running.pc = pc
  BY DEF Running
<1>3. pc \in {"user", "loop", "call", "function", "start_process", "get_a_page", "jmp",
                      "intr_exit", "iretd"}
  BY ONLY <1>1, <1>2, OwnPlaces
<1> QED
  BY <1>3

(* A step of the running thread on its own stack, no context added or      *)
(* taken.                                                                  *)
LEMMA CurrentStep ==
  ASSUME InterruptInv, NEW q, IsPage(q), mem' = [mem EXCEPT ![cur] = q],
         UNCHANGED <<cur, ready, all, esp0, self_kstack, proc_stack, due>>,
         reg' = [r \in Regs |-> reg'[r]]
  PROVE  /\ mem'[cur] = q
         /\ Dead' => InterruptInv'
         /\ Live /\ q[0] = MAGIC /\ OnCPU' => InterruptInv'
<1>1. /\ due' = [due EXCEPT ![cur] = due[cur]]
      /\ self_kstack' = [self_kstack EXCEPT ![cur] = self_kstack[cur]]
      /\ proc_stack' = [proc_stack EXCEPT ![cur] = proc_stack[cur]]
  BY SameExcept DEF InterruptInv, Shape
<1>2. Outside(due[cur]) /\ UNCHANGED <<cur, ready, all, esp0>>
  BY DEF InterruptInv, Listed
<1>3. /\ Shape' /\ Listed' /\ Kstacks'
      /\ \A t \in Threads : Outside(due'[t])
      /\ Live /\ q[0] = MAGIC /\ OnCPU' => Live'
      /\ mem'[cur] = q
  BY <1>1, <1>2, LocalStep DEF InterruptInv
<1> QED
  BY <1>3 DEF InterruptInv

(* A step of a handler that stays in the handler. *)
LEMMA HandlerStep ==
  ASSUME InterruptInv, Live, ~ intr, ~ user, due[cur] # <<>>,
         NEW q, IsPage(q), q[0] = MAGIC, mem' = [mem EXCEPT ![cur] = q],
         UNCHANGED <<cur, user, intr, ready, all, esp0, self_kstack, proc_stack, due>>,
         reg' = [r \in Regs |-> reg'[r]],
         Own(cur, last(due[cur]), q, proc_stack[cur], front(due[cur])),
         EarlyKept(cur, last(due[cur]), self_kstack[cur]),
         Handling(cur, pc', vec', esp', reg', ticks'[cur], last(due[cur]), q)
  PROVE  InterruptInv'
<1>1. UNCHANGED <<cur, ready, all, esp0, self_kstack, proc_stack, due>>
  OBVIOUS
<1>2. mem'[cur] = q /\ (Live /\ q[0] = MAGIC /\ OnCPU' => InterruptInv')
  BY <1>1, CurrentStep
<1>3. OnCPU'
  <2>1. /\ cur' = cur /\ user' = user /\ intr' = intr /\ due' = due /\ proc_stack' = proc_stack
        /\ self_kstack' = self_kstack
    OBVIOUS
  <2>2. /\ ~ intr' /\ ~ user' /\ due'[cur'] # <<>>
        /\ Own(cur', last(due'[cur']), mem'[cur'], proc_stack'[cur'], front(due'[cur']))
        /\ EarlyKept(cur', last(due'[cur']), self_kstack'[cur'])
        /\ Handling(cur', pc', vec', esp', reg', ticks'[cur'], last(due'[cur']), mem'[cur'])
    BY <1>2, <2>1
  <2> QED
    BY <2>2, Zenon DEF OnCPU
<1> QED
  BY <1>2, <1>3

(* A push leaves a page a page. *)
LEMMA PushedPage ==
  ASSUME NEW p, IsPage(p), NEW e, NEW w
  PROVE  IsPage(pushed(p, e, w))
<1>1. DOMAIN p = 0..PgWords - 1
  BY DEF IsPage
<1>2. pushed(p, e, w) = [i \in 0..PgWords - 1 |->
                           IF i \in e - Len(w)..e - 1 THEN w[e - i] ELSE p[i]]
  BY <1>1, Zenon DEF pushed
<1> DEFINE P(i) == IF i \in e - Len(w)..e - 1 THEN w[e - i] ELSE p[i]
<1> HIDE DEF P
<1>3. pushed(p, e, w) = [i \in 0..PgWords - 1 |-> P(i)]
  BY <1>2, Zenon DEF P
<1> QED
  BY <1>3 DEF IsPage

(* The running thread has a page with its guard word, the CPU its          *)
(* registers.                                                              *)
LEMMA Pages ==
  ASSUME InterruptInv
  PROVE  /\ cur \in Threads
         /\ IsPage(mem[cur])
         /\ reg = [r \in Regs |-> reg[r]]
         /\ DOMAIN reg = Regs
         /\ Live => mem[cur][0] = MAGIC
BY DEF InterruptInv, Shape, Listed, Live, IsPage

(* What the entry of interrupt_handler.asm pushes. *)
RegWords(regs) ==
  (<<"0">> \o <<regs["ds"], regs["es"], regs["fs"], regs["gs"]>>)
  \o <<regs["eax"], regs["ecx"], regs["edx"], regs["ebx"], "esp",
       regs["ebp"], regs["esi"], regs["edi"]>>

(* The thirteen words the entry pushes, by their place. *)
LEMMA RegWordsAt ==
  ASSUME NEW regs
  PROVE  /\ Len(RegWords(regs)) = 13
         /\ RegWords(regs)[2] = regs["ds"] /\ RegWords(regs)[3] = regs["es"]
         /\ RegWords(regs)[4] = regs["fs"] /\ RegWords(regs)[5] = regs["gs"]
         /\ RegWords(regs)[6] = regs["eax"] /\ RegWords(regs)[7] = regs["ecx"]
         /\ RegWords(regs)[8] = regs["edx"] /\ RegWords(regs)[9] = regs["ebx"]
         /\ RegWords(regs)[11] = regs["ebp"] /\ RegWords(regs)[12] = regs["esi"]
         /\ RegWords(regs)[13] = regs["edi"]
<1> DEFINE A == <<regs["ds"], regs["es"], regs["fs"], regs["gs"]>>
<1> DEFINE B == <<regs["eax"], regs["ecx"], regs["edx"], regs["ebx"], "esp",
                  regs["ebp"], regs["esi"], regs["edi"]>>
<1> DEFINE Z == <<"0">>
<1> DEFINE S == {"0", "esp", regs["ds"], regs["es"], regs["fs"], regs["gs"], regs["eax"],
                 regs["ecx"], regs["edx"], regs["ebx"], regs["ebp"], regs["esi"], regs["edi"]}
<1>1. /\ Z \in Seq(S) /\ A \in Seq(S) /\ B \in Seq(S) /\ Len(Z) = 1 /\ Len(A) = 4 /\ Len(B) = 8
  OBVIOUS
<1>2. /\ A[1] = regs["ds"] /\ A[2] = regs["es"] /\ A[3] = regs["fs"] /\ A[4] = regs["gs"]
      /\ B[1] = regs["eax"] /\ B[2] = regs["ecx"] /\ B[3] = regs["edx"] /\ B[4] = regs["ebx"]
      /\ B[6] = regs["ebp"] /\ B[7] = regs["esi"] /\ B[8] = regs["edi"]
  OBVIOUS
<1>3. RegWords(regs) = (Z \o A) \o B
  BY Zenon DEF RegWords
<1> HIDE DEF A, B, Z, S
<1>4. /\ Z \o A \in Seq(S) /\ Len(Z \o A) = Len(Z) + Len(A)
      /\ \A i \in 1..Len(Z) + Len(A) : (Z \o A)[i] = IF i <= Len(Z) THEN Z[i] ELSE A[i - Len(Z)]
  BY <1>1, ConcatProperties, Zenon
<1> DEFINE C == Z \o A
<1> HIDE DEF C
<1>5. /\ C \in Seq(S) /\ Len(C) = 5 /\ C[2] = A[1] /\ C[3] = A[2] /\ C[4] = A[3] /\ C[5] = A[4]
  <2>1. Len(C) = 5 /\ \A i \in 1..5 : C[i] = IF i <= 1 THEN Z[i] ELSE A[i - 1]
    <3>1. Len(Z) + Len(A) = 5
      BY <1>1
    <3> QED
      BY <1>1, <1>4, <3>1 DEF C
  <2> QED
    BY <1>4, <2>1 DEF C
<1>6. /\ Len(C \o B) = Len(C) + Len(B)
      /\ \A i \in 1..Len(C) + Len(B) : (C \o B)[i] = IF i <= Len(C) THEN C[i] ELSE B[i - Len(C)]
  BY <1>1, <1>5, ConcatProperties, Zenon
<1> DEFINE D == C \o B
<1> HIDE DEF D
<1>7. Len(D) = 13 /\ \A i \in 1..13 : D[i] = IF i <= 5 THEN C[i] ELSE B[i - 5]
  <2>1. Len(C) + Len(B) = 13
    BY <1>1, <1>5
  <2> QED
    BY <1>1, <1>5, <1>6, <2>1 DEF D
<1>8. /\ D[2] = C[2] /\ D[3] = C[3] /\ D[4] = C[4] /\ D[5] = C[5] /\ D[6] = B[1] /\ D[7] = B[2]
      /\ D[8] = B[3] /\ D[9] = B[4] /\ D[11] = B[6] /\ D[12] = B[7] /\ D[13] = B[8]
  BY <1>7
<1>9. RegWords(regs) = D
  BY <1>3 DEF D, C
<1> QED
  BY <1>2, <1>5, <1>7, <1>8, <1>9, Zenon

(* The entry's pushes complete the frame of what was interrupted. *)
LEMMA PushedFrame ==
  ASSUME NEW p, IsPage(p), NEW c, NEW t, NEW ps, NEW rest, Own(t, c, p, ps, rest),
         Iret(p, Low(c) + 14, c), NEW q, q = pushed(p, Low(c) + 14, RegWords(c.reg))
  PROVE  /\ IsPage(q) /\ q[0] = p[0]
         /\ Own(t, c, q, ps, rest)
         /\ Frame(q, Low(c), c)
<1> DEFINE w == RegWords(c.reg)
<1> DEFINE l == Low(c)
<1>1. l \in Nat /\ l > 0 /\ l + 18 <= PgWords /\ PgWords \in Nat /\ Top(c) \in Nat /\ Top(c) >= l + 14
  BY OwnRoom, Sizes
<1>2. /\ Len(w) = 13
      /\ w[2] = c.reg["ds"] /\ w[3] = c.reg["es"] /\ w[4] = c.reg["fs"] /\ w[5] = c.reg["gs"]
      /\ w[6] = c.reg["eax"] /\ w[7] = c.reg["ecx"] /\ w[8] = c.reg["edx"] /\ w[9] = c.reg["ebx"]
      /\ w[11] = c.reg["ebp"] /\ w[12] = c.reg["esi"] /\ w[13] = c.reg["edi"]
  BY RegWordsAt, Zenon
<1>3. q = pushed(p, l + 14, w)
  OBVIOUS
<1> HIDE DEF w, l
<1>4. /\ IsPage(q)
      /\ \A i \in 0..PgWords - 1 :
              /\ i >= l + 14 => q[i] = p[i]
              /\ i < (l + 14) - Len(w) => q[i] = p[i]
              /\ i < l + 14 /\ i >= (l + 14) - Len(w) => q[i] = w[(l + 14) - i]
  <2>1. l + 14 \in Int /\ Len(w) \in Nat
    BY <1>1, <1>2
  <2> QED
    BY <1>3, <2>1, PushedWords
<1>5. q[0] = p[0]
  BY <1>1, <1>2, <1>4
<1>6. Above(p, q, l + 14)
  BY <1>4 DEF Above
<1>7. Own(t, c, q, ps, rest)
  <2>1. Above(p, q, Top(c))
    BY <1>1, <1>6, AboveHigher
  <2> QED
    BY <2>1, OwnAbove
<1>8. Iret(q, l + 14, c)
  BY <1>1, <1>6, IretAbove DEF l
<1>9. /\ q[l + 1] = w[13] /\ q[l + 2] = w[12] /\ q[l + 3] = w[11] /\ q[l + 5] = w[9]
      /\ q[l + 6] = w[8] /\ q[l + 7] = w[7] /\ q[l + 8] = w[6] /\ q[l + 9] = w[5]
      /\ q[l + 10] = w[4] /\ q[l + 11] = w[3] /\ q[l + 12] = w[2]
  <2>1. ASSUME NEW k \in 1..12
        PROVE  q[l + k] = w[14 - k]
    BY <1>1, <1>2, <1>4
  <2> QED
    BY <2>1
<1>10. Kept(q, l, c.reg)
  <2> SUFFICES ASSUME NEW r \in Regs
               PROVE  q[l + field(intr_stack, r)] = c.reg[r]
    BY DEF Kept
  <2>1. r \in {"edi", "esi", "ebp", "ebx", "edx", "ecx", "eax", "gs", "fs", "es", "ds"}
    BY DEF Regs, General, Segments
  <2> QED
    BY <1>2, <1>9, <2>1, IntrFields
<1> QED
  BY <1>4, <1>5, <1>7, <1>8, <1>10 DEF Frame, l

(* The entry of interrupt_handler.asm keeps the invariant. *)
LEMMA PushRegisters ==
  ASSUME InterruptInv, push_registers
  PROVE  InterruptInv'
<1>0. pc = "entry" /\ pc' = "eoi"
  BY DEF push_registers
<1> DEFINE w == ((IF VECTOR(vec) THEN <<>> ELSE <<"0">>)
               \o <<reg["ds"], reg["es"], reg["fs"], reg["gs"]>>)
               \o <<reg["eax"], reg["ecx"], reg["edx"], reg["ebx"], "esp",
                    reg["ebp"], reg["esi"], reg["edi"]>>
<1> DEFINE q == pushed(mem[cur], esp, w)
<1>1. /\ mem' = [mem EXCEPT ![cur] = q] /\ esp' = esp - Len(w)
      /\ UNCHANGED <<cur, user, reg, intr, vec, pic, sched, proc_stack, due>>
  BY DEF push_registers
<1>2. UNCHANGED <<cur, user, intr, ready, all, esp0, self_kstack, proc_stack, due, vec, reg, ticks>>
  BY <1>1 DEF sched
<1> HIDE DEF w
<1>3. IsPage(q) /\ reg' = [r \in Regs |-> reg'[r]]
  BY <1>2, Pages, PushedPage
<1>4. CASE Live
  <2> DEFINE c == last(due[cur])
  <2>1. ~ intr
    BY <1>0, <1>4, NotOwn
  <2>2. /\ ~ user /\ due[cur] # <<>>
        /\ Own(cur, c, mem[cur], proc_stack[cur], front(due[cur]))
        /\ EarlyKept(cur, c, self_kstack[cur])
        /\ Handling(cur, pc, vec, esp, reg, ticks[cur], c, mem[cur])
    BY <1>0, <1>4, <2>1, InHandler
  <2> HIDE DEF c
  <2>3. /\ vec \in Returning
        /\ esp = Low(c) + 14 /\ Iret(mem[cur], Low(c) + 14, c) /\ reg = c.reg
        /\ c.pc \in Early /\ cur \in Procs /\ vec = 32 => ticks[cur] # 0
    BY <1>0, <2>2 DEF Handling
  <2>4. w = RegWords(c.reg)
    <3>1. ~ VECTOR(vec)
      BY <2>3 DEF VECTOR, Returning
    <3> QED
      BY <2>3, <3>1, Zenon DEF w, RegWords
  <2>5. q = pushed(mem[cur], Low(c) + 14, RegWords(c.reg))
    BY <2>3, <2>4
  <2> HIDE DEF q
  <2>6. /\ q[0] = mem[cur][0]
        /\ Own(cur, c, q, proc_stack[cur], front(due[cur]))
        /\ Frame(q, Low(c), c)
    <3>1. IsPage(mem[cur])
      BY Pages
    <3> QED
      BY ONLY <2>2, <2>3, <2>5, <3>1, PushedFrame
  <2>7. esp' = Low(c) + 1
    <3>1. Low(c) \in Nat
      BY ONLY <2>2, OwnRoom
    <3>2. Len(w) = 13
      BY <2>4, RegWordsAt
    <3> QED
      BY <1>1, <2>3, <3>1, <3>2
  <2>8. Handling(cur, pc', vec', esp', reg', ticks'[cur], c, q)
    BY <1>0, <1>2, <2>3, <2>6, <2>7 DEF Handling
  <2>9. q[0] = MAGIC
    BY <1>4, <2>6, Pages
  <2> QED
    BY <1>1, <1>2, <1>3, <1>4, <2>1, <2>2, <2>6, <2>8, <2>9, HandlerStep DEF c
<1>5. CASE Dead
  <2>1. Dead'
    BY <1>0, <1>2, <1>5 DEF Dead
  <2> HIDE DEF q
  <2> QED
    BY <1>1, <1>2, <1>3, <2>1, CurrentStep
<1> QED
  BY <1>4, <1>5 DEF InterruptInv

(* The end of interrupt, and the push of the vector number, keep the       *)
(* invariant.                                                              *)
LEMMA EoiStep ==
  ASSUME InterruptInv, eoi
  PROVE  InterruptInv'
<1> DEFINE q == pushed(mem[cur], esp, <<"vector">>)
<1>1. /\ pc = "eoi" /\ pc' = "handler"
      /\ mem' = [mem EXCEPT ![cur] = q] /\ esp' = esp - 1
  BY DEF eoi
<1>2. UNCHANGED <<cur, user, intr, ready, all, esp0, self_kstack, proc_stack, due, vec, reg, ticks>>
  BY DEF sched, eoi
<1>3. IsPage(q) /\ reg' = [r \in Regs |-> reg'[r]]
  BY <1>2, Pages, PushedPage
<1>4. CASE Live
  <2> DEFINE c == last(due[cur])
  <2>1. ~ intr
    BY <1>1, <1>4, NotOwn
  <2>2. /\ ~ user /\ due[cur] # <<>>
        /\ Own(cur, c, mem[cur], proc_stack[cur], front(due[cur]))
        /\ EarlyKept(cur, c, self_kstack[cur])
        /\ Handling(cur, pc, vec, esp, reg, ticks[cur], c, mem[cur])
    BY <1>1, <1>4, <2>1, InHandler
  <2> HIDE DEF c
  <2>3. /\ vec \in Returning
        /\ esp = Low(c) + 1 /\ Frame(mem[cur], Low(c), c)
        /\ c.pc \in Early /\ cur \in Procs /\ vec = 32 => ticks[cur] # 0
    BY <1>1, <2>2 DEF Handling
  <2>4. /\ Low(c) \in Nat /\ Low(c) > 0 /\ Low(c) + 18 <= PgWords /\ PgWords \in Nat
        /\ Top(c) \in Nat /\ Top(c) >= Low(c) + 1
    BY <2>2, OwnRoom, Sizes
  <2>5. /\ Above(mem[cur], q, Low(c) + 1) /\ q[0] = mem[cur][0]
    <3>1. IsPage(mem[cur]) /\ Len(<<"vector">>) = 1 /\ esp \in Int
      BY <2>3, <2>4, Pages
    <3> DEFINE w == <<"vector">>
    <3> HIDE DEF w
    <3>2. \A i \in 0..PgWords - 1 : (i >= esp => pushed(mem[cur], esp, w)[i] = mem[cur][i])
                                    /\ (i < esp - Len(w) => pushed(mem[cur], esp, w)[i] = mem[cur][i])
      BY <3>1, PushedWords DEF w
    <3>3. Len(w) = 1 /\ q = pushed(mem[cur], esp, w)
      BY <3>1 DEF w
    <3> HIDE DEF q
    <3> QED
      BY <2>3, <2>4, <3>2, <3>3 DEF Above
  <2> HIDE DEF q
  <2>6. Own(cur, c, q, proc_stack[cur], front(due[cur]))
    <3>1. Above(mem[cur], q, Top(c))
      BY <2>4, <2>5, AboveHigher
    <3> QED
      BY <2>2, <3>1, OwnAbove
  <2>7. Frame(q, Low(c), c)
    BY <2>3, <2>4, <2>5, FrameAbove
  <2>8. esp' = Low(c)
    BY <1>1, <2>3, <2>4
  <2>9. Handling(cur, pc', vec', esp', reg', ticks'[cur], c, q)
    BY <1>1, <1>2, <2>3, <2>7, <2>8 DEF Handling
  <2>10. q[0] = MAGIC
    BY <1>4, <2>5, Pages
  <2> QED
    BY <1>1, <1>2, <1>3, <1>4, <2>1, <2>2, <2>6, <2>9, <2>10, HandlerStep DEF c
<1>5. CASE Dead
  <2>1. Dead'
    BY <1>1, <1>2, <1>5 DEF Dead
  <2> HIDE DEF q
  <2> QED
    BY <1>1, <1>2, <1>3, <2>1, CurrentStep
<1> QED
  BY <1>4, <1>5 DEF InterruptInv

-----------------------------------------------------------------------------
(* The exit. *)

(* The description of a context depends on its fields only. *)
LEMMA OwnSame ==
  ASSUME NEW t, NEW c, NEW p, NEW ps, NEW rest, Own(t, c, p, ps, rest), NEW d,
         d.pc = c.pc, d.esp = c.esp, d.reg = c.reg, d.user <=> c.user
  PROVE  Own(t, d, p, ps, rest)
BY Zenon DEF Own

(* A pop touches nothing above the words popped, nor the guard word. *)
LEMMA PoppedAbove ==
  ASSUME NEW p, IsPage(p), NEW e \in Nat, e > 0, NEW n \in Nat, NEW q, q = popped(p, e, n)
  PROVE  IsPage(q) /\ Above(p, q, e + n) /\ q[0] = p[0]
<1>1. /\ IsPage(q)
      /\ \A i \in 0..PgWords - 1 : i < e \/ i >= e + n => q[i] = p[i]
  BY PoppedWords
<1> QED
  BY <1>1, Sizes DEF Above

(* A context outside the handlers goes on. *)
LEMMA OwnStep ==
  ASSUME InterruptInv, Live, NEW q, IsPage(q), q[0] = MAGIC, NEW d, Outside(d), NEW k, NEW ps,
         mem' = [mem EXCEPT ![cur] = q], due' = [due EXCEPT ![cur] = d],
         self_kstack' = [self_kstack EXCEPT ![cur] = k],
         proc_stack' = [proc_stack EXCEPT ![cur] = ps],
         UNCHANGED <<cur, ready, all, esp0>>, intr',
         NEW c, Own(cur, c, q, ps, d), EarlyKept(cur, c, k),
         c.pc = pc', c.esp = esp', c.reg = reg', c.user <=> user'
  PROVE  InterruptInv'
<1>1. reg' = [r \in Regs |-> reg'[r]]
  BY Zenon DEF Own
<1>2. /\ Shape' /\ Listed' /\ Kstacks'
      /\ \A t \in Threads : Outside(due'[t])
      /\ Live /\ q[0] = MAGIC /\ OnCPU' => Live'
      /\ mem'[cur] = q /\ due'[cur] = d /\ self_kstack'[cur] = k /\ proc_stack'[cur] = ps
  BY <1>1, LocalStep DEF InterruptInv
<1> DEFINE z == [pc |-> pc', esp |-> esp', user |-> user', reg |-> reg']
<1>3. z.pc = c.pc /\ z.esp = c.esp /\ z.reg = c.reg /\ (z.user <=> c.user)
  OBVIOUS
<1> HIDE DEF z
<1>4. Own(cur, z, q, ps, d)
  BY <1>3, OwnSame
<1>5. EarlyKept(cur, z, k)
  BY <1>3 DEF EarlyKept
<1>6. OnCPU'
  <2>1. cur' = cur
    OBVIOUS
  <2>2. Own(cur', z, mem'[cur'], proc_stack'[cur'], due'[cur']) /\ EarlyKept(cur', z, self_kstack'[cur'])
    BY <1>2, <1>4, <1>5, <2>1
  <2> QED
    BY <2>2, Zenon DEF OnCPU, Running, z
<1> QED
  BY <1>2, <1>6 DEF InterruptInv

(* With interrupts on, the context on the CPU is one outside the handlers. *)
LEMMA Onto ==
  ASSUME InterruptInv, Live, intr
  PROVE  /\ Own(cur, Running, mem[cur], proc_stack[cur], due[cur])
         /\ EarlyKept(cur, Running, self_kstack[cur])
         /\ Running.pc = pc /\ Running.esp = esp /\ Running.reg = reg /\ (Running.user <=> user)
<1>1. Running.pc = pc /\ Running.esp = esp /\ Running.reg = reg /\ (Running.user <=> user)
  BY DEF Running
<1> QED
  BY <1>1, Zenon DEF Live, OnCPU

(* The contexts of a thread that owes none, or that has only its user      *)
(* program to start.                                                       *)
LEMMA NoDue == Outside(<<>>) /\ Outside(<<U>>) /\ front(<<U>>) = <<>> /\ last(<<U>>) = U
<1>1. Len(<<U>>) = 1 /\ <<U>>[1] = U /\ DOMAIN <<U>> = {1} /\ U.pc = "user" /\ DOMAIN <<>> = {}
  BY DEF U
<1>2. SubSeq(<<U>>, 1, 0) = <<>>
  OBVIOUS
<1> QED
  BY <1>1, <1>2 DEF Outside, front, last

(* Popping a frame's registers gives the registers it was made from. *)
LEMMA KeptRegs ==
  ASSUME NEW p, NEW e, NEW regs, Kept(p, e, regs), regs = [r \in Regs |-> regs[r]]
  PROVE  [r \in Regs |-> p[e + field(intr_stack, r)]] = regs
BY Zenon DEF Kept

(* intr_exit pops the registers of the interrupted context. *)
LEMMA IntrExitStep ==
  ASSUME InterruptInv, intr_exit
  PROVE  InterruptInv'
<1> DEFINE p == mem[cur]
<1> DEFINE q == popped(p, esp, 14)
<1>1. /\ pc = "intr_exit" /\ pc' = "iretd"
      /\ reg' = [r \in Regs |-> p[esp + field(intr_stack, r)]]
      /\ mem' = [mem EXCEPT ![cur] = q] /\ esp' = esp + 14
  <2>1. field(intr_stack, "eip") = 14 /\ DOMAIN reg = Regs
    BY IntrFields, Pages
  <2> QED
    BY <2>1 DEF intr_exit
<1>2. UNCHANGED <<cur, user, intr, ready, all, esp0, self_kstack, proc_stack, due, vec, ticks>>
  BY DEF sched, intr_exit
<1>3. Live
  BY <1>1 DEF InterruptInv, Dead
<1>4. IsPage(p) /\ p[0] = MAGIC /\ 14 \in Nat
  BY <1>3, Pages
<1>5. CASE ~ intr
  <2> DEFINE c == last(due[cur])
  <2>2. /\ ~ user /\ due[cur] # <<>>
        /\ Own(cur, c, p, proc_stack[cur], front(due[cur]))
        /\ EarlyKept(cur, c, self_kstack[cur])
        /\ Handling(cur, pc, vec, esp, reg, ticks[cur], c, p)
    BY <1>1, <1>3, <1>5, InHandler
  <2> HIDE DEF c
  <2>3. esp = Low(c) /\ Frame(p, Low(c), c)
    BY <1>1, <2>2 DEF Handling
  <2> HIDE DEF p
  <2>4. /\ Low(c) \in Nat /\ Low(c) > 0 /\ Low(c) + 18 <= PgWords
        /\ Top(c) \in Nat /\ Top(c) >= Low(c) + 14
    <3>1. /\ Low(c) \in Nat /\ Low(c) - (2 * CFrame + 7) > 0 /\ Low(c) + 18 <= PgWords
          /\ Top(c) \in Nat
          /\ Low(c) + (IF c.pc = "user" THEN 19 ELSE 17) = Top(c)
      BY ONLY <2>2, OwnRoom
    <3> QED
      BY ONLY <3>1, Sizes
  <2>5. IsPage(q) /\ Above(p, q, Low(c) + 14) /\ q[0] = MAGIC
    <3>1. esp \in Nat /\ esp > 0
      BY <2>3, <2>4
    <3>2. IsPage(q) /\ Above(p, q, esp + 14) /\ q[0] = p[0]
      <4> DEFINE n == 14
      <4> HIDE DEF n
      <4>1. n \in Nat /\ q = popped(p, esp, n)
        BY DEF n
      <4> HIDE DEF q
      <4>2. IsPage(q) /\ Above(p, q, esp + n) /\ q[0] = p[0]
        BY ONLY <1>4, <3>1, <4>1, PoppedAbove
      <4> QED
        BY <4>2 DEF n
    <3> QED
      BY <1>4, <2>3, <3>2
  <2> HIDE DEF q
  <2>6. Own(cur, c, q, proc_stack[cur], front(due[cur]))
    <3>1. Above(p, q, Top(c))
      BY <2>4, <2>5, AboveHigher
    <3> QED
      BY <2>2, <3>1, OwnAbove
  <2>7. Iret(q, Low(c) + 14, c)
    BY <2>3, <2>4, <2>5, IretAbove DEF Frame
  <2>8. reg' = c.reg /\ reg' = [r \in Regs |-> reg'[r]]
    <3>1. c.reg = [r \in Regs |-> c.reg[r]]
      BY ONLY <2>2, OwnPlaces
    <3>2. Kept(p, Low(c), c.reg)
      BY <2>3 DEF Frame
    <3>3. reg' = c.reg
      BY <1>1, <2>3, <3>1, <3>2, KeptRegs
    <3> QED
      BY <3>1, <3>3
  <2>9. Handling(cur, pc', vec', esp', reg', ticks'[cur], c, q)
    BY <1>1, <2>3, <2>7, <2>8, Zenon DEF Handling
  <2> QED
    BY <1>1, <1>2, <1>3, <1>5, <2>2, <2>5, <2>6, <2>8, <2>9, HandlerStep DEF c
<1>6. CASE intr
  <2>1. /\ Own(cur, Running, p, proc_stack[cur], due[cur])
        /\ Running.pc = "intr_exit" /\ Running.esp = esp /\ (Running.user <=> user)
    BY <1>1, <1>3, <1>6, Onto
  <2>2. esp = frame /\ cur \in Procs /\ due[cur] = <<U>> /\ Frame(p, frame, U) /\ ~ user
    BY <2>1 DEF Own
  <2> HIDE DEF p
  <2>3. IsPage(q) /\ Above(p, q, frame + 14) /\ q[0] = MAGIC
    <3>1. esp \in Nat /\ esp > 0
      BY <2>2, Sizes
    <3>2. IsPage(q) /\ Above(p, q, esp + 14) /\ q[0] = p[0]
      <4> DEFINE n == 14
      <4> HIDE DEF n
      <4>1. n \in Nat /\ q = popped(p, esp, n)
        BY DEF n
      <4> HIDE DEF q
      <4>2. IsPage(q) /\ Above(p, q, esp + n) /\ q[0] = p[0]
        BY ONLY <1>4, <3>1, <4>1, PoppedAbove
      <4> QED
        BY <4>2 DEF n
    <3> QED
      BY <1>4, <2>2, <3>2
  <2> HIDE DEF q
  <2>4. Iret(q, frame + 14, U)
    BY <2>2, <2>3, IretAbove, Sizes DEF Frame
  <2>5. U.reg = NewRegisters /\ NewRegisters = [r \in Regs |-> NewRegisters[r]]
    BY DEF U, NewRegisters, Regs
  <2>6. reg' = NewRegisters
    <3>1. Kept(p, frame, NewRegisters)
      BY <2>2, <2>5 DEF Frame
    <3> QED
      BY <1>1, <2>2, <2>5, <3>1, KeptRegs
  <2> DEFINE c == [pc |-> "iretd", esp |-> frame + 14, user |-> FALSE, reg |-> NewRegisters]
  <2>7. c.pc = "iretd" /\ c.esp = frame + 14 /\ c.user = FALSE /\ c.reg = NewRegisters
    OBVIOUS
  <2> HIDE DEF c
  <2>8. Own(cur, c, q, proc_stack[cur], due[cur])
    <3>1. c.reg = [r \in Regs |-> c.reg[r]]
      BY <2>5, <2>7
    <3>2. c.user <=> c.pc = "user"
      BY <2>7
    <3> QED
      BY <2>2, <2>4, <2>7, <3>1, <3>2, Zenon DEF Own
  <2>9. /\ due' = [due EXCEPT ![cur] = due[cur]]
        /\ self_kstack' = [self_kstack EXCEPT ![cur] = self_kstack[cur]]
        /\ proc_stack' = [proc_stack EXCEPT ![cur] = proc_stack[cur]]
    BY <1>2, SameExcept DEF InterruptInv, Shape
  <2>10. Outside(due[cur]) /\ EarlyKept(cur, c, self_kstack[cur])
    BY <2>2, <2>7, NoDue DEF EarlyKept, Early
  <2>11. c.pc = pc' /\ c.esp = esp' /\ c.reg = reg' /\ (c.user <=> user') /\ intr'
    BY <1>1, <1>2, <1>6, <2>2, <2>6, <2>7
  <2>12. UNCHANGED <<cur, ready, all, esp0>>
    BY <1>2
  <2> QED
    BY <1>1, <1>3, <2>3, <2>8, <2>9, <2>10, <2>11, <2>12, OwnStep
<1> QED
  BY <1>5, <1>6

(* iretd goes on with the interrupted context, or starts the user program. *)
LEMMA IretdStep ==
  ASSUME InterruptInv, iretd
  PROVE  InterruptInv'
<1> DEFINE p == mem[cur]
<1> DEFINE n == IF p[esp + 1] = "user" THEN 5 ELSE 3
<1> DEFINE q == popped(p, esp, n)
<1>1. /\ pc = "iretd"
      /\ pc' = p[esp]
      /\ user' = (p[esp + 1] = "user")
      /\ intr' = (p[esp + 2] = "IF")
      /\ esp' = IF p[esp + 1] = "user" THEN 0 ELSE esp + 3
      /\ mem' = [mem EXCEPT ![cur] = q]
      /\ due' = [due EXCEPT ![cur] = front(due[cur])]
  BY DEF iretd, front
<1>2. UNCHANGED <<cur, reg, ready, all, esp0, self_kstack, proc_stack>>
  BY DEF sched, iretd
<1>3. Live
  BY <1>1 DEF InterruptInv, Dead
<1>4. IsPage(p) /\ p[0] = MAGIC
  BY <1>3, Pages
<1>9. /\ self_kstack' = [self_kstack EXCEPT ![cur] = self_kstack[cur]]
      /\ proc_stack' = [proc_stack EXCEPT ![cur] = proc_stack[cur]]
  BY <1>2, SameExcept DEF InterruptInv, Shape
<1>12. UNCHANGED <<cur, ready, all, esp0>>
  BY <1>2
<1>13. n \in Nat
  OBVIOUS
<1>5. CASE ~ intr
  <2> DEFINE c == last(due[cur])
  <2>2. /\ ~ user /\ due[cur] # <<>>
        /\ Own(cur, c, p, proc_stack[cur], front(due[cur]))
        /\ EarlyKept(cur, c, self_kstack[cur])
        /\ Handling(cur, pc, vec, esp, reg, ticks[cur], c, p)
    BY <1>1, <1>3, <1>5, InHandler
  <2> HIDE DEF c
  <2>3. esp = Low(c) + 14 /\ Iret(p, Low(c) + 14, c) /\ reg = c.reg
    BY <1>1, <2>2 DEF Handling
  <2> HIDE DEF p
  <2>4. /\ Low(c) \in Nat /\ Low(c) > 0 /\ Low(c) + 18 <= PgWords
        /\ Top(c) \in Nat /\ Low(c) + (IF c.pc = "user" THEN 19 ELSE 17) = Top(c)
    BY <2>2, OwnRoom, Sizes
  <2>5. /\ (p[esp + 1] = "user" <=> c.pc = "user") /\ p[esp] = c.pc /\ p[esp + 2] = "IF"
        /\ c.pc # "user" => esp + 3 = c.esp
    BY <2>3 DEF Iret
  <2>6. (esp + n) = Top(c)
    BY <2>3, <2>4, <2>5
  <2> HIDE DEF n
  <2>7. IsPage(q) /\ Above(p, q, Top(c)) /\ q[0] = MAGIC
    <3>1. esp \in Nat /\ esp > 0
      BY <2>3, <2>4
    <3> QED
      BY <1>4, <1>13, <2>6, <3>1, PoppedAbove
  <2> HIDE DEF q
  <2>8. Own(cur, c, q, proc_stack[cur], front(due[cur]))
    BY <2>2, <2>7, OwnAbove
  <2>9. /\ c.user <=> (c.pc = "user")
        /\ c.pc = "user" => c.esp = 0
        /\ front(due[cur]) \in {<<>>, <<U>>}
    BY <2>2, OwnPlaces
  <2>10. c.pc = pc' /\ c.esp = esp' /\ c.reg = reg' /\ (c.user <=> user') /\ intr'
    BY <1>1, <1>2, <2>3, <2>5, <2>9
  <2>11. Outside(front(due[cur]))
    BY <2>9, NoDue
  <2> QED
    BY <1>1, <1>3, <1>9, <1>12, <2>2, <2>7, <2>8, <2>10, <2>11, OwnStep
<1>6. CASE intr
  <2>1. /\ Own(cur, Running, p, proc_stack[cur], due[cur])
        /\ Running.pc = "iretd" /\ Running.esp = esp /\ (Running.user <=> user)
        /\ Running.reg = reg
    BY <1>1, <1>3, <1>6, Onto
  <2>2. esp = frame + 14 /\ cur \in Procs /\ due[cur] = <<U>> /\ Iret(p, frame + 14, U)
        /\ reg = NewRegisters
    BY <2>1 DEF Own
  <2> HIDE DEF p
  <2>3. U.pc = "user" /\ U.esp = 0 /\ U.user = TRUE /\ U.reg = NewRegisters
        /\ NewRegisters = [r \in Regs |-> NewRegisters[r]]
    BY DEF U, NewRegisters, Regs
  <2>4. p[esp + 1] = "user" /\ p[esp] = "user" /\ p[esp + 2] = "IF"
    BY <2>2, <2>3 DEF Iret
  <2>5. IsPage(q) /\ q[0] = MAGIC
    <3>1. esp \in Nat /\ esp > 0
      BY <2>2, Sizes
    <3> HIDE DEF n
    <3> QED
      BY <1>4, <1>13, <3>1, PoppedAbove
  <2> HIDE DEF q, n
  <2>6. Own(cur, U, q, proc_stack[cur], <<>>)
    <3>1. U.reg = [r \in Regs |-> U.reg[r]] /\ (U.user <=> (U.pc = "user"))
      BY <2>3
    <3> QED
      BY <2>2, <2>3, <3>1, Zenon DEF Own
  <2>7. due' = [due EXCEPT ![cur] = <<>>]
    BY <1>1, <2>2, NoDue
  <2>8. U.pc = pc' /\ U.esp = esp' /\ U.reg = reg' /\ (U.user <=> user') /\ intr'
    BY <1>1, <1>2, <2>2, <2>3, <2>4
  <2>9. EarlyKept(cur, U, self_kstack[cur])
    BY <2>3 DEF EarlyKept, Early
  <2> QED
    BY <1>1, <1>3, <1>9, <1>12, <2>5, <2>6, <2>7, <2>8, <2>9, NoDue, OwnStep
<1> QED
  BY <1>5, <1>6

-----------------------------------------------------------------------------
(* New threads and processes. *)

(* The program points of the entry, the handlers and the exit. *)
LEMMA HandlerPlaces ==
  ASSUME NEW t, NEW here, NEW v, NEW e, NEW regs, NEW slice, NEW c, NEW p,
         Handling(t, here, v, e, regs, slice, c, p)
  PROVE  here \in {"entry", "eoi", "handler", "intr_exit", "iretd"}
BY Zenon DEF Handling

(* What is known of the machine at each program point outside the          *)
(* handlers.                                                               *)
LEMMA PlacesOn ==
  ASSUME InterruptInv, Live
  PROVE  /\ pc = "init" =>
              /\ cur = Main /\ esp = PgWords - CFrame /\ ~ user /\ ~ intr /\ due[cur] = <<>>
         /\ pc = "kernel_thread" =>
              /\ cur # Main /\ esp = kstack + 5 /\ ~ user /\ ~ intr
              /\ mem[cur][kstack + 6] = Func(cur) /\ self_kstack[cur] = kstack
              /\ due[cur] = <<>>
         /\ pc \in {"call", "start_process", "get_a_page", "jmp"} => intr
<1>1. intr => pc \in {"user", "loop", "call", "function", "start_process", "get_a_page", "jmp",
                      "intr_exit", "iretd"}
  <2> SUFFICES ASSUME intr
               PROVE pc \in {"user", "loop", "call", "function", "start_process", "get_a_page",
                             "jmp", "intr_exit", "iretd"}
    OBVIOUS
  <2>1. Own(cur, Running, mem[cur], proc_stack[cur], due[cur]) /\ Running.pc = pc
    BY Onto
  <2> QED
    BY ONLY <2>1, OwnPlaces
<1>2. CASE /\ ~ intr /\ ~ user /\ due[cur] # <<>>
           /\ Handling(cur, pc, vec, esp, reg, ticks[cur], last(due[cur]), mem[cur])
  <2>1. pc \in {"entry", "eoi", "handler", "intr_exit", "iretd"}
    BY ONLY <1>2, HandlerPlaces
  <2> QED
    BY <2>1
<1>3. CASE intr
  BY <1>1, <1>3
<1>4. CASE ~ intr /\ pc \in {"init", "kernel_thread"}
  <2>1. \/ /\ pc = "init" /\ cur = Main /\ esp = PgWords - CFrame /\ ~ user /\ ~ intr
           /\ due[cur] = <<>>
        \/ /\ pc = "kernel_thread" /\ cur # Main /\ esp = kstack + 5 /\ ~ user /\ ~ intr
           /\ mem[cur][kstack + 6] = Func(cur) /\ self_kstack[cur] = kstack
           /\ due[cur] = <<>>
        \/ /\ ~ intr /\ ~ user /\ due[cur] # <<>>
           /\ Handling(cur, pc, vec, esp, reg, ticks[cur], last(due[cur]), mem[cur])
    BY <1>4, Zenon DEF Live, OnCPU
  <2> QED
    BY <1>2, <1>4, <2>1
<1> QED
  BY <1>2, <1>3, <1>4, Zenon DEF Live, OnCPU

(* A context that keeps its page, its returns and its self_kstack. *)
LEMMA PlainStep ==
  ASSUME InterruptInv, Live, UNCHANGED <<mem, due, self_kstack, proc_stack>>,
         UNCHANGED <<cur, ready, all, esp0>>, intr',
         NEW c, Own(cur, c, mem[cur], proc_stack[cur], due[cur]),
         EarlyKept(cur, c, self_kstack[cur]),
         c.pc = pc', c.esp = esp', c.reg = reg', c.user <=> user'
  PROVE  InterruptInv'
<1>1. /\ due' = [due EXCEPT ![cur] = due[cur]]
      /\ mem' = [mem EXCEPT ![cur] = mem[cur]]
      /\ self_kstack' = [self_kstack EXCEPT ![cur] = self_kstack[cur]]
      /\ proc_stack' = [proc_stack EXCEPT ![cur] = proc_stack[cur]]
  BY SameExcept DEF InterruptInv, Shape
<1>2. Outside(due[cur]) /\ IsPage(mem[cur]) /\ mem[cur][0] = MAGIC
  BY Pages DEF InterruptInv
<1>3. UNCHANGED <<cur, ready, all, esp0>>
  OBVIOUS
<1> QED
  BY <1>1, <1>2, <1>3, OwnStep

(* main enables interrupts and enters its loop. *)
LEMMA MainEnables ==
  ASSUME InterruptInv, main_enables
  PROVE  InterruptInv'
<1>1. /\ pc = "init" /\ pc' = "loop" /\ intr' = TRUE
      /\ UNCHANGED <<cur, esp, user, reg, mem, due, self_kstack, proc_stack, ready, all, esp0>>
  BY DEF main_enables, sched
<1>2. Live
  BY <1>1 DEF InterruptInv, Dead
<1>3. cur = Main /\ esp = PgWords - CFrame /\ ~ user /\ due[cur] = <<>>
  BY <1>1, <1>2, PlacesOn
<1> DEFINE c == [pc |-> "loop", esp |-> esp, user |-> FALSE, reg |-> reg]
<1>4. c.pc = "loop" /\ c.esp = esp /\ c.user = FALSE /\ c.reg = reg
  OBVIOUS
<1> HIDE DEF c
<1>5. Own(cur, c, mem[cur], proc_stack[cur], due[cur])
  <2>1. c.reg = [r \in Regs |-> c.reg[r]]
    BY <1>4, Pages
  <2>2. c.user <=> (c.pc = "user")
    BY <1>4
  <2> QED
    BY <1>3, <1>4, <2>1, <2>2, Zenon DEF Own
<1>6. EarlyKept(cur, c, self_kstack[cur])
  BY <1>4 DEF EarlyKept, Early
<1>7. /\ UNCHANGED <<mem, due, self_kstack, proc_stack>> /\ UNCHANGED <<cur, ready, all, esp0>>
      /\ intr' /\ c.pc = pc' /\ c.esp = esp' /\ c.reg = reg' /\ (c.user <=> user')
  BY <1>1, <1>3, <1>4
<1> QED
  BY <1>2, <1>5, <1>6, <1>7, PlainStep

(* kernel_thread enables interrupts before it calls the thread's function. *)
LEMMA KernelThread ==
  ASSUME InterruptInv, kernel_thread
  PROVE  InterruptInv'
<1>1. /\ pc = "kernel_thread" /\ pc' = "call" /\ intr' = TRUE
      /\ UNCHANGED <<cur, esp, user, reg, mem, due, self_kstack, proc_stack, ready, all, esp0>>
  BY DEF kernel_thread, sched
<1>2. Live
  BY <1>1 DEF InterruptInv, Dead
<1>3. /\ cur # Main /\ esp = kstack + 5 /\ ~ user
      /\ mem[cur][kstack + 6] = Func(cur) /\ self_kstack[cur] = kstack
      /\ due[cur] = <<>>
  BY <1>1, <1>2, PlacesOn
<1> DEFINE c == [pc |-> "call", esp |-> esp, user |-> FALSE, reg |-> reg]
<1>4. c.pc = "call" /\ c.esp = esp /\ c.user = FALSE /\ c.reg = reg
  OBVIOUS
<1> HIDE DEF c
<1>5. Own(cur, c, mem[cur], proc_stack[cur], due[cur])
  <2>1. c.reg = [r \in Regs |-> c.reg[r]]
    BY <1>4, Pages
  <2>2. c.user <=> (c.pc = "user")
    BY <1>4
  <2> QED
    BY <1>3, <1>4, <2>1, <2>2, Zenon DEF Own
<1>6. EarlyKept(cur, c, self_kstack[cur])
  BY <1>3 DEF EarlyKept
<1>7. /\ UNCHANGED <<mem, due, self_kstack, proc_stack>> /\ UNCHANGED <<cur, ready, all, esp0>>
      /\ intr' /\ c.pc = pc' /\ c.esp = esp' /\ c.reg = reg' /\ (c.user <=> user')
  BY <1>1, <1>3, <1>4
<1> QED
  BY <1>2, <1>5, <1>6, <1>7, PlainStep

(* Words of no interest, n of them. *)
LEMMA JunkWords == \A n \in Nat : Len(junk(n)) = n /\ junk(n) \in Seq({JUNK})
BY DEF junk

(* Pushing them touches nothing above esp, nor the guard word. *)
LEMMA PushedJunk ==
  ASSUME NEW p, IsPage(p), NEW e \in Nat, NEW m \in Nat, e - m > 0, e < PgWords,
         NEW q, q = pushed(p, e, junk(m))
  PROVE  IsPage(q) /\ Above(p, q, e) /\ q[0] = p[0]
<1> DEFINE w == junk(m)
<1>1. Len(w) = m
  BY JunkWords
<1>2. q = pushed(p, e, w)
  OBVIOUS
<1> HIDE DEF w
<1>3. /\ IsPage(q)
      /\ \A i \in 0..PgWords - 1 :
              /\ i >= e => q[i] = p[i]
              /\ i < e - m => q[i] = p[i]
  BY <1>1, <1>2, PushedWords
<1> QED
  BY <1>3, Sizes DEF Above

(* kernel_thread's call: the function's own frames go below. *)
LEMMA CallFunction ==
  ASSUME InterruptInv, call_function
  PROVE  InterruptInv'
<1> DEFINE p == mem[cur]
<1> DEFINE q == pushed(p, esp, junk(2 * CFrame))
<1>1. /\ pc = "call" /\ pc' = p[esp + 1] /\ esp' = esp - 2 * CFrame
      /\ mem' = [mem EXCEPT ![cur] = q]
      /\ reg' = [r \in Regs |-> cur]
      /\ UNCHANGED <<cur, user, intr, due, self_kstack, proc_stack, ready, all, esp0>>
  BY Pages DEF call_function, sched
<1>2. Live
  BY <1>1 DEF InterruptInv, Dead
<1>3. intr
  BY <1>1, <1>2, PlacesOn
<1>4. /\ Own(cur, Running, p, proc_stack[cur], due[cur])
      /\ Running.pc = "call" /\ Running.esp = esp /\ (Running.user <=> user)
      /\ EarlyKept(cur, Running, self_kstack[cur])
  BY <1>1, <1>2, <1>3, Onto
<1>5. esp = kstack + 5 /\ cur # Main /\ due[cur] = <<>> /\ p[kstack + 6] = Func(cur) /\ ~ user
  BY <1>4 DEF Own
<1>6. cur \in Procs => self_kstack[cur] = kstack
  BY <1>4 DEF EarlyKept, Early
<1>7. IsPage(p) /\ p[0] = MAGIC
  BY <1>2, Pages
<1> HIDE DEF p
<1>8. IsPage(q) /\ q[0] = MAGIC
  <2> DEFINE m == 2 * CFrame
  <2>1. m \in Nat /\ esp \in Nat /\ esp - m > 0 /\ esp < PgWords
    BY <1>5, Sizes
  <2>2. q = pushed(p, esp, junk(m))
    OBVIOUS
  <2> HIDE DEF m, q
  <2> QED
    BY ONLY <1>7, <2>1, <2>2, PushedJunk
<1> HIDE DEF q
<1>9. pc' = Func(cur) /\ esp' = inner
  <2>1. esp + 1 = kstack + 6 /\ esp - 2 * CFrame = inner
    BY <1>5, Sizes DEF inner
  <2> QED
    BY <1>1, <1>5, <2>1
<1> DEFINE c == [pc |-> Func(cur), esp |-> inner, user |-> FALSE, reg |-> reg']
<1>10. c.pc = Func(cur) /\ c.esp = inner /\ c.user = FALSE /\ c.reg = reg'
  OBVIOUS
<1> HIDE DEF c
<1>11. Own(cur, c, q, proc_stack[cur], due[cur])
  <2>1. c.reg = [r \in Regs |-> c.reg[r]]
    BY <1>1, <1>10
  <2>2. c.user <=> (c.pc = "user")
    BY <1>10 DEF Func
  <2>3. CASE cur \in Procs
    <3>1. c.pc = "start_process" /\ c.esp = inner
      BY <1>10, <2>3 DEF Func
    <3> QED
      BY <1>5, <2>1, <2>2, <2>3, <3>1, Zenon DEF Own
  <2>4. CASE cur \notin Procs
    <3>1. c.pc = "function" /\ c.esp = inner
      BY <1>10, <2>4 DEF Func
    <3> QED
      BY <1>5, <2>1, <2>2, <2>4, <3>1, Zenon DEF Own
  <2> QED
    BY <2>3, <2>4
<1>12. EarlyKept(cur, c, self_kstack[cur])
  BY <1>6 DEF EarlyKept
<1>13. /\ due' = [due EXCEPT ![cur] = due[cur]]
       /\ self_kstack' = [self_kstack EXCEPT ![cur] = self_kstack[cur]]
       /\ proc_stack' = [proc_stack EXCEPT ![cur] = proc_stack[cur]]
  BY <1>1, SameExcept DEF InterruptInv, Shape
<1>14. /\ Outside(due[cur]) /\ UNCHANGED <<cur, ready, all, esp0>> /\ intr'
       /\ c.pc = pc' /\ c.esp = esp' /\ c.reg = reg' /\ (c.user <=> user')
  BY <1>1, <1>3, <1>5, <1>9, <1>10, NoDue
<1> QED
  BY <1>1, <1>2, <1>8, <1>11, <1>12, <1>13, <1>14, OwnStep

(* start_process jumps to intr_exit with esp at the frame it made. *)
LEMMA JmpIntrExit ==
  ASSUME InterruptInv, jmp_intr_exit
  PROVE  InterruptInv'
<1>1. /\ pc = "jmp" /\ pc' = "intr_exit" /\ esp' = proc_stack[cur]
      /\ UNCHANGED <<cur, user, reg, intr, mem, due, self_kstack, proc_stack, ready, all, esp0>>
  BY DEF jmp_intr_exit, sched
<1>2. Live
  BY <1>1 DEF InterruptInv, Dead
<1>3. intr
  BY <1>1, <1>2, PlacesOn
<1>4. /\ Own(cur, Running, mem[cur], proc_stack[cur], due[cur])
      /\ Running.pc = "jmp" /\ (Running.user <=> user) /\ Running.reg = reg
  BY <1>1, <1>2, <1>3, Onto
<1>5. /\ cur \in Procs /\ due[cur] = <<U>> /\ proc_stack[cur] = frame
      /\ Frame(mem[cur], frame, U) /\ ~ user
  BY <1>4 DEF Own
<1> DEFINE c == [pc |-> "intr_exit", esp |-> frame, user |-> FALSE, reg |-> reg]
<1>6. c.pc = "intr_exit" /\ c.esp = frame /\ c.user = FALSE /\ c.reg = reg
  OBVIOUS
<1> HIDE DEF c
<1>7. Own(cur, c, mem[cur], proc_stack[cur], due[cur])
  <2>1. c.reg = [r \in Regs |-> c.reg[r]]
    BY <1>6, Pages
  <2>2. c.user <=> (c.pc = "user")
    BY <1>6
  <2> QED
    BY <1>5, <1>6, <2>1, <2>2, Zenon DEF Own
<1>8. EarlyKept(cur, c, self_kstack[cur])
  BY <1>6 DEF EarlyKept, Early
<1>9. /\ UNCHANGED <<mem, due, self_kstack, proc_stack>> /\ UNCHANGED <<cur, ready, all, esp0>>
      /\ intr' /\ c.pc = pc' /\ c.esp = esp' /\ c.reg = reg' /\ (c.user <=> user')
  BY <1>1, <1>3, <1>5, <1>6
<1> QED
  BY <1>2, <1>7, <1>8, <1>9, PlainStep

(* The fields of struct intr_stack in order. *)
LEMMA IntrNames ==
  /\ DOMAIN intr_stack = 1..19
  /\ intr_stack[2] = "edi" /\ intr_stack[3] = "esi" /\ intr_stack[4] = "ebp"
  /\ intr_stack[5] = "esp_dummy" /\ intr_stack[6] = "ebx" /\ intr_stack[7] = "edx"
  /\ intr_stack[8] = "ecx" /\ intr_stack[9] = "eax" /\ intr_stack[10] = "gs"
  /\ intr_stack[11] = "fs" /\ intr_stack[12] = "es" /\ intr_stack[13] = "ds"
  /\ intr_stack[14] = "err_code" /\ intr_stack[15] = "eip" /\ intr_stack[16] = "cs"
  /\ intr_stack[17] = "eflags" /\ intr_stack[18] = "esp" /\ intr_stack[19] = "ss"
BY DEF intr_stack

(* The field at a register's place is the register. *)
LEMMA FieldNames ==
  ASSUME NEW r \in Regs
  PROVE  intr_stack[field(intr_stack, r) + 1] = r
<1>1. r \in {"edi", "esi", "ebp", "ebx", "edx", "ecx", "eax", "gs", "fs", "es", "ds"}
  BY DEF Regs, General, Segments
<1>2. field(intr_stack, r) + 1 \in {2, 3, 4, 6, 7, 8, 9, 10, 11, 12, 13}
  BY <1>1, IntrFields
<1> QED
  BY <1>1, IntrFields, IntrNames

(* What start_process stores. *)
NewFrame ==
  [r \in General \cup Segments \cup {"eip", "cs", "eflags", "esp_dummy"} |->
     CASE r = "eip" -> "user" [] r = "cs" -> "user" [] r = "eflags" -> "IF"
       [] r = "esp_dummy" -> "0" [] OTHER -> NewRegisters[r]]

(* start_process gives every register a value, and eip, cs and eflags. *)
LEMMA NewFrameAt ==
  /\ \A r \in Regs : r \in DOMAIN NewFrame /\ NewFrame[r] = NewRegisters[r]
  /\ {"eip", "cs", "eflags"} \subseteq DOMAIN NewFrame
  /\ NewFrame["eip"] = "user" /\ NewFrame["cs"] = "user" /\ NewFrame["eflags"] = "IF"
<1> DEFINE F(r) == CASE r = "eip" -> "user" [] r = "cs" -> "user" [] r = "eflags" -> "IF"
                     [] r = "esp_dummy" -> "0" [] OTHER -> NewRegisters[r]
<1>1. \A r \in Regs : r # "eip" /\ r # "cs" /\ r # "eflags" /\ r # "esp_dummy"
  BY DEF Regs, General, Segments
<1>2. \A r \in Regs : F(r) = NewRegisters[r]
  BY <1>1, Zenon
<1>3. "cs" # "eip" /\ "eflags" # "eip" /\ "eflags" # "cs"
  OBVIOUS
<1>4. F("eip") = "user" /\ F("cs") = "user" /\ F("eflags") = "IF"
  BY <1>3, Zenon
<1>5. NewFrame = [r \in General \cup Segments \cup {"eip", "cs", "eflags", "esp_dummy"} |-> F(r)]
  BY Zenon DEF NewFrame
<1> HIDE DEF F
<1> QED
  BY <1>2, <1>4, <1>5 DEF Regs

(* start_process's stores make a frame that lacks only the user stack. *)
LEMMA StoredFrame ==
  ASSUME NEW p, IsPage(p), NEW q, q = stored(p, frame, intr_stack, NewFrame)
  PROVE  IsPage(q) /\ q[0] = p[0] /\ Prepared(q, frame)
<1>1. /\ IsPage(q)
      /\ \A i \in 0..PgWords - 1 :
              /\ i < frame => q[i] = p[i]
              /\ i >= frame /\ i < frame + 19 /\ intr_stack[i - frame + 1] \in DOMAIN NewFrame =>
                   q[i] = NewFrame[intr_stack[i - frame + 1]]
  <2> DEFINE n == 19
  <2> DEFINE v == NewFrame
  <2> DEFINE s == intr_stack
  <2>1. DOMAIN s = 1..n /\ n \in Nat /\ frame \in Int /\ q = stored(p, frame, s, v)
    BY IntrNames, Sizes
  <2> HIDE DEF n, v, s
  <2>2. /\ IsPage(q)
        /\ \A i \in 0..PgWords - 1 :
              /\ i < frame \/ i >= frame + n => q[i] = p[i]
              /\ i >= frame /\ i < frame + n /\ s[i - frame + 1] \in DOMAIN v =>
                   q[i] = v[s[i - frame + 1]]
    BY <2>1, StoredWords
  <2> QED
    BY <2>2 DEF n, v, s
<1>2. q[0] = p[0]
  BY <1>1, Sizes
<1>3. \A k \in 0..18 : /\ frame + k \in 0..PgWords - 1 /\ (frame + k) - frame + 1 = k + 1
                       /\ frame + k >= frame /\ frame + k < frame + 19
  BY Sizes
<1>4. \A k \in 0..18 : intr_stack[k + 1] \in DOMAIN NewFrame => q[frame + k] = NewFrame[intr_stack[k + 1]]
  BY <1>1, <1>3
<1>5. Kept(q, frame, NewRegisters)
  <2> SUFFICES ASSUME NEW r \in Regs
               PROVE  q[frame + field(intr_stack, r)] = NewRegisters[r]
    BY DEF Kept
  <2>1. field(intr_stack, r) \in 0..18 /\ intr_stack[field(intr_stack, r) + 1] = r
    BY RegFields, FieldNames
  <2> QED
    BY <1>4, <2>1, NewFrameAt
<1>6. q[frame + 14] = "user" /\ q[frame + 15] = "user" /\ q[frame + 16] = "IF"
  <2>1. /\ intr_stack[14 + 1] = "eip" /\ intr_stack[15 + 1] = "cs" /\ intr_stack[16 + 1] = "eflags"
        /\ 14 \in 0..18 /\ 15 \in 0..18 /\ 16 \in 0..18
    BY IntrNames
  <2> QED
    BY <1>4, <2>1, NewFrameAt
<1> QED
  BY <1>1, <1>2, <1>5, <1>6 DEF Prepared

(* start_process up to its call of get_a_page keeps the invariant: the     *)
(* frame lies above all that is in use on the stack.                       *)
LEMMA StartProcess ==
  ASSUME InterruptInv, start_process
  PROVE  InterruptInv'
<1> DEFINE p == mem[cur]
<1> DEFINE k == self_kstack[cur] + sizeof(thread_stack)
<1> DEFINE q == stored(p, k, intr_stack, NewFrame)
<1>1. /\ pc = "start_process" /\ pc' = "get_a_page"
      /\ self_kstack' = [self_kstack EXCEPT ![cur] = k]
      /\ proc_stack' = [proc_stack EXCEPT ![cur] = k]
      /\ mem' = [mem EXCEPT ![cur] = q]
      /\ UNCHANGED <<cur, esp, user, reg, intr, due, ready, all, esp0>>
  BY Zenon DEF start_process, NewFrame
<1>2. Live
  BY <1>1 DEF InterruptInv, Dead
<1>3. intr
  BY <1>1, <1>2, PlacesOn
<1>4. /\ Own(cur, Running, p, proc_stack[cur], due[cur])
      /\ Running.pc = "start_process" /\ Running.esp = esp /\ (Running.user <=> user)
      /\ Running.reg = reg
      /\ EarlyKept(cur, Running, self_kstack[cur])
  BY <1>1, <1>2, <1>3, Onto
<1>5. esp = inner /\ cur \in Procs /\ due[cur] = <<>> /\ ~ user
  BY <1>4 DEF Own
<1>6. k = frame
  <2>1. self_kstack[cur] = kstack
    BY <1>4, <1>5 DEF EarlyKept, Early
  <2>2. sizeof(thread_stack) = 32
    BY ThreadFields DEF sizeof
  <2> QED
    BY <2>1, <2>2 DEF frame
<1>7. IsPage(p) /\ p[0] = MAGIC
  BY <1>2, Pages
<1> HIDE DEF p, k
<1>8. IsPage(q) /\ q[0] = MAGIC /\ Prepared(q, frame)
  BY <1>6, <1>7, StoredFrame
<1> HIDE DEF q
<1> DEFINE c == [pc |-> "get_a_page", esp |-> inner, user |-> FALSE, reg |-> reg]
<1>10. c.pc = "get_a_page" /\ c.esp = inner /\ c.user = FALSE /\ c.reg = reg
  OBVIOUS
<1> HIDE DEF c
<1>11. Own(cur, c, q, k, due[cur])
  <2>1. c.reg = [r \in Regs |-> c.reg[r]]
    BY <1>10, Pages
  <2>2. c.user <=> (c.pc = "user")
    BY <1>10
  <2> QED
    BY <1>5, <1>6, <1>8, <1>10, <2>1, <2>2, Zenon DEF Own
<1>12. EarlyKept(cur, c, k)
  BY <1>10 DEF EarlyKept, Early
<1>13. due' = [due EXCEPT ![cur] = due[cur]]
  BY <1>1, SameExcept DEF InterruptInv, Shape
<1>14. /\ Outside(due[cur]) /\ UNCHANGED <<cur, ready, all, esp0>> /\ intr'
       /\ c.pc = pc' /\ c.esp = esp' /\ c.reg = reg' /\ (c.user <=> user')
  BY <1>1, <1>3, <1>5, <1>10, NoDue
<1> QED
  BY <1>1, <1>2, <1>8, <1>11, <1>12, <1>13, <1>14, OwnStep

(* With esp and ss stored the frame is that of a new user program. *)
LEMMA StoredStack ==
  ASSUME NEW p, IsPage(p), Prepared(p, frame),
         NEW v, DOMAIN v = {"esp", "ss"}, v["esp"] = UserTop,
         NEW q, q = stored(p, frame, intr_stack, v)
  PROVE  IsPage(q) /\ q[0] = p[0] /\ Frame(q, frame, U)
<1>0. DOMAIN v = {"esp", "ss"} /\ v["esp"] = UserTop /\ q = stored(p, frame, intr_stack, v)
  OBVIOUS
<1>1. /\ IsPage(q)
      /\ \A i \in 0..PgWords - 1 :
              /\ i < frame => q[i] = p[i]
              /\ i >= frame /\ i < frame + 19 /\ intr_stack[i - frame + 1] \in DOMAIN v =>
                   q[i] = v[intr_stack[i - frame + 1]]
              /\ i >= frame /\ i < frame + 19 /\ intr_stack[i - frame + 1] \notin DOMAIN v =>
                   q[i] = p[i]
  <2> DEFINE n == 19
  <2> DEFINE s == intr_stack
  <2>1. DOMAIN s = 1..n /\ n \in Nat /\ frame \in Int /\ q = stored(p, frame, s, v)
    BY <1>0, IntrNames, Sizes
  <2> HIDE DEF n, s
  <2>2. /\ IsPage(q)
        /\ \A i \in 0..PgWords - 1 :
              /\ i < frame \/ i >= frame + n => q[i] = p[i]
              /\ i >= frame /\ i < frame + n /\ s[i - frame + 1] \in DOMAIN v =>
                   q[i] = v[s[i - frame + 1]]
              /\ i >= frame /\ i < frame + n /\ s[i - frame + 1] \notin DOMAIN v =>
                   q[i] = p[i]
    BY <2>1, StoredWords
  <2> QED
    BY <2>2 DEF n, s
<1>2. q[0] = p[0]
  BY <1>1, Sizes
<1>3. \A k \in 0..18 : /\ frame + k \in 0..PgWords - 1 /\ (frame + k) - frame + 1 = k + 1
                       /\ frame + k >= frame /\ frame + k < frame + 19
  BY Sizes
<1>4. \A k \in 0..18 : /\ intr_stack[k + 1] \in DOMAIN v => q[frame + k] = v[intr_stack[k + 1]]
                       /\ intr_stack[k + 1] \notin DOMAIN v => q[frame + k] = p[frame + k]
  BY <1>1, <1>3
<1>5. Kept(q, frame, NewRegisters)
  <2> SUFFICES ASSUME NEW r \in Regs
               PROVE  q[frame + field(intr_stack, r)] = NewRegisters[r]
    BY DEF Kept
  <2>1. field(intr_stack, r) \in 0..18 /\ intr_stack[field(intr_stack, r) + 1] = r
    BY RegFields, FieldNames
  <2>2. r \notin DOMAIN v
    BY <1>0 DEF Regs, General, Segments
  <2>3. q[frame + field(intr_stack, r)] = p[frame + field(intr_stack, r)]
    BY <1>4, <2>1, <2>2
  <2> QED
    BY <2>3 DEF Prepared, Kept
<1>6. /\ q[frame + 14] = "user" /\ q[frame + 15] = "user" /\ q[frame + 16] = "IF"
      /\ q[frame + 17] = UserTop
  <2>1. /\ intr_stack[14 + 1] = "eip" /\ intr_stack[15 + 1] = "cs" /\ intr_stack[16 + 1] = "eflags"
        /\ intr_stack[17 + 1] = "esp"
        /\ 14 \in 0..18 /\ 15 \in 0..18 /\ 16 \in 0..18 /\ 17 \in 0..18
    BY IntrNames
  <2>2. /\ "eip" \notin DOMAIN v /\ "cs" \notin DOMAIN v /\ "eflags" \notin DOMAIN v
        /\ "esp" \in DOMAIN v
    BY <1>0
  <2>3. /\ q[frame + 14] = p[frame + 14] /\ q[frame + 15] = p[frame + 15]
        /\ q[frame + 16] = p[frame + 16] /\ q[frame + 17] = v["esp"]
    BY <1>4, <2>1, <2>2
  <2> QED
    BY <1>0, <2>3 DEF Prepared
<1>7. U.pc = "user" /\ U.reg = NewRegisters
  BY DEF U
<1>8. (frame + 14) + 1 = frame + 15 /\ (frame + 14) + 2 = frame + 16 /\ (frame + 14) + 3 = frame + 17
  BY Sizes
<1> QED
  BY <1>1, <1>2, <1>5, <1>6, <1>7, <1>8, Zenon DEF Frame, Iret

(* The stores after get_a_page, possibly long and many switches after the  *)
(* first ones, still find the frame as it was made.                        *)
LEMMA GetUserStack ==
  ASSUME InterruptInv, get_user_stack
  PROVE  InterruptInv'
<1> DEFINE p == mem[cur]
<1> DEFINE p1 == pushed(p, esp, junk(3 * CFrame))
<1> DEFINE q == stored(p1, proc_stack[cur], intr_stack, [esp |-> UserTop, ss |-> "user data"])
<1>1. /\ pc = "get_a_page" /\ pc' = "jmp"
      /\ mem' = [mem EXCEPT ![cur] = q]
      /\ due' = [due EXCEPT ![cur] = Append(due[cur], U)]
      /\ UNCHANGED <<cur, esp, user, reg, intr, self_kstack, proc_stack, ready, all, esp0>>
  BY DEF get_user_stack, sched, U
<1>2. Live
  BY <1>1 DEF InterruptInv, Dead
<1>3. intr
  BY <1>1, <1>2, PlacesOn
<1>4. /\ Own(cur, Running, p, proc_stack[cur], due[cur])
      /\ Running.pc = "get_a_page" /\ Running.esp = esp /\ (Running.user <=> user)
      /\ Running.reg = reg
  BY <1>1, <1>2, <1>3, Onto
<1>5. /\ esp = inner /\ cur \in Procs /\ due[cur] = <<>> /\ ~ user
      /\ proc_stack[cur] = frame /\ Prepared(p, frame)
  BY <1>4 DEF Own
<1>6. IsPage(p) /\ p[0] = MAGIC
  BY <1>2, Pages
<1> HIDE DEF p
<1>7. IsPage(p1) /\ Above(p, p1, inner) /\ p1[0] = MAGIC
  <2> DEFINE m == 3 * CFrame
  <2>1. m \in Nat /\ esp \in Nat /\ esp - m > 0 /\ esp < PgWords
    BY <1>5, Sizes
  <2>2. p1 = pushed(p, esp, junk(m))
    OBVIOUS
  <2> HIDE DEF m, p1
  <2>3. IsPage(p1) /\ Above(p, p1, esp) /\ p1[0] = p[0]
    BY ONLY <1>6, <2>1, <2>2, PushedJunk
  <2> QED
    BY <1>5, <1>6, <2>3
<1> HIDE DEF p1
<1>8. Prepared(p1, frame)
  <2>1. Above(p, p1, frame + 1)
    BY <1>7, AboveHigher, Sizes
  <2> QED
    BY <1>5, <2>1, PreparedAbove, Sizes
<1>9. IsPage(q) /\ q[0] = MAGIC /\ Frame(q, frame, U)
  <2> DEFINE v == [esp |-> UserTop, ss |-> "user data"]
  <2>1. DOMAIN v = {"esp", "ss"} /\ v["esp"] = UserTop
    OBVIOUS
  <2>2. q = stored(p1, frame, intr_stack, v)
    BY <1>5
  <2> HIDE DEF v, q
  <2> QED
    BY <1>7, <1>8, <2>1, <2>2, StoredStack
<1> HIDE DEF q
<1> DEFINE c == [pc |-> "jmp", esp |-> inner, user |-> FALSE, reg |-> reg]
<1>10. c.pc = "jmp" /\ c.esp = inner /\ c.user = FALSE /\ c.reg = reg
  OBVIOUS
<1> HIDE DEF c
<1>11. Own(cur, c, q, proc_stack[cur], <<U>>)
  <2>1. c.reg = [r \in Regs |-> c.reg[r]]
    BY <1>10, Pages
  <2>2. c.user <=> (c.pc = "user")
    BY <1>10
  <2> QED
    BY <1>5, <1>9, <1>10, <2>1, <2>2, Zenon DEF Own
<1>12. EarlyKept(cur, c, self_kstack[cur])
  BY <1>10 DEF EarlyKept, Early
<1>13. /\ due' = [due EXCEPT ![cur] = <<U>>]
       /\ self_kstack' = [self_kstack EXCEPT ![cur] = self_kstack[cur]]
       /\ proc_stack' = [proc_stack EXCEPT ![cur] = proc_stack[cur]]
  <2>1. Append(<<>>, U) = <<U>>
    OBVIOUS
  <2> QED
    BY <1>1, <1>5, <2>1, SameExcept DEF InterruptInv, Shape
<1>14. /\ Outside(<<U>>) /\ UNCHANGED <<cur, ready, all, esp0>> /\ intr'
       /\ c.pc = pc' /\ c.esp = esp' /\ c.reg = reg' /\ (c.user <=> user')
  BY <1>1, <1>3, <1>5, <1>10, NoDue
<1> QED
  BY <1>1, <1>2, <1>9, <1>11, <1>12, <1>13, <1>14, OwnStep

(* What thread_create stores. *)
NewThread(u) ==
  [ebp |-> "0", ebx |-> "0", edi |-> "0", esi |-> "0", eip |-> "kernel_thread",
   function |-> IF u \in Procs THEN "start_process" ELSE "function"]

(* thread_create's stores make a stack that switch_to can return on. *)
LEMMA StoredThread ==
  ASSUME NEW u, NEW p, IsPage(p), NEW q, q = stored(p, kstack, thread_stack, NewThread(u))
  PROVE  IsPage(q) /\ q[0] = p[0] /\ q[kstack + 4] = "kernel_thread" /\ q[kstack + 6] = Func(u)
<1> DEFINE v == NewThread(u)
<1>0. /\ "eip" \in DOMAIN v /\ "function" \in DOMAIN v
      /\ v["eip"] = "kernel_thread" /\ v["function"] = Func(u)
  BY DEF NewThread, Func
<1> HIDE DEF v
<1> DEFINE n == 8
<1> DEFINE s == thread_stack
<1>1. /\ DOMAIN s = 1..n /\ n \in Nat /\ kstack \in Int /\ q = stored(p, kstack, s, v)
      /\ s[4 + 1] = "eip" /\ s[6 + 1] = "function"
  BY ThreadFields, Sizes DEF v
<1> HIDE DEF n, s
<1>2. /\ IsPage(q)
      /\ \A i \in 0..PgWords - 1 :
              /\ i < kstack \/ i >= kstack + n => q[i] = p[i]
              /\ i >= kstack /\ i < kstack + n /\ s[i - kstack + 1] \in DOMAIN v =>
                   q[i] = v[s[i - kstack + 1]]
  BY <1>1, StoredWords
<1>3. q[0] = p[0]
  BY <1>2, Sizes
<1>4. \A k \in 0..7 : s[k + 1] \in DOMAIN v => q[kstack + k] = v[s[k + 1]]
  <2>1. \A k \in 0..7 : /\ kstack + k \in 0..PgWords - 1 /\ (kstack + k) - kstack + 1 = k + 1
                        /\ kstack + k >= kstack /\ kstack + k < kstack + n
    BY Sizes DEF n
  <2> QED
    BY <1>2, <2>1
<1>5. 4 \in 0..7 /\ 6 \in 0..7
  OBVIOUS
<1> QED
  BY <1>0, <1>1, <1>2, <1>3, <1>4, <1>5

(* thread_create prepares the new thread as a parked one that has not run. *)
LEMMA ThreadCreate ==
  ASSUME InterruptInv, NEW u \in Threads, thread_create(u)
  PROVE  InterruptInv'
<1> DEFINE q == stored(mem[u], kstack, thread_stack, NewThread(u))
<1>1. /\ pc = "init" /\ ~ elem_find(all, u)
      /\ self_kstack' = [self_kstack EXCEPT ![u] = kstack]
      /\ mem' = [mem EXCEPT ![u] = q]
      /\ ready' = list_append(ready, u) /\ all' = list_append(all, u)
  BY DEF thread_create, NewThread
<1>2. UNCHANGED <<cur, esp, pc, user, reg, intr, proc_stack, esp0, due>>
  BY DEF thread_create, cpu
<1>3. Live
  BY <1>1 DEF InterruptInv, Dead
<1>4. cur = Main /\ esp = PgWords - CFrame /\ ~ user /\ ~ intr /\ due[cur] = <<>>
  BY <1>1, <1>3, PlacesOn
<1>5. /\ cur \in Threads /\ ready \in Seq(Threads) /\ all \in Seq(Threads) /\ NoDuplicates(ready)
      /\ ~ elem_find(ready, cur)
      /\ \A t \in Threads : elem_find(all, t) <=> t = cur \/ elem_find(ready, t)
  BY DEF InterruptInv, Listed
<1>6. u # cur /\ ~ elem_find(ready, u)
  BY <1>1, <1>5
<1>7. /\ mem = [t \in Threads |-> mem[t]] /\ self_kstack = [t \in Threads |-> self_kstack[t]]
      /\ \A t \in Threads : IsPage(mem[t])
  BY DEF InterruptInv, Shape, IsPage
<1>8. IsPage(q) /\ q[0] = MAGIC /\ q[kstack + 4] = "kernel_thread" /\ q[kstack + 6] = Func(u)
  BY <1>3, <1>7, StoredThread DEF Live
<1> HIDE DEF q
<1>9. /\ ready' \in Seq(Threads) /\ all' \in Seq(Threads) /\ NoDuplicates(ready')
      /\ \A x : elem_find(ready', x) <=> elem_find(ready, x) \/ x = u
      /\ \A x : elem_find(all', x) <=> elem_find(all, x) \/ x = u
  BY <1>1, <1>5, <1>6, AppendElems
<1>10. Listed'
  BY <1>2, <1>5, <1>6, <1>9 DEF Listed
<1>11. /\ mem'[u] = q /\ self_kstack'[u] = kstack
       /\ \A t \in Threads : t # u => mem'[t] = mem[t] /\ self_kstack'[t] = self_kstack[t]
       /\ mem' = [t \in Threads |-> mem'[t]]
       /\ self_kstack' = [t \in Threads |-> self_kstack'[t]]
  BY <1>1, <1>7
<1>12. Shape'
  <2>1. \A t \in Threads : IsPage(mem'[t])
    BY <1>7, <1>8, <1>11
  <2>2. /\ proc_stack' = [t \in Threads |-> proc_stack'[t]] /\ due' = [t \in Threads |-> due'[t]]
        /\ reg' = [r \in Regs |-> reg'[r]]
    BY <1>2 DEF InterruptInv, Shape
  <2> QED
    BY <1>11, <2>1, <2>2 DEF Shape, IsPage
<1>13. Kstacks'
  <2>1. kstack # PgWords
    BY Sizes
  <2> QED
    BY <1>2, <1>9, <1>11, <2>1 DEF InterruptInv, Kstacks
<1>14. Live'
  <2>1. \A t \in Threads : mem'[t][0] = MAGIC
    BY <1>3, <1>8, <1>11 DEF Live
  <2>2. cur' \in Procs => esp0' = cur'
    BY <1>2, <1>3 DEF Live
  <2>3. OnCPU'
    BY <1>1, <1>2, <1>4, Zenon DEF OnCPU
  <2>4. ASSUME NEW t \in Threads, elem_find(ready', t)
        PROVE  Parked(t)'
    <3>1. CASE t = u
      <4>1. due[u] = <<>> /\ u # Main
        BY <1>1, <1>3, <1>4, <1>6 DEF Live
      <4>2. Fresh(u, mem'[u], self_kstack'[u], due'[u])
        BY <1>2, <1>8, <1>11, <4>1 DEF Fresh
      <4> QED
        BY <3>1, <4>2 DEF Parked, Waiting
    <3>2. CASE t # u
      <4>1. Parked(t)
        BY <1>3, <1>9, <2>4, <3>2 DEF Live
      <4>2. mem'[t] = mem[t] /\ self_kstack'[t] = self_kstack[t] /\ due'[t] = due[t]
            /\ proc_stack'[t] = proc_stack[t]
        BY <1>2, <1>11, <3>2
      <4> QED
        BY <4>1, <4>2 DEF Parked
    <3> QED
      BY <3>1, <3>2
  <2>5. \A t \in Threads : ~ elem_find(all', t) => due'[t] = <<>>
    BY <1>2, <1>3, <1>9 DEF Live
  <2> QED
    BY <2>1, <2>2, <2>3, <2>4, <2>5 DEF Live
<1> QED
  BY <1>2, <1>10, <1>12, <1>13, <1>14 DEF InterruptInv

(* Before main runs, no thread is interrupted or parked. *)
LEMMA InterruptInit == Init => InterruptInv
<1> SUFFICES ASSUME Init PROVE InterruptInv
  OBVIOUS
<1>1. /\ cur = Main /\ esp = PgWords - CFrame /\ pc = "init" /\ user = FALSE
      /\ reg = [r \in General \cup Segments |-> Main] /\ intr = FALSE
      /\ self_kstack = [t \in Threads |-> PgWords]
      /\ proc_stack = [t \in Threads |-> 0] /\ ready = list_init /\ all = <<Main>>
      /\ due = [t \in Threads |-> <<>>]
  BY DEF Init
<1>2. /\ Main \in Threads /\ Procs \subseteq Threads \ {Main}
  BY InterruptAssumption
<1>3. mem = [t \in Threads |-> [i \in 0..PgWords - 1 |-> IF i = 0 THEN MAGIC ELSE JUNK]]
  BY DEF Init
<1>4. \A t \in Threads : IsPage(mem[t]) /\ mem[t][0] = MAGIC
  BY <1>3, Sizes DEF IsPage
<1>5. Shape
  BY <1>1, <1>3, <1>4 DEF Shape, IsPage, Regs
<1>6. /\ all \in Seq(Threads) /\ \A x : elem_find(all, x) <=> x = Main
  <2>1. <<Main>> \in Seq(Threads) /\ Len(<<Main>>) = 1 /\ <<Main>>[1] = Main
    BY <1>2
  <2> QED
    BY <1>1, <2>1 DEF elem_find
<1>7. /\ ready \in Seq(Threads) /\ NoDuplicates(ready) /\ \A x : ~ elem_find(ready, x)
  BY <1>1, NewList
<1>8. Listed
  BY <1>1, <1>2, <1>6, <1>7 DEF Listed
<1>9. Kstacks
  BY <1>1, <1>6 DEF Kstacks
<1>10. \A t \in Threads : due[t] = <<>>
  BY <1>1
<1>11. \A t \in Threads : Outside(due[t])
  BY <1>10, NoDue
<1>12. OnCPU
  BY <1>1, <1>2, <1>10 DEF OnCPU
<1>13. Live
  BY <1>1, <1>2, <1>4, <1>7, <1>10, <1>12 DEF Live
<1> QED
  BY <1>5, <1>8, <1>9, <1>11, <1>13 DEF InterruptInv

-----------------------------------------------------------------------------
(* The handlers and the switch. *)

(* The handler that each vector's entry calls. *)
LEMMA Vectors ==
  /\ \A v \in 0..31 : c_interrupt_entry_table(v) = "spin"
  /\ c_interrupt_entry_table(32) = "clock"
  /\ c_interrupt_entry_table(33) = "keyboard"
  /\ c_interrupt_entry_table(39) = "return"
<1>1. \A v \in 0..31 : v # 32 /\ v # 33 /\ v \notin {39, 47}
  OBVIOUS
<1>2. ASSUME NEW v \in 0..31 PROVE c_interrupt_entry_table(v) = "spin"
  BY <1>1, Zenon DEF c_interrupt_entry_table
<1>3. 33 # 32 /\ 39 # 32 /\ 39 # 33 /\ 39 \in {39, 47}
  OBVIOUS
<1>4. /\ c_interrupt_entry_table(32) = "clock"
      /\ c_interrupt_entry_table(33) = "keyboard"
      /\ c_interrupt_entry_table(39) = "return"
  BY <1>3 DEF c_interrupt_entry_table
<1> QED
  BY <1>2, <1>4

(* The frames of the clock's handler, schedule and switch_to. *)
switchFrames == (junk(2 * CFrame + 2) \o <<"return">>) \o junk(4)

(* The number of words under a switched-out thread, and the one switch_to  *)
(* returns to.                                                             *)
LEMMA SwitchWords ==
  /\ Len(switchFrames) = 2 * CFrame + 7
  /\ switchFrames[2 * CFrame + 3] = "return"
<1> DEFINE m == 2 * CFrame + 2
<1> DEFINE a == junk(m)
<1> DEFINE b == <<"return">>
<1> DEFINE e == junk(4)
<1> DEFINE S == {JUNK, "return"}
<1>1. m \in Nat /\ CFrame \in Nat
  BY Sizes
<1>2. b \in Seq(S) /\ Len(b) = 1 /\ b[1] = "return"
  OBVIOUS
<1> HIDE DEF m
<1>3. a \in Seq(S) /\ Len(a) = m
  BY <1>1 DEF junk
<1>4. e \in Seq(S) /\ Len(e) = 4
  BY DEF junk
<1>5. switchFrames = (a \o b) \o e
  BY DEF switchFrames, m
<1> HIDE DEF a, b, e, S
<1> DEFINE d == a \o b
<1>6. /\ d \in Seq(S) /\ Len(d) = Len(a) + Len(b)
      /\ \A i \in 1..Len(a) + Len(b) : d[i] = IF i <= Len(a) THEN a[i] ELSE b[i - Len(a)]
  BY <1>2, <1>3, ConcatProperties, Zenon
<1> HIDE DEF d
<1>7. d \in Seq(S) /\ Len(d) = m + 1 /\ d[m + 1] = "return"
  <2>1. Len(d) = m + 1 /\ \A i \in 1..m + 1 : d[i] = IF i <= m THEN a[i] ELSE b[i - m]
    <3>1. Len(a) + Len(b) = m + 1
      BY <1>1, <1>2, <1>3
    <3> QED
      BY <1>3, <1>6, <3>1
  <2>2. m + 1 \in 1..m + 1 /\ ~ (m + 1 <= m) /\ (m + 1) - m = 1
    BY <1>1
  <2> QED
    BY <1>2, <1>6, <2>1, <2>2
<1> DEFINE f == d \o e
<1>8. /\ Len(f) = Len(d) + Len(e)
      /\ \A i \in 1..Len(d) + Len(e) : f[i] = IF i <= Len(d) THEN d[i] ELSE e[i - Len(d)]
  BY <1>4, <1>7, ConcatProperties, Zenon
<1> HIDE DEF f
<1>9. Len(f) = m + 5 /\ f[m + 1] = "return"
  <2>1. m + 1 \in 1..Len(d) + Len(e) /\ m + 1 <= Len(d) /\ Len(d) + Len(e) = m + 5
    BY <1>1, <1>4, <1>7
  <2> QED
    BY <1>7, <1>8, <2>1
<1>10. switchFrames = f
  BY <1>5 DEF f, d
<1> QED
  BY <1>1, <1>9, <1>10 DEF m

(* switch_to leaves the running thread's stack as that of a parked one. *)
LEMMA SaveContext ==
  ASSUME NEW t, NEW p, IsPage(p), NEW ps, NEW d, d # <<>>, NEW c, c = last(d),
         Own(t, c, p, ps, front(d)), ~ (c.pc \in Early /\ t \in Procs), Frame(p, Low(c), c),
         NEW q, q = pushed(p, Low(c), switchFrames)
  PROVE  IsPage(q) /\ q[0] = p[0] /\ Switched(t, q, Low(c) - (2 * CFrame + 7), ps, d)
<1> DEFINE l == Low(c)
<1> DEFINE w == switchFrames
<1>1. /\ l \in Nat /\ l - (2 * CFrame + 7) > 0 /\ l + 18 <= PgWords
      /\ Top(c) \in Nat /\ l + (IF c.pc = "user" THEN 19 ELSE 17) = Top(c)
  BY OwnRoom
<1>2. Top(c) >= l + 1 /\ CFrame \in Nat /\ PgWords \in Nat
  BY <1>1, Sizes
<1>3. Len(w) = 2 * CFrame + 7 /\ w[2 * CFrame + 3] = "return"
  BY SwitchWords
<1> HIDE DEF l, w
<1>4. /\ IsPage(q)
      /\ \A i \in 0..PgWords - 1 :
              /\ i >= l => q[i] = p[i]
              /\ i < l - Len(w) => q[i] = p[i]
              /\ i < l /\ i >= l - Len(w) => q[i] = w[l - i]
  <2>1. q = pushed(p, l, w) /\ l \in Int /\ Len(w) \in Nat
    BY <1>1, <1>2, <1>3 DEF l, w
  <2> QED
    BY <2>1, PushedWords
<1>5. q[0] = p[0]
  BY <1>1, <1>2, <1>3, <1>4
<1>6. Above(p, q, l)
  BY <1>4 DEF Above
<1>7. Own(t, c, q, ps, front(d))
  <2>1. Above(p, q, Top(c))
    BY <1>1, <1>2, <1>6, AboveHigher
  <2> QED
    BY <2>1, OwnAbove
<1>8. Frame(q, l, c)
  <2>1. Above(p, q, l + 1)
    BY <1>1, <1>6, AboveHigher
  <2> QED
    BY <1>1, <2>1, FrameAbove DEF l
<1>9. q[(l - (2 * CFrame + 7)) + 4] = "return"
  <2> DEFINE i == (l - (2 * CFrame + 7)) + 4
  <2>1. i \in 0..PgWords - 1 /\ i < l /\ i >= l - Len(w) /\ l - i = 2 * CFrame + 3
    BY <1>1, <1>2, <1>3
  <2> HIDE DEF i
  <2>2. q[i] = "return"
    BY <1>3, <1>4, <2>1
  <2> QED
    BY <2>2 DEF i
<1> QED
  BY <1>4, <1>5, <1>7, <1>8, <1>9 DEF Switched, l

(* ... and goes on where the next one was parked: popping takes the words  *)
(* that switch_to pushed, or those of a new thread's thread_stack.         *)
Popping(eip) == IF eip = "return" THEN 2 * CFrame + 7 ELSE 5

(* The state of the thread that switch_to returns into. *)
Resumed(t, eip, k, e, q, ps, d) ==
  \/ /\ eip = "kernel_thread" /\ t # Main /\ k = kstack /\ e = kstack + 5
     /\ q[kstack + 6] = Func(t) /\ d = <<>>
  \/ /\ eip = "return" /\ d # <<>> /\ e = Low(last(d))
     /\ Own(t, last(d), q, ps, front(d))
     /\ ~ (last(d).pc \in Early /\ t \in Procs)
     /\ Frame(q, Low(last(d)), last(d))

(* switch_to returns into kernel_thread in a new thread, and into the      *)
(* clock's handler in one that was switched from, with the stack of that   *)
(* place.                                                                  *)
LEMMA ResumeContext ==
  ASSUME NEW t, NEW p, IsPage(p), NEW k, NEW ps, NEW d,
         Waiting(t, p, k, ps, d),
         NEW n, n = Popping(p[k + 4]),
         NEW q, q = popped(p, k, n)
  PROVE  IsPage(q) /\ q[0] = p[0] /\ Resumed(t, p[k + 4], k, k + n, q, ps, d)
<1>0. n \in Nat /\ IsPage(p) /\ q = popped(p, k, n)
  BY Sizes DEF Popping
<1>1. CASE Fresh(t, p, k, d)
  <2>1. /\ t # Main /\ k = kstack /\ d = <<>>
        /\ p[kstack + 4] = "kernel_thread" /\ p[kstack + 6] = Func(t)
    BY <1>1 DEF Fresh
  <2>2. p[k + 4] = "kernel_thread" /\ n = 5
    BY <2>1 DEF Popping
  <2>3. k \in Nat /\ k > 0 /\ kstack + 6 \in 0..PgWords - 1 /\ kstack + 6 >= k + n
    BY <2>1, <2>2, Sizes
  <2>4. IsPage(q) /\ Above(p, q, k + n) /\ q[0] = p[0]
    BY ONLY <1>0, <2>3, PoppedAbove
  <2>5. q[kstack + 6] = Func(t)
    BY <2>1, <2>3, <2>4 DEF Above
  <2> QED
    BY <2>1, <2>2, <2>4, <2>5 DEF Resumed
<1>2. CASE Switched(t, p, k, ps, d)
  <2> DEFINE c == last(d)
  <2>1. /\ d # <<>> /\ Own(t, c, p, ps, front(d)) /\ ~ (c.pc \in Early /\ t \in Procs)
        /\ Frame(p, Low(c), c) /\ k = Low(c) - (2 * CFrame + 7) /\ p[k + 4] = "return"
    BY <1>2 DEF Switched
  <2> HIDE DEF c
  <2>2. n = 2 * CFrame + 7 /\ CFrame \in Nat
    BY <2>1, Sizes DEF Popping
  <2>3. /\ Low(c) \in Nat /\ Low(c) - (2 * CFrame + 7) > 0 /\ Low(c) + 18 <= PgWords
        /\ Top(c) \in Nat /\ Low(c) + (IF c.pc = "user" THEN 19 ELSE 17) = Top(c)
    BY ONLY <2>1, OwnRoom
  <2>4. k \in Nat /\ k > 0 /\ k + n = Low(c) /\ Top(c) >= Low(c)
    BY <2>1, <2>2, <2>3
  <2>5. IsPage(q) /\ Above(p, q, k + n) /\ q[0] = p[0]
    BY ONLY <1>0, <2>4, PoppedAbove
  <2>6. Above(p, q, Top(c)) /\ Above(p, q, Low(c) + 1)
    BY <2>3, <2>4, <2>5, AboveHigher
  <2>7. Own(t, c, q, ps, front(d))
    BY <2>1, <2>6, OwnAbove
  <2>8. Frame(q, Low(c), c)
    BY <2>1, <2>3, <2>6, FrameAbove
  <2> QED
    BY <2>1, <2>4, <2>5, <2>7, <2>8 DEF c, Resumed
<1> QED
  BY <1>1, <1>2 DEF Waiting

(* schedule, called by the clock's handler. *)
LEMMA ScheduleStep ==
  ASSUME InterruptInv, Live, pc = "handler", vec = 32, ticks[cur] = 0, schedule,
         UNCHANGED <<user, intr, proc_stack, due>>
  PROVE  /\ InterruptInv'
         /\ pc' \in {"kernel_thread", "intr_exit"}
         /\ self_kstack'[cur] # PgWords
         /\ \A t \in Threads : t # cur => self_kstack'[t] = self_kstack[t]
<1> DEFINE c == last(due[cur])
<1> DEFINE queue == list_append(ready, cur)
<1> DEFINE next == list_pop(queue)
<1> DEFINE saved == [mem EXCEPT ![cur] = pushed(mem[cur], esp, switchFrames)]
<1> DEFINE k == self_kstack'[next]
<1> DEFINE n == Popping(saved[next][k + 4])
<1>1. /\ ready' = list_popped(queue)
      /\ esp0' = (IF next \in Procs THEN next ELSE esp0)
      /\ cur' = next
      /\ self_kstack' = [self_kstack EXCEPT ![cur] = esp - (2 * CFrame + 7)]
      /\ mem' = [saved EXCEPT ![next] = popped(saved[next], k, n)]
      /\ esp' = k + n
      /\ pc' = (IF saved[next][k + 4] = "return" THEN "intr_exit" ELSE saved[next][k + 4])
      /\ all' = all
  <2>1. Len(switchFrames) = 2 * CFrame + 7
    BY SwitchWords
  <2>2. field(thread_stack, "eip") = 4 /\ field(thread_stack, "unused_retaddr") = 5
    BY ThreadFields
  <2>3. ready' = list_popped(queue) /\ process_activate(next) /\ switch_to(next) /\ all' = all
    BY Zenon DEF schedule
  <2> HIDE DEF next, queue
  <2>4. /\ cur' = next
        /\ self_kstack' = [self_kstack EXCEPT ![cur] = esp - Len(switchFrames)]
        /\ mem' = [saved EXCEPT ![next] = popped(saved[next], k,
             IF saved[next][k + field(thread_stack, "eip")] = "return" THEN Len(switchFrames)
             ELSE field(thread_stack, "unused_retaddr"))]
        /\ esp' = k + (IF saved[next][k + field(thread_stack, "eip")] = "return"
                       THEN Len(switchFrames) ELSE field(thread_stack, "unused_retaddr"))
        /\ pc' = (IF saved[next][k + field(thread_stack, "eip")] = "return" THEN "intr_exit"
                  ELSE saved[next][k + field(thread_stack, "eip")])
    BY <2>3 DEF switch_to, switchFrames
  <2> HIDE DEF saved, k
  <2> QED
    BY <2>1, <2>2, <2>3, <2>4 DEF process_activate, update_tss_esp, Popping
<1>2. reg' = [r \in Regs |-> reg'[r]]
  <2>1. reg' = [r \in DOMAIN reg |-> reg'[r]]
    BY DEF schedule, switch_to
  <2> QED
    BY <2>1, Pages
<1> HIDE DEF next, queue
<1>3. /\ ~ intr /\ ~ user /\ due[cur] # <<>>
      /\ Own(cur, c, mem[cur], proc_stack[cur], front(due[cur]))
      /\ esp = Low(c) /\ Frame(mem[cur], Low(c), c)
      /\ ~ (c.pc \in Early /\ cur \in Procs)
  <2>1. ~ intr
    BY NotOwn
  <2>2. /\ ~ user /\ due[cur] # <<>>
        /\ Own(cur, c, mem[cur], proc_stack[cur], front(due[cur]))
        /\ Handling(cur, pc, vec, esp, reg, ticks[cur], c, mem[cur])
    BY <2>1, InHandler
  <2> HIDE DEF c
  <2> QED
    BY <2>1, <2>2 DEF Handling
<1>4. /\ next \in Threads /\ elem_find(queue, next)
      /\ \A x : elem_find(queue, x) <=> elem_find(ready, x) \/ x = cur
      /\ ready' \in Seq(Threads) /\ NoDuplicates(ready')
      /\ \A x : elem_find(ready', x) <=> elem_find(queue, x) /\ x # next
  <2>1. cur \in Threads /\ ready \in Seq(Threads) /\ NoDuplicates(ready) /\ ~ elem_find(ready, cur)
    BY DEF InterruptInv, Listed
  <2>2. /\ queue \in Seq(Threads) /\ NoDuplicates(queue) /\ ~ list_empty(queue)
        /\ \A x : elem_find(queue, x) <=> elem_find(ready, x) \/ x = cur
    BY <2>1, AppendElems DEF queue
  <2>3. /\ next \in Threads /\ elem_find(queue, next)
        /\ list_popped(queue) \in Seq(Threads) /\ NoDuplicates(list_popped(queue))
        /\ \A x : elem_find(list_popped(queue), x) <=> elem_find(queue, x) /\ x # next
    BY <2>2, PopElems DEF next
  <2> QED
    BY <1>1, <2>2, <2>3
<1>5. /\ cur \in Threads /\ ~ elem_find(ready, cur)
      /\ mem = [t \in Threads |-> mem[t]] /\ self_kstack = [t \in Threads |-> self_kstack[t]]
      /\ \A t \in Threads : IsPage(mem[t]) /\ mem[t][0] = MAGIC
  BY DEF InterruptInv, Shape, Listed, Live, IsPage
<1>6. /\ IsPage(saved[cur]) /\ saved[cur][0] = MAGIC
      /\ Switched(cur, saved[cur], self_kstack'[cur], proc_stack[cur], due[cur])
  <2> DEFINE z == pushed(mem[cur], esp, switchFrames)
  <2>1. saved[cur] = z
    BY <1>5
  <2>2. self_kstack'[cur] = Low(c) - (2 * CFrame + 7)
    BY <1>1, <1>3, <1>5
  <2>3. z = pushed(mem[cur], Low(c), switchFrames) /\ IsPage(mem[cur]) /\ c = last(due[cur])
    BY <1>3, <1>5
  <2> HIDE DEF z, c, saved
  <2>4. IsPage(z) /\ z[0] = mem[cur][0]
        /\ Switched(cur, z, Low(c) - (2 * CFrame + 7), proc_stack[cur], due[cur])
    BY ONLY <1>3, <2>3, SaveContext
  <2> QED
    BY <1>5, <2>1, <2>2, <2>4
<1>7. /\ \A t \in Threads : t # cur => saved[t] = mem[t] /\ self_kstack'[t] = self_kstack[t]
      /\ saved = [t \in Threads |-> saved[t]]
      /\ self_kstack' = [t \in Threads |-> self_kstack'[t]]
  BY <1>1, <1>5
<1> HIDE DEF saved
<1>8. \A t \in Threads : IsPage(saved[t]) /\ saved[t][0] = MAGIC
  BY <1>5, <1>6, <1>7
<1>9. ASSUME NEW t \in Threads, elem_find(queue, t)
      PROVE  Waiting(t, saved[t], self_kstack'[t], proc_stack[t], due[t])
  <2>1. CASE t = cur
    BY <1>6, <2>1 DEF Waiting
  <2>2. CASE t # cur
    <3>1. Parked(t)
      BY <1>4, <1>9, <2>2 DEF Live
    <3> QED
      BY <1>7, <2>2, <3>1 DEF Parked
  <2> QED
    BY <2>1, <2>2
<1> DEFINE q == popped(saved[next], k, n)
<1>10. /\ IsPage(q) /\ q[0] = MAGIC
       /\ \/ /\ pc' = "kernel_thread" /\ next # Main /\ k = kstack /\ esp' = kstack + 5
             /\ q[kstack + 6] = Func(next) /\ due[next] = <<>>
          \/ /\ pc' = "intr_exit" /\ due[next] # <<>> /\ esp' = Low(last(due[next]))
             /\ Own(next, last(due[next]), q, proc_stack[next], front(due[next]))
             /\ ~ (last(due[next]).pc \in Early /\ next \in Procs)
             /\ Frame(q, Low(last(due[next])), last(due[next]))
  <2>1. Waiting(next, saved[next], k, proc_stack[next], due[next])
    BY <1>4, <1>9
  <2>2. IsPage(saved[next]) /\ saved[next][0] = MAGIC
    BY <1>4, <1>8
  <2>3. n = Popping(saved[next][k + 4]) /\ q = popped(saved[next], k, n)
    OBVIOUS
  <2> HIDE DEF k, n, q
  <2>4. /\ IsPage(q) /\ q[0] = saved[next][0]
        /\ Resumed(next, saved[next][k + 4], k, k + n, q, proc_stack[next], due[next])
    BY ONLY <2>1, <2>2, <2>3, ResumeContext
  <2>5. /\ esp' = k + n
        /\ pc' = (IF saved[next][k + 4] = "return" THEN "intr_exit" ELSE saved[next][k + 4])
    BY <1>1 DEF k, n
  <2>6. CASE saved[next][k + 4] = "return"
    BY <2>2, <2>4, <2>5, <2>6 DEF Resumed
  <2>7. CASE saved[next][k + 4] # "return"
    BY <2>2, <2>4, <2>5, <2>7 DEF Resumed
  <2> QED
    BY <2>6, <2>7
<1>11. /\ mem'[next] = q /\ \A t \in Threads : t # next => mem'[t] = saved[t]
       /\ mem' = [t \in Threads |-> mem'[t]]
  <2>1. mem' = [saved EXCEPT ![next] = q]
    BY <1>1
  <2> HIDE DEF q, k, n
  <2> QED
    BY <1>4, <1>7, <2>1
<1> HIDE DEF q, n, c
<1>12. cur' = next /\ all' = all /\ due' = due /\ proc_stack' = proc_stack /\ user' = user /\ intr' = intr
  BY <1>1
<1>13. Shape'
  <2>1. \A t \in Threads : IsPage(mem'[t])
    BY <1>8, <1>10, <1>11
  <2>2. /\ proc_stack' = [t \in Threads |-> proc_stack'[t]] /\ due' = [t \in Threads |-> due'[t]]
    BY <1>12 DEF InterruptInv, Shape
  <2> QED
    BY <1>2, <1>7, <1>11, <2>1, <2>2 DEF Shape, IsPage
<1>14. Listed'
  BY <1>4, <1>5, <1>12 DEF Listed, InterruptInv
<1>0. self_kstack'[cur] # PgWords
  <2>1. Low(c) \in Nat /\ Low(c) + 18 <= PgWords
    BY ONLY <1>3, OwnRoom
  <2>2. self_kstack'[cur] = Low(c) - (2 * CFrame + 7)
    BY <1>1, <1>3, <1>5
  <2> QED
    BY ONLY <2>1, <2>2, Sizes
<1>15. Kstacks'
  BY <1>0, <1>7, <1>12 DEF InterruptInv, Kstacks
<1>16. OnCPU'
  <2>1. /\ mem'[cur'] = q /\ due'[cur'] = due[next] /\ proc_stack'[cur'] = proc_stack[next]
        /\ ~ intr' /\ ~ user' /\ cur' = next /\ self_kstack'[cur'] = k
    BY <1>3, <1>11, <1>12
  <2> HIDE DEF k
  <2>2. CASE /\ pc' = "kernel_thread" /\ next # Main /\ k = kstack /\ esp' = kstack + 5
             /\ q[kstack + 6] = Func(next) /\ due[next] = <<>>
    <3>1. /\ cur' # Main /\ mem'[cur'][kstack + 6] = Func(cur') /\ self_kstack'[cur'] = kstack
          /\ due'[cur'] = <<>>
      BY <2>1, <2>2
    <3> QED
      BY <2>1, <2>2, <3>1, Zenon DEF OnCPU
  <2>3. CASE /\ pc' = "intr_exit" /\ due[next] # <<>> /\ esp' = Low(last(due[next]))
             /\ Own(next, last(due[next]), q, proc_stack[next], front(due[next]))
             /\ ~ (last(due[next]).pc \in Early /\ next \in Procs)
             /\ Frame(q, Low(last(due[next])), last(due[next]))
    <3>1. Handling(next, pc', vec', esp', reg', ticks'[next], last(due[next]), q)
      BY <2>3, Zenon DEF Handling
    <3>2. EarlyKept(next, last(due[next]), k)
      BY <2>3, Zenon DEF EarlyKept
    <3>3. /\ due'[cur'] # <<>>
          /\ Own(cur', last(due'[cur']), mem'[cur'], proc_stack'[cur'], front(due'[cur']))
          /\ EarlyKept(cur', last(due'[cur']), self_kstack'[cur'])
          /\ Handling(cur', pc', vec', esp', reg', ticks'[cur'], last(due'[cur']), mem'[cur'])
      BY ONLY <2>1, <2>3, <3>1, <3>2
    <3> QED
      BY <2>1, <3>3, Zenon DEF OnCPU
  <2> QED
    BY <1>10, <2>2, <2>3
<1>17. Live'
  <2>1. \A t \in Threads : mem'[t][0] = MAGIC
    BY <1>8, <1>10, <1>11
  <2>2. cur' \in Procs => esp0' = cur'
    BY <1>1
  <2>3. ASSUME NEW t \in Threads, elem_find(ready', t)
        PROVE  Parked(t)'
    <3>1. elem_find(queue, t) /\ t # next
      BY <1>4, <2>3
    <3>2. Waiting(t, mem'[t], self_kstack'[t], proc_stack'[t], due'[t])
      BY <1>9, <1>11, <1>12, <3>1
    <3> QED
      BY <3>2 DEF Parked
  <2>4. \A t \in Threads : ~ elem_find(all', t) => due'[t] = <<>>
    BY <1>12 DEF Live
  <2> QED
    BY <1>16, <2>1, <2>2, <2>3, <2>4 DEF Live
<1>18. \A t \in Threads : Outside(due'[t])
  BY <1>12 DEF InterruptInv
<1>19. pc' \in {"kernel_thread", "intr_exit"}
  BY <1>10
<1> QED
  BY <1>0, <1>7, <1>13, <1>14, <1>15, <1>17, <1>18, <1>19 DEF InterruptInv

(* The call of a handler by interrupt_handler.asm: it spins on an          *)
(* exception, counts a tick, switches, reads a key, or returns at once.    *)
LEMMA CallHandler ==
  ASSUME InterruptInv, call_handler
  PROVE  InterruptInv'
<1>1. /\ pc = "handler" /\ UNCHANGED <<user, intr, proc_stack, due>>
  BY DEF call_handler
<1> DEFINE returns ==
     /\ pc' = "intr_exit" /\ reg' = [r \in Regs |-> JUNK]
     /\ UNCHANGED <<cur, esp, mem, self_kstack, ready, all, esp0>>
<1>2. ASSUME Live, returns
      PROVE  InterruptInv'
  <2> DEFINE c == last(due[cur])
  <2>1. ~ intr
    BY <1>1, <1>2, NotOwn
  <2>2. /\ ~ user /\ due[cur] # <<>>
        /\ Own(cur, c, mem[cur], proc_stack[cur], front(due[cur]))
        /\ EarlyKept(cur, c, self_kstack[cur])
        /\ Handling(cur, pc, vec, esp, reg, ticks[cur], c, mem[cur])
    BY <1>1, <1>2, <2>1, InHandler
  <2> HIDE DEF c
  <2>3. esp = Low(c) /\ Frame(mem[cur], Low(c), c)
    BY <1>1, <2>2 DEF Handling
  <2>4. Handling(cur, pc', vec', esp', reg', ticks'[cur], c, mem[cur])
    <3>1. pc' = "intr_exit" /\ esp' = Low(c)
      BY <1>2, <2>3
    <3> QED
      BY <2>3, <3>1, Zenon DEF Handling
  <2>5. IsPage(mem[cur]) /\ mem[cur][0] = MAGIC /\ mem' = [mem EXCEPT ![cur] = mem[cur]]
    BY <1>2, Pages, SameExcept DEF InterruptInv, Shape
  <2>6. /\ UNCHANGED <<cur, user, intr, ready, all, esp0, self_kstack, proc_stack, due>>
        /\ reg' = [r \in Regs |-> reg'[r]]
    BY <1>1, <1>2
  <2> QED
    BY <1>2, <2>1, <2>2, <2>4, <2>5, <2>6, HandlerStep DEF c
<1>3. CASE Live
  <2>1. vec \in Returning
    <3>1. ~ intr
      BY <1>1, <1>3, NotOwn
    <3>2. Handling(cur, pc, vec, esp, reg, ticks[cur], last(due[cur]), mem[cur])
      BY <1>1, <1>3, <3>1, InHandler
    <3> QED
      BY <1>1, <3>2 DEF Handling
  <2>2. CASE vec = 32
    <3>1. clock_interrupt_handler
      BY <2>2, Vectors DEF call_handler
    <3>2. mem[cur][0] = MAGIC
      BY <1>3, Pages
    <3>3. CASE ticks[cur] = 0
      <4>1. schedule
        BY <3>1, <3>2, <3>3 DEF clock_interrupt_handler
      <4> QED
        BY <1>1, <1>3, <2>2, <3>3, <4>1, ScheduleStep
    <3>4. CASE ticks[cur] # 0
      <4>1. returns
        BY <3>1, <3>2, <3>4, Pages DEF clock_interrupt_handler
      <4> QED
        BY <1>2, <1>3, <4>1
    <3> QED
      BY <3>3, <3>4
  <2>3. CASE vec # 32
    <3>1. c_interrupt_entry_table(vec) \in {"keyboard", "return"}
      BY <2>1, <2>3, Vectors DEF Returning
    <3>2. returns
      <4>1. /\ pc' = "intr_exit" /\ reg' = [r \in DOMAIN reg |-> JUNK]
            /\ UNCHANGED <<cur, esp, mem, sched>>
        BY <3>1 DEF call_handler
      <4> QED
        BY <4>1, Pages DEF sched
    <3> QED
      BY <1>2, <1>3, <3>2
  <2> QED
    BY <2>2, <2>3
<1>4. CASE Dead
  <2>1. vec \in 0..31 /\ ~ intr /\ ~ user
    BY <1>1, <1>4 DEF Dead
  <2>2. c_interrupt_entry_table(vec) = "spin"
    BY <2>1, Vectors
  <2>3. /\ pc' = "spin" /\ reg' = [r \in DOMAIN reg |-> JUNK]
        /\ UNCHANGED <<cur, esp, mem, sched>>
    BY <2>2 DEF call_handler
  <2>4. Dead'
    BY <1>1, <2>1, <2>3 DEF Dead
  <2>5. IsPage(mem[cur]) /\ mem' = [mem EXCEPT ![cur] = mem[cur]]
        /\ reg' = [r \in Regs |-> reg'[r]]
    BY <2>3, Pages, SameExcept DEF InterruptInv, Shape
  <2>6. UNCHANGED <<cur, ready, all, esp0, self_kstack, proc_stack, due>>
    BY <1>1, <2>3 DEF sched
  <2> QED
    BY <2>4, <2>5, <2>6, CurrentStep
<1> QED
  BY <1>3, <1>4 DEF InterruptInv

(* The invariant does not depend on the interrupt controller. *)
LEMMA SameInterruptInv ==
  ASSUME InterruptInv, UNCHANGED <<cpu, mem, sched, proc_stack, due>>
  PROVE  InterruptInv'
<1>1. /\ cur' = cur /\ esp' = esp /\ pc' = pc /\ user' = user /\ reg' = reg /\ intr' = intr
      /\ vec' = vec /\ mem' = mem /\ self_kstack' = self_kstack /\ ticks' = ticks
      /\ ready' = ready /\ all' = all /\ esp0' = esp0 /\ proc_stack' = proc_stack /\ due' = due
  BY DEF cpu, sched
<1>2. (Shape <=> Shape') /\ (Listed <=> Listed') /\ (Kstacks <=> Kstacks') /\ (Dead <=> Dead')
  BY <1>1 DEF Shape, Listed, Kstacks, Dead
<1>3. Live <=> Live'
  <2>1. OnCPU <=> OnCPU'
    BY <1>1 DEF OnCPU, Running
  <2>2. \A t \in Threads : Parked(t) <=> Parked(t)'
    BY <1>1 DEF Parked
  <2> QED
    BY <1>1, <2>1, <2>2 DEF Live
<1> QED
  BY <1>1, <1>2, <1>3 DEF InterruptInv

(* Every step keeps the invariant. *)
LEMMA InterruptStep ==
  ASSUME InterruptInv, [Next]_vars
  PROVE  InterruptInv'
<1>1. ASSUME NEW i \in {0, 1}, request(i)
      PROVE  InterruptInv'
  BY <1>1, SameInterruptInv DEF request
<1>2. ASSUME NEW i \in {0, 1}, acknowledge(i)
      PROVE  InterruptInv'
  <2>1. intr /\ enter(32 + i) /\ (32 + i = 32 => prompt) /\ 32 + i \in Returning /\ 32 + i \notin 0..31
    BY <1>2 DEF acknowledge, Returning
  <2> QED
    BY <2>1, EnterStep
<1>3. CASE spurious
  <2>1. intr /\ enter(39) /\ 39 \in Returning /\ 39 \notin 0..31 /\ 39 # 32
    BY <1>3 DEF spurious, Returning
  <2> QED
    BY <2>1, EnterStep
<1>4. ASSUME NEW v \in Exceptions, exception(v)
      PROVE  InterruptInv'
  <2>1. user /\ enter(v) /\ v \in 0..31 /\ v # 32
    BY <1>4, InterruptAssumption DEF exception
  <2> QED
    BY <2>1, EnterStep
<1>5. CASE UNCHANGED vars
  BY <1>5, SameInterruptInv DEF vars
<1> QED
  BY <1>1, <1>2, <1>3, <1>4, <1>5, PushRegisters, EoiStep, CallHandler, IntrExitStep, IretdStep,
     ThreadCreate, MainEnables, KernelThread, CallFunction, StartProcess, GetUserStack,
     JmpIntrExit DEF Next

(* Until an exception stops the kernel, the kernel stack of each thread    *)
(* holds what interrupt_handler.asm, switch_to and start_process left      *)
(* there for its return: frames are never overwritten, by an interrupt, by *)
(* a switch, or by the C functions called below them, and no stack reaches *)
(* its thread's control block.                                             *)
THEOREM InterruptSafe == Spec => []InterruptInv
BY InterruptInit, InterruptStep, PTL DEF Spec

(* The invariant implies FrameKept: what the exit takes from the stack is  *)
(* what was interrupted.                                                   *)
LEMMA KeptFrames == InterruptInv => FrameKept
<1> SUFFICES ASSUME InterruptInv PROVE FrameKept
  OBVIOUS
<1>1. \A t \in Threads : \A i \in DOMAIN due[t] : due[t][i].pc \notin {"entry", "eoi", "handler"}
  BY DEF InterruptInv, Outside
<1>2. ASSUME pc \in {"get_a_page", "jmp"}
      PROVE  proc_stack[cur] >= kstack + Len(thread_stack)
  <2>1. Live
    BY <1>2 DEF InterruptInv, Dead
  <2>2. intr
    BY <1>2, <2>1, PlacesOn
  <2>3. Own(cur, Running, mem[cur], proc_stack[cur], due[cur]) /\ Running.pc = pc
    BY <2>1, <2>2, Onto
  <2>4. proc_stack[cur] = frame
    BY <1>2, <2>3 DEF Own
  <2> QED
    BY <2>4, ThreadFields, Sizes
<1>3. ASSUME pc = "iretd"
      PROVE  LET d == due[cur][Len(due[cur])]
             IN /\ reg = d.reg
                /\ mem[cur][esp] = d.pc
                /\ mem[cur][esp + 1] = (IF d.user THEN "user" ELSE "kernel")
                /\ mem[cur][esp + 2] = "IF"
                /\ IF d.user THEN mem[cur][esp + 3] = UserTop ELSE esp + 3 = d.esp
  <2> DEFINE d == last(due[cur])
  <2>1. Live
    BY <1>3 DEF InterruptInv, Dead
  <2>2. Iret(mem[cur], esp, d) /\ reg = d.reg /\ (d.user <=> (d.pc = "user"))
    <3>1. CASE intr
      <4>1. Own(cur, Running, mem[cur], proc_stack[cur], due[cur])
            /\ Running.pc = "iretd" /\ Running.esp = esp /\ Running.reg = reg
        BY <1>3, <2>1, <3>1, Onto
      <4>2. /\ esp = frame + 14 /\ due[cur] = <<U>> /\ reg = NewRegisters
            /\ Iret(mem[cur], frame + 14, U)
        BY <4>1 DEF Own
      <4>3. U.reg = NewRegisters /\ U.user = TRUE /\ U.pc = "user"
        BY DEF U
      <4> QED
        BY <4>2, <4>3, NoDue
    <3>2. CASE ~ intr
      <4>1. /\ Own(cur, d, mem[cur], proc_stack[cur], front(due[cur]))
            /\ Handling(cur, pc, vec, esp, reg, ticks[cur], d, mem[cur])
        BY <1>3, <2>1, <3>2, InHandler
      <4> HIDE DEF d
      <4>2. d.user <=> (d.pc = "user")
        BY ONLY <4>1, OwnPlaces
      <4> QED
        BY <1>3, <4>1, <4>2 DEF Handling
    <3> QED
      BY <3>1, <3>2
  <2> HIDE DEF d
  <2>3. CASE d.user
    BY <2>2, <2>3 DEF Iret, d, last
  <2>4. CASE ~ d.user
    BY <2>2, <2>4 DEF Iret, d, last
  <2> QED
    BY <2>3, <2>4
<1> QED
  BY <1>1, <1>2, <1>3, Zenon DEF FrameKept

(* An interrupted context continues with the registers, stack pointer,     *)
(* mode and address it was interrupted with: intr_exit and iretd in        *)
(* interrupt_handler.asm restore what the CPU and the entry saved,         *)
(* whatever happened in between, switches through other threads' stacks    *)
(* included.                                                               *)
THEOREM FramesKept == Spec => []FrameKept
BY InterruptSafe, KeptFrames, PTL

-----------------------------------------------------------------------------
(* The machine schedules as Thread says. *)

(* The scheduler's status table, as the refinement mapping computes it. *)
StatusOf(c, l) == [t \in Threads |-> IF t = c THEN "TASK_RUNNING"
                                     ELSE IF elem_find(l, t) THEN "TASK_READY" ELSE "TASK_NONE"]

(* The saved interrupt flags of that mapping. *)
FlagsOf(ks) == [t \in Threads |-> ks[t] # PgWords]

(* The machine starts as the scheduler does. *)
LEMMA SchedInit == Init => Sched!ThreadInit
<1> SUFFICES ASSUME Init PROVE Sched!ThreadInit
  OBVIOUS
<1>1. /\ cur = Main /\ pc = "init" /\ ready = list_init /\ all = <<Main>> /\ cr3 = NULL /\ esp0 = NULL
      /\ self_kstack = [t \in Threads |-> PgWords]
      /\ ticks = [t \in Threads |-> IF t = Main THEN Priority[t] ELSE 0]
  BY DEF Init
<1>2. \A t : ~ elem_find(ready, t)
  BY <1>1, NewList
<1>3. StatusOf(cur, ready) = [t \in Threads |-> IF t = Main THEN "TASK_RUNNING" ELSE "TASK_NONE"]
  BY <1>1, <1>2 DEF StatusOf
<1>4. FlagsOf(self_kstack) = [t \in Threads |-> FALSE]
  BY <1>1 DEF FlagsOf
<1>5. all = Sched!list_append(Sched!list_init, Main) /\ ready = Sched!list_init
  BY <1>1 DEF Sched!list_append, Sched!list_init, list_init
<1> QED
  BY <1>1, <1>3, <1>4, <1>5 DEF Sched!ThreadInit, StatusOf, FlagsOf

(* A step that leaves the lists, the slices, the address space and the set *)
(* of created threads alone is no step of the scheduler.                   *)
LEMMA SchedStutter ==
  ASSUME UNCHANGED <<cur, ready, all, ticks, cr3, esp0>>,
         \A t \in Threads : self_kstack'[t] = PgWords <=> self_kstack[t] = PgWords,
         pc' = "init" <=> pc = "init", pc' = "panic" <=> pc = "panic"
  PROVE  UNCHANGED Sched!threadVars
<1>1. StatusOf(cur, ready)' = StatusOf(cur, ready)
  BY DEF StatusOf
<1>2. FlagsOf(self_kstack)' = FlagsOf(self_kstack)
  BY DEF FlagsOf
<1>3. (pc # "init")' = (pc # "init") /\ (pc = "panic")' = (pc = "panic")
  OBVIOUS
<1> QED
  BY <1>1, <1>2, <1>3 DEF Sched!threadVars, StatusOf, FlagsOf

(* No assertion of schedule fails, and main is past its start-up once      *)
(* interrupts are on.                                                      *)
LEMMA NoPanicHere ==
  ASSUME InterruptInv
  PROVE  /\ pc # "panic"
         /\ intr \/ user => pc # "init"
<1>1. CASE Dead
  BY <1>1 DEF Dead
<1>2. CASE Live /\ intr
  <2>1. Own(cur, Running, mem[cur], proc_stack[cur], due[cur]) /\ Running.pc = pc
    BY <1>2, Onto
  <2>2. pc \in {"user", "loop", "call", "function", "start_process", "get_a_page", "jmp",
                "intr_exit", "iretd"}
    BY ONLY <2>1, OwnPlaces
  <2> QED
    BY <2>2
<1>3. CASE Live /\ ~ intr
  <2>1. ~ user /\ (\/ pc \in {"init", "kernel_thread"}
                   \/ Handling(cur, pc, vec, esp, reg, ticks[cur], last(due[cur]), mem[cur]))
    BY <1>3, Zenon DEF Live, OnCPU
  <2>2. CASE pc \in {"init", "kernel_thread"}
    BY <1>3, <2>1, <2>2
  <2>3. CASE Handling(cur, pc, vec, esp, reg, ticks[cur], last(due[cur]), mem[cur])
    <3>1. pc \in {"entry", "eoi", "handler", "intr_exit", "iretd"}
      BY ONLY <2>3, HandlerPlaces
    <3> QED
      BY <1>3, <2>1, <3>1
  <2> QED
    BY <2>1, <2>2, <2>3
<1> QED
  BY <1>1, <1>2, <1>3 DEF InterruptInv

(* iretd never returns into main's start-up, which runs with interrupts    *)
(* off.                                                                    *)
LEMMA IretdPlace ==
  ASSUME InterruptInv, iretd
  PROVE  pc' \notin {"init", "panic"}
<1> DEFINE d == last(due[cur])
<1>1. pc = "iretd" /\ pc' = mem[cur][esp]
  BY DEF iretd
<1>2. Live
  BY <1>1 DEF InterruptInv, Dead
<1>3. pc' = d.pc
  <2>1. FrameKept
    BY KeptFrames
  <2> QED
    BY <1>1, <2>1 DEF FrameKept, last
<1>4. d.pc \in {"user", "loop", "call", "function", "start_process", "get_a_page", "jmp",
                "intr_exit", "iretd"}
  <2>1. CASE intr
    <3>1. Own(cur, Running, mem[cur], proc_stack[cur], due[cur]) /\ Running.pc = "iretd"
      BY <1>1, <1>2, <2>1, Onto
    <3>2. due[cur] = <<U>>
      BY <3>1 DEF Own
    <3>3. U.pc = "user"
      BY DEF U
    <3> QED
      BY <3>2, <3>3, NoDue
  <2>2. CASE ~ intr
    <3>1. Own(cur, d, mem[cur], proc_stack[cur], front(due[cur]))
      BY <1>1, <1>2, <2>2, InHandler
    <3> HIDE DEF d
    <3> QED
      BY ONLY <3>1, OwnPlaces
  <2> QED
    BY <2>1, <2>2
<1> HIDE DEF d
<1> QED
  BY <1>3, <1>4

(* kernel_thread calls the function of its thread. *)
LEMMA CallPlace ==
  ASSUME InterruptInv, call_function
  PROVE  pc' \notin {"init", "panic"}
<1>1. pc = "call" /\ pc' = mem[cur][esp + 1]
  BY DEF call_function
<1>2. Live
  BY <1>1 DEF InterruptInv, Dead
<1>3. intr
  BY <1>1, <1>2, PlacesOn
<1>4. /\ Own(cur, Running, mem[cur], proc_stack[cur], due[cur])
      /\ Running.pc = "call" /\ Running.esp = esp
  BY <1>1, <1>2, <1>3, Onto
<1>5. esp = kstack + 5 /\ mem[cur][kstack + 6] = Func(cur)
  BY <1>4 DEF Own
<1>6. esp + 1 = kstack + 6
  BY <1>5, Sizes
<1> QED
  BY <1>1, <1>5, <1>6 DEF Func

(* thread_create is a thread's or a process's start in Thread. *)
LEMMA SchedCreate ==
  ASSUME InterruptInv, NEW u \in Threads, thread_create(u)
  PROVE  Sched!thread_start(u) \/ Sched!process_execute(u)
<1>1. /\ pc = "init" /\ pc' = "init" /\ ~ elem_find(all, u)
      /\ self_kstack' = [self_kstack EXCEPT ![u] = kstack]
      /\ ticks' = [ticks EXCEPT ![u] = Priority[u]]
      /\ ready' = list_append(ready, u) /\ all' = list_append(all, u)
      /\ cur' = cur /\ cr3' = cr3 /\ esp0' = esp0
  BY DEF thread_create, cpu
<1>2. /\ cur \in Threads /\ ready \in Seq(Threads)
      /\ \A t \in Threads : elem_find(all, t) <=> t = cur \/ elem_find(ready, t)
      /\ self_kstack = [t \in Threads |-> self_kstack[t]]
  BY DEF InterruptInv, Listed, Shape
<1>3. u # cur /\ ~ elem_find(ready, u)
  BY <1>1, <1>2
<1>4. \A x : elem_find(ready', x) <=> elem_find(ready, x) \/ x = u
  BY <1>1, <1>2, AppendElems
<1>5. /\ StatusOf(cur, ready)[u] = "TASK_NONE"
      /\ StatusOf(cur, ready)' = [StatusOf(cur, ready) EXCEPT ![u] = "TASK_READY"]
  BY <1>1, <1>3, <1>4 DEF StatusOf
<1>6. FlagsOf(self_kstack)' = [FlagsOf(self_kstack) EXCEPT ![u] = TRUE]
  <2>1. kstack # PgWords
    BY Sizes
  <2>2. \A t \in Threads : self_kstack'[t] = IF t = u THEN kstack ELSE self_kstack[t]
    BY <1>1, <1>2
  <2> QED
    BY <2>1, <2>2 DEF FlagsOf
<1>7. Sched!enlist(u)
  <2>1. ~ Sched!elem_find(ready, u) /\ ~ Sched!elem_find(all, u)
    BY <1>1, <1>3 DEF Sched!elem_find, elem_find
  <2>2. ready' = Sched!list_append(ready, u) /\ all' = Sched!list_append(all, u)
    BY <1>1 DEF Sched!list_append, list_append
  <2>3. (pc # "init")' = (pc # "init") /\ (pc = "panic")' = (pc = "panic")
    BY <1>1
  <2> QED
    BY <1>1, <1>5, <1>6, <2>1, <2>2, <2>3 DEF Sched!enlist, StatusOf, FlagsOf
<1>8. CASE u \in Procs
  BY <1>1, <1>5, <1>7, <1>8 DEF Sched!process_execute, StatusOf
<1>9. CASE u \notin Procs
  BY <1>1, <1>5, <1>7, <1>9 DEF Sched!thread_start, StatusOf
<1> QED
  BY <1>8, <1>9

(* main enabling interrupts is intr_enable in Thread. *)
LEMMA SchedEnable ==
  ASSUME InterruptInv, main_enables
  PROVE  Sched!intr_enable
<1>1. /\ pc = "init" /\ pc' = "loop" /\ UNCHANGED <<cur, ready, all, ticks, cr3, esp0, self_kstack>>
  BY DEF main_enables, sched
<1>2. StatusOf(cur, ready)' = StatusOf(cur, ready)
  BY <1>1 DEF StatusOf
<1>3. FlagsOf(self_kstack)' = FlagsOf(self_kstack)
  BY <1>1 DEF FlagsOf
<1>4. (pc # "init")' = TRUE /\ (pc = "panic")' = (pc = "panic") /\ ~ (pc = "panic")
  BY <1>1
<1> QED
  BY <1>1, <1>2, <1>3, <1>4 DEF Sched!intr_enable, StatusOf, FlagsOf

(* A tick of a slice that is not used up is a step of the clock's handler. *)
LEMMA SchedTick ==
  ASSUME InterruptInv, pc = "handler", ticks[cur] # 0,
         ticks' = [ticks EXCEPT ![cur] = @ - 1], pc' = "intr_exit",
         UNCHANGED <<cur, self_kstack, ready, all, cr3, esp0>>
  PROVE  Sched!clock_interrupt_handler
<1>2. StatusOf(cur, ready)' = StatusOf(cur, ready)
  BY DEF StatusOf
<1>3. FlagsOf(self_kstack)' = FlagsOf(self_kstack)
  BY DEF FlagsOf
<1>4. (pc # "init")' = (pc # "init") /\ (pc = "panic")' = (pc = "panic") /\ ~ (pc = "panic") /\ pc # "init"
  OBVIOUS
<1> QED
  BY <1>2, <1>3, <1>4 DEF Sched!clock_interrupt_handler, StatusOf, FlagsOf

(* So is the tick that ends the slice: schedule picks the same thread, and *)
(* switch_to reaches the place whose interrupt flag Thread remembers.      *)
LEMMA SchedSwitch ==
  ASSUME InterruptInv, Live, pc = "handler", vec = 32, ticks[cur] = 0, schedule,
         UNCHANGED <<user, intr, proc_stack, due>>
  PROVE  Sched!clock_interrupt_handler
<1> DEFINE queue == list_append(ready, cur)
<1> DEFINE next == list_pop(queue)
<1>1. /\ ready' = list_popped(queue)
      /\ ticks' = [ticks EXCEPT ![cur] = Priority[cur]]
      /\ process_activate(next) /\ cur' = next /\ all' = all
  BY DEF schedule, switch_to
<1>2. /\ pc' \in {"kernel_thread", "intr_exit"} /\ self_kstack'[cur] # PgWords
      /\ \A t \in Threads : t # cur => self_kstack'[t] = self_kstack[t]
  BY ScheduleStep
<1>3. /\ cur \in Threads /\ ready \in Seq(Threads) /\ NoDuplicates(ready) /\ ~ elem_find(ready, cur)
      /\ \A t \in Threads : elem_find(all, t) <=> t = cur \/ elem_find(ready, t)
  BY DEF InterruptInv, Listed
<1>4. /\ queue \in Seq(Threads) /\ NoDuplicates(queue) /\ ~ list_empty(queue)
      /\ \A x : elem_find(queue, x) <=> elem_find(ready, x) \/ x = cur
  BY <1>3, AppendElems
<1> HIDE DEF queue
<1>5. /\ next \in Threads /\ elem_find(queue, next)
      /\ \A x : elem_find(list_popped(queue), x) <=> elem_find(queue, x) /\ x # next
  BY <1>4, PopElems
<1>6. \A t \in Threads : FlagsOf(self_kstack)'[t] = IF t = cur THEN TRUE ELSE FlagsOf(self_kstack)[t]
  BY <1>2 DEF FlagsOf
<1>7. FlagsOf(self_kstack)' = [FlagsOf(self_kstack) EXCEPT ![cur] = TRUE]
  BY <1>3, <1>6 DEF FlagsOf
<1>8. FlagsOf(self_kstack)'[next] = TRUE
  <2>1. next # cur => self_kstack[next] # PgWords
    BY <1>3, <1>4, <1>5 DEF InterruptInv, Kstacks
  <2> QED
    BY <1>2, <1>5, <2>1 DEF FlagsOf
<1> DEFINE st == StatusOf(cur, ready)
<1>9. st[cur] = "TASK_RUNNING"
  BY <1>3 DEF StatusOf
<1> DEFINE off == [st EXCEPT ![cur] = "TASK_READY"]
<1>10. StatusOf(cur, ready)' = [off EXCEPT ![next] = "TASK_RUNNING"]
  <2> HIDE DEF next
  <2>1. \A t \in Threads : elem_find(ready', t) <=> (elem_find(ready, t) \/ t = cur) /\ t # next
    BY <1>1, <1>4, <1>5
  <2>2. StatusOf(cur, ready)' = [t \in Threads |-> IF t = next THEN "TASK_RUNNING"
          ELSE IF elem_find(ready', t) THEN "TASK_READY" ELSE "TASK_NONE"]
    BY <1>1 DEF StatusOf
  <2>3. off = [t \in Threads |-> IF t = cur THEN "TASK_READY"
                 ELSE IF elem_find(ready, t) THEN "TASK_READY" ELSE "TASK_NONE"]
    BY <1>3 DEF StatusOf
  <2> HIDE DEF off
  <2> QED
    BY <1>5, <2>1, <2>2, <2>3
<1>11. /\ queue = Sched!list_append(ready, cur) /\ next = Sched!list_pop(queue)
       /\ list_popped(queue) = Sched!list_popped(queue)
       /\ ~ Sched!elem_find(ready, cur) /\ ~ Sched!list_empty(queue)
  <2>1. queue = Sched!list_append(ready, cur)
    BY DEF queue, list_append, Sched!list_append
  <2> QED
    BY <1>3, <1>4, <2>1 DEF list_pop, Sched!list_pop, list_popped, Sched!list_popped,
       elem_find, Sched!elem_find, list_empty, Sched!list_empty
<1>12. Sched!process_activate(next)
  <2> HIDE DEF next
  <2> QED
    BY <1>1 DEF process_activate, update_tss_esp, Sched!process_activate, Sched!pgdir
<1>13. (pc # "init")' = TRUE /\ (pc = "panic")' = (pc = "panic") /\ ~ (pc = "panic") /\ pc # "init"
  BY <1>2
<1> HIDE DEF next, st, off
<1>14. Sched!switch_to(next, TRUE)
  BY <1>1, <1>7, <1>8, <1>13 DEF Sched!switch_to, FlagsOf
<1>15. Sched!time_slice(TRUE)
  BY <1>1 DEF Sched!time_slice
<1>16. Sched!schedule(st, TRUE)
  <2>1. ready' = Sched!list_popped(queue) /\ all' = all
    BY <1>1, <1>11
  <2>2. StatusOf(cur, ready)' = [[st EXCEPT ![cur] = "TASK_READY"] EXCEPT ![next] = "TASK_RUNNING"]
    BY <1>10 DEF off
  <2> QED
    BY <1>9, <1>11, <1>12, <1>13, <1>14, <1>15, <2>1, <2>2, Zenon DEF Sched!schedule, StatusOf
<1> QED
  BY <1>13, <1>16 DEF Sched!clock_interrupt_handler, StatusOf, st

(* Every handler is a step of the scheduler, or none. *)
LEMMA SchedHandler ==
  ASSUME InterruptInv, call_handler
  PROVE  [Sched!ThreadNext]_(Sched!threadVars)
<1>1. /\ pc = "handler" /\ UNCHANGED <<user, intr, proc_stack, due>>
  BY DEF call_handler
<1>2. CASE Live /\ vec = 32
  <2>1. clock_interrupt_handler
    BY <1>2, Vectors DEF call_handler
  <2>2. mem[cur][0] = MAGIC
    BY <1>2, Pages
  <2>3. CASE ticks[cur] = 0
    <3>1. schedule
      BY <2>1, <2>2, <2>3 DEF clock_interrupt_handler
    <3>2. Sched!clock_interrupt_handler
      BY <1>1, <1>2, <2>3, <3>1, SchedSwitch
    <3> QED
      BY <3>2 DEF Sched!ThreadNext
  <2>4. CASE ticks[cur] # 0
    <3>1. /\ ticks' = [ticks EXCEPT ![cur] = @ - 1] /\ pc' = "intr_exit"
          /\ UNCHANGED <<cur, self_kstack, ready, all, cr3, esp0>>
      BY <2>1, <2>2, <2>4 DEF clock_interrupt_handler
    <3>2. Sched!clock_interrupt_handler
      BY <1>1, <2>4, <3>1, SchedTick
    <3> QED
      BY <3>2 DEF Sched!ThreadNext
  <2> QED
    BY <2>3, <2>4
<1>3. CASE ~ (Live /\ vec = 32)
  <2>1. c_interrupt_entry_table(vec) # "clock"
    <3>1. CASE Dead
      BY <1>1, <3>1, Vectors DEF Dead
    <3>2. CASE Live
      <4>1. ~ intr
        BY <1>1, <3>2, NotOwn
      <4>2. Handling(cur, pc, vec, esp, reg, ticks[cur], last(due[cur]), mem[cur])
        BY <1>1, <3>2, <4>1, InHandler
      <4>3. vec \in {33, 39}
        BY <1>1, <1>3, <3>2, <4>2 DEF Handling, Returning
      <4> QED
        BY <4>3, Vectors
    <3> QED
      BY <3>1, <3>2 DEF InterruptInv
  <2>2. pc' \in {"spin", "intr_exit"} /\ UNCHANGED <<cur, esp, mem, sched>>
    BY <2>1 DEF call_handler
  <2>3. /\ UNCHANGED <<cur, ready, all, ticks, cr3, esp0>> /\ self_kstack' = self_kstack
        /\ (pc' = "init" <=> pc = "init") /\ (pc' = "panic" <=> pc = "panic")
    BY <1>1, <2>2 DEF sched
  <2> QED
    BY <2>3, SchedStutter
<1> QED
  BY <1>2, <1>3

(* Every step of the machine is a step of the scheduler, or none. *)
LEMMA SchedStep ==
  ASSUME InterruptInv, [Next]_vars
  PROVE  [Sched!ThreadNext]_(Sched!threadVars)
<1>1. ASSUME UNCHANGED sched, pc \notin {"init", "panic"}, pc' \notin {"init", "panic"},
             cur' = cur
      PROVE  UNCHANGED Sched!threadVars
  <2>1. UNCHANGED <<cur, ready, all, ticks, cr3, esp0>> /\ self_kstack' = self_kstack
    BY <1>1 DEF sched
  <2> QED
    BY <1>1, <2>1, SchedStutter
<1>2. ASSUME NEW v, enter(v), intr \/ user
      PROVE  UNCHANGED Sched!threadVars
  <2>1. pc \notin {"init", "panic"}
    BY <1>2, NoPanicHere
  <2>2. cur' = cur
    <3>1. CASE user
      <4>1. Live
        BY <3>1 DEF InterruptInv, Dead
      <4>2. intr
        BY <3>1, <4>1, Zenon DEF Live, OnCPU
      <4>3. Own(cur, Running, mem[cur], proc_stack[cur], due[cur]) /\ Running.user
        BY <3>1, <4>1, <4>2, Onto
      <4>4. cur \in Procs
        BY <4>3, Zenon DEF Own
      <4>5. esp0 = cur
        BY <4>1, <4>4 DEF Live
      <4> QED
        BY <1>2, <3>1, <4>5 DEF enter
    <3>2. CASE ~ user
      BY <1>2, <3>2 DEF enter
    <3> QED
      BY <3>1, <3>2
  <2>3. UNCHANGED sched /\ pc' = "entry"
    BY <1>2 DEF enter
  <2> QED
    BY <1>1, <2>1, <2>2, <2>3
<1>3. ASSUME NEW i \in {0, 1}, request(i)
      PROVE  UNCHANGED Sched!threadVars
  <2>1. UNCHANGED <<cur, ready, all, ticks, cr3, esp0>> /\ self_kstack' = self_kstack /\ pc' = pc
    BY <1>3 DEF request, cpu, sched
  <2> QED
    BY <2>1, SchedStutter
<1>4. CASE UNCHANGED vars
  <2>1. UNCHANGED <<cur, ready, all, ticks, cr3, esp0>> /\ self_kstack' = self_kstack /\ pc' = pc
    BY <1>4 DEF vars, cpu, sched
  <2> QED
    BY <2>1, SchedStutter
<1>5. ASSUME NEW i \in {0, 1}, acknowledge(i)
      PROVE  UNCHANGED Sched!threadVars
  <2>1. intr /\ enter(32 + i)
    BY <1>5 DEF acknowledge
  <2> QED
    BY <1>2, <2>1
<1>6. CASE spurious
  <2>1. intr /\ enter(39)
    BY <1>6 DEF spurious
  <2> QED
    BY <1>2, <2>1
<1>7. ASSUME NEW v \in Exceptions, exception(v)
      PROVE  UNCHANGED Sched!threadVars
  <2>1. user /\ enter(v)
    BY <1>7 DEF exception
  <2> QED
    BY <1>2, <2>1
<1>8. CASE push_registers
  BY <1>1, <1>8 DEF push_registers
<1>9. CASE eoi
  BY <1>1, <1>9 DEF eoi
<1>10. CASE intr_exit
  BY <1>1, <1>10 DEF intr_exit
<1>11. CASE iretd
  <2>1. pc = "iretd" /\ cur' = cur /\ UNCHANGED sched
    BY <1>11 DEF iretd
  <2> QED
    BY <1>1, <1>11, <2>1, IretdPlace
<1>12. CASE kernel_thread
  BY <1>1, <1>12 DEF kernel_thread
<1>13. CASE call_function
  <2>1. pc = "call" /\ cur' = cur /\ UNCHANGED sched
    BY <1>13 DEF call_function
  <2> QED
    BY <1>1, <1>13, <2>1, CallPlace
<1>14. CASE get_user_stack
  BY <1>1, <1>14 DEF get_user_stack
<1>15. CASE jmp_intr_exit
  BY <1>1, <1>15 DEF jmp_intr_exit
<1>16. CASE start_process
  <2> DEFINE k == self_kstack[cur] + sizeof(thread_stack)
  <2>1. /\ pc = "start_process" /\ pc' = "get_a_page"
        /\ self_kstack' = [self_kstack EXCEPT ![cur] = k]
        /\ UNCHANGED <<cur, ready, all, ticks, cr3, esp0>>
    BY <1>16 DEF start_process
  <2>2. Live
    BY <2>1 DEF InterruptInv, Dead
  <2>3. intr
    BY <2>1, <2>2, PlacesOn
  <2>4. /\ Own(cur, Running, mem[cur], proc_stack[cur], due[cur])
        /\ Running.pc = "start_process" /\ EarlyKept(cur, Running, self_kstack[cur])
    BY <2>1, <2>2, <2>3, Onto
  <2>5. self_kstack[cur] = kstack
    BY <2>4 DEF Own, EarlyKept, Early
  <2>6. sizeof(thread_stack) = 32
    BY ThreadFields DEF sizeof
  <2>7. k # PgWords /\ self_kstack[cur] # PgWords
    BY <2>5, <2>6, Sizes
  <2> HIDE DEF k
  <2>8. \A t \in Threads : self_kstack'[t] = PgWords <=> self_kstack[t] = PgWords
    <3>1. self_kstack = [t \in Threads |-> self_kstack[t]]
      BY DEF InterruptInv, Shape
    <3> QED
      BY <2>1, <2>7, <3>1
  <2> QED
    BY <2>1, <2>8, SchedStutter
<1>17. ASSUME NEW u \in Threads, thread_create(u)
       PROVE  Sched!ThreadNext
  BY <1>17, SchedCreate DEF Sched!ThreadNext
<1>18. CASE main_enables
  BY <1>18, SchedEnable DEF Sched!ThreadNext
<1>19. CASE call_handler
  BY <1>19, SchedHandler
<1> QED
  BY <1>3, <1>4, <1>5, <1>6, <1>7, <1>8, <1>9, <1>10, <1>11, <1>12, <1>13, <1>14, <1>15, <1>16,
     <1>17, <1>18, <1>19 DEF Next

(* The machine of stacks, frames and registers implements the scheduler    *)
(* Thread: thread_create, the clock's handler and schedule, done by        *)
(* pushing and popping words, switch between threads exactly as the        *)
(* scheduler's lists say, so that what is proved of Thread holds of the    *)
(* machine.                                                                *)
THEOREM InterruptSchedules == Spec => ThreadImplemented
<1>1. InterruptInv /\ [Next]_vars => [Sched!ThreadNext]_(Sched!threadVars)
  BY SchedStep
<1> QED
  BY <1>1, SchedInit, InterruptSafe, PTL DEF Spec, ThreadImplemented, Sched!ThreadSafe
=============================================================================
