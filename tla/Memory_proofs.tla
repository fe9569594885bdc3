--------------------------- MODULE Memory_proofs ---------------------------
(***************************************************************************)
(* Page allocation (memory.c) for pools and address spaces of any size and *)
(* any number of kernel threads or processes that allocate: what Memory's  *)
(* properties say holds as long as kernel threads and processes do not     *)
(* allocate at the same time.                                              *)
(***************************************************************************)
EXTENDS Memory, Bitmap_proofs, FiniteSetTheorems

(* The pools that mem_pool_init lays out are apart and within the memory.  *)
LEMMA PoolFacts ==
  /\ \A p \in Pools : /\ pool_length(p) \in Nat /\ size(pool_length(p)) \in Nat
                      /\ phy_addr_start(p) \in Nat
                      /\ pool_frames(p) \subseteq PhysPages
  /\ pool_frames("kernel") \cap pool_frames("user") = {}
<1> USE BitmapAssumption, MemoryAssumption
<1> DEFINE a == all_free_pages
           k == kernel_free_pages
           u == user_free_pages
<1>1. a \in Nat
  BY DEF all_free_pages
<1>2. k \in Nat /\ u \in Nat /\ k + u = a
  BY <1>1 DEF kernel_free_pages, user_free_pages
<1>3. ASSUME NEW m \in Nat
      PROVE  /\ m \div ByteBits \in Nat
             /\ (m \div ByteBits) * ByteBits \in Nat
             /\ (m \div ByteBits) * ByteBits <= m
  <2> DEFINE d == m \div ByteBits
  <2>1. d \in Nat /\ d * ByteBits <= m
    OBVIOUS
  <2> HIDE DEF d
  <2>2. d * ByteBits \in Nat
    BY <2>1
  <2> QED
    BY <2>1, <2>2 DEF d
<1>4. /\ pool_length("kernel") \in Nat
      /\ size(pool_length("kernel")) \in Nat /\ size(pool_length("kernel")) <= k
  BY <1>2, <1>3 DEF pool_length, size
<1>5. /\ pool_length("user") \in Nat
      /\ size(pool_length("user")) \in Nat /\ size(pool_length("user")) <= u
  BY <1>2, <1>3 DEF pool_length, size
<1>6. phy_addr_start("kernel") = 0 /\ phy_addr_start("user") = k
  BY DEF phy_addr_start
<1> HIDE DEF a, k, u
<1>7. PhysPages = 0..a - 1
  BY DEF PhysPages, a
<1>8. pool_frames("kernel") \subseteq 0..k - 1
  BY <1>2, <1>4, <1>6 DEF pool_frames
<1>9. pool_frames("user") \subseteq k..a - 1
  BY <1>1, <1>2, <1>5, <1>6 DEF pool_frames
<1>10. pool_frames("kernel") \subseteq PhysPages /\ pool_frames("user") \subseteq PhysPages
  BY <1>1, <1>2, <1>7, <1>8, <1>9
<1>11. pool_frames("kernel") \cap pool_frames("user") = {}
  BY <1>1, <1>2, <1>8, <1>9
<1> QED
  BY <1>2, <1>4, <1>5, <1>6, <1>10, <1>11 DEF Pools

(* The address spaces, and the last page of a process's. *)
LEMMA SpaceFacts ==
  /\ \A s \in Spaces : /\ addr_length(s) \in Nat /\ size(addr_length(s)) \in Nat
                       /\ VirtPages(s) = 0..size(addr_length(s))
  /\ stack_page \in Nat /\ stack_page > 0
  /\ \A p \in Procs : p \in Spaces /\ p # "kernel" /\ size(addr_length(p)) = stack_page + 1
  /\ "kernel" \in Spaces
<1> USE BitmapAssumption, MemoryAssumption
<1>1. size(UserLength) \in Nat /\ size(UserLength) > 1
  BY DEF size
<1>2. \A p \in Procs : p \in Spaces /\ p # "kernel"
  BY DEF Spaces, Threads
<1>3. \A s \in Spaces : addr_length(s) \in Nat /\ size(addr_length(s)) \in Nat
  BY <1>1, PoolFacts DEF addr_length, Pools
<1> QED
  BY <1>1, <1>2, <1>3 DEF stack_page, VirtPages, Spaces, addr_length

(* What paddr_get_page learns from a search for one bit. *)
LEMMA OneBit ==
  ASSUME NEW length \in Nat, NEW B
  PROVE  LET i == bitmap_request_bits(B, length, 1)
         IN /\ i = PANIC => Full(B, length)
            /\ i # PANIC => i \in 0..size(length) - 1 /\ i \notin B
<1>1. CASE 0..size(length) - 1 \subseteq B
  BY <1>1, RequestPanics DEF Full
<1>2. CASE ~ (0..size(length) - 1 \subseteq B)
  <2> DEFINE i == bitmap_request_bits(B, length, 1)
  <2>1. i \in (0..size(length) - 1) \ B
    BY <1>2, RequestOne
  <2>2. i # PANIC
    BY <2>1, BitmapAssumption DEF PANIC, size
  <2> QED
    BY <2>1, <2>2
<1> QED
  BY <1>1, <1>2

(* What vaddr_get_pages learns from a search for several bits. *)
LEMMA ManyBits ==
  ASSUME NEW length \in Nat, NEW B, NEW n \in Nat \ {0}
  PROVE  LET r == bitmap_request_bits(B, length, n)
         IN /\ r = PANIC => Full(B, length)
            /\ r \notin {PANIC, FAIL} =>
                 /\ r \in Nat /\ r < size(length) /\ r + n - 1 <= size(length)
                 /\ \A v \in r..r + n - 1 : v \notin B
<1> DEFINE r == bitmap_request_bits(B, length, n)
           runs == FreeRuns(B, n, IF n = 1 THEN size(length) - 1 ELSE size(length))
<1>1. r = IF 0..size(length) - 1 \subseteq B THEN PANIC
          ELSE IF runs = {} THEN FAIL
          ELSE first(runs)
  BY RequestFirstFit
<1>2. size(length) \in Nat
  BY BitmapAssumption DEF size
<1>3. runs \subseteq Nat
  BY <1>2 DEF FreeRuns
<1>4. ASSUME runs # {}
      PROVE  /\ first(runs) \in Nat /\ first(runs) < size(length)
             /\ first(runs) + n - 1 <= size(length)
             /\ \A v \in first(runs)..first(runs) + n - 1 : v \notin B
  <2> DEFINE x == first(runs)
  <2>1. x \in runs
    BY <1>3, <1>4, FirstLeast
  <2> HIDE DEF x
  <2>2. x \in Nat /\ \A v \in x..x + n - 1 : v \notin B
    BY <2>1, <1>3 DEF FreeRuns
  <2>3. x + n - 1 <= size(length) /\ x < size(length)
    BY <2>1, <2>2, <1>2 DEF FreeRuns
  <2> QED
    BY <2>2, <2>3 DEF x
<1> HIDE DEF runs, r
<1>5. r = PANIC => Full(B, length)
  <2> SUFFICES ASSUME r = PANIC, ~ Full(B, length)
               PROVE  FALSE
    OBVIOUS
  <2>1. runs = {} \/ r = first(runs)
    BY <1>1 DEF Full
  <2>2. runs = {} => r = FAIL
    BY <1>1 DEF Full
  <2> QED
    BY <2>1, <2>2, <1>4 DEF PANIC, FAIL
<1>6. r \notin {PANIC, FAIL} => runs # {} /\ r = first(runs)
  BY <1>1
<1> QED
  BY <1>4, <1>5, <1>6 DEF r

-----------------------------------------------------------------------------
(* Every part of the state has its type. *)
LEMMA Typed ==
  ASSUME MemoryInv
  PROVE  /\ owners \in [Pools -> SUBSET Threads]
         /\ pool_bitmap \in [Pools -> SUBSET Nat]
         /\ addr_bitmap \in [Spaces -> SUBSET Nat]
         /\ DOMAIN pde = Procs /\ DOMAIN pte = Spaces
         /\ DOMAIN vaddr = Threads
         /\ pc \in [Threads -> PC]
         /\ type \in [Threads -> Pools \cup {NULL}]
         /\ cnt \in [Threads -> 0..MaxCount]
         /\ page \in [Threads -> PhysPages \cup {NULL}]
         /\ tab \in [Threads -> PhysPages \cup {NULL}]
         /\ active \subseteq Threads
BY MemoryAssumption DEF MemoryInv, MemoryTypeOK, FunctionsOK

(* A thread of the kind that allocates belongs to that kind. *)
LEMMA SameKind ==
  ASSUME MemoryInv, Apart, NEW t \in active, NEW u \in active
  PROVE  t \in Procs <=> u \in Procs
<1>1. active \subseteq KernelThreads \/ active \subseteq Procs
  BY DEF MemoryInv, FunctionsOK, Apart
<1> QED
  BY <1>1, MemoryAssumption

(* Nobody else is in a call of the allocator while a thread is in one:     *)
(* every caller wants the same lock.                                       *)
LEMMA Alone ==
  ASSUME MemoryInv, Apart, NEW t \in Threads, in_call(t)
  PROVE  \A u \in Threads : u # t => ~ in_call(u)
<1> SUFFICES ASSUME NEW u \in Threads, in_call(u)
             PROVE  u = t
  OBVIOUS
<1>1. /\ t \in active /\ u \in active
      /\ t \in owners[type[t]] /\ u \in owners[type[u]]
      /\ type[t] = (IF t \in Procs THEN "user" ELSE "kernel")
      /\ type[u] = (IF u \in Procs THEN "user" ELSE "kernel")
  BY DEF MemoryInv, CallsLocked
<1>2. type[t] = type[u] /\ type[t] \in Pools
  BY <1>1, SameKind DEF Pools
<1> QED
  BY <1>1, <1>2 DEF MemoryInv, CallsLocked

(* Nobody is in a call while the lock of an allocating thread's kind is    *)
(* free.                                                                   *)
LEMMA NobodyInside ==
  ASSUME MemoryInv, Apart, NEW t \in active,
         owners[IF t \in Procs THEN "user" ELSE "kernel"] = {}
  PROVE  \A u \in Threads : ~ in_call(u)
<1> SUFFICES ASSUME NEW u \in Threads, in_call(u)
             PROVE  FALSE
  OBVIOUS
<1>1. /\ u \in active /\ u \in owners[type[u]]
      /\ type[u] = (IF u \in Procs THEN "user" ELSE "kernel")
  BY DEF MemoryInv, CallsLocked
<1> QED
  BY <1>1, SameKind

-----------------------------------------------------------------------------
(* What a step of thread t leaves as it is, one part of the invariant at a *)
(* time.  A step inside a call keeps the locks.                            *)
LEMMA LocksKept ==
  ASSUME MemoryInv, NEW t \in Threads, in_call(t), NEW q \in PC,
         pc' = [pc EXCEPT ![t] = q], UNCHANGED <<owners, type, active>>
  PROVE  CallsLocked'
<1>1. \A u \in Threads : in_call(u)' => in_call(u)
  BY Typed DEF in_call
<1> QED
  BY <1>1 DEF MemoryInv, CallsLocked

(* The threads outside a call stay where they are. *)
LEMMA OthersKept ==
  ASSUME MemoryInv, NEW t \in Threads, \A u \in Threads : u # t => ~ in_call(u),
         NEW q \in PC, pc' = [pc EXCEPT ![t] = q],
         \A u \in Threads : u # t => page'[u] = page[u] /\ tab'[u] = tab[u],
         \A u \in Procs : u # t => addr_bitmap'[u] = addr_bitmap[u]
  PROVE  \A u \in Threads : u # t => CallPhase(u)'
<1> SUFFICES ASSUME NEW u \in Threads, u # t
             PROVE  CallPhase(u)'
  OBVIOUS
<1>1. pc[u] \in {"start", "idle"} /\ pc'[u] = pc[u]
  BY Typed DEF in_call
<1>2. /\ pc[u] = "start" => u \in Procs /\ addr_bitmap[u] = {}
      /\ page[u] = NULL /\ tab[u] = NULL
  BY <1>1 DEF MemoryInv, CallPhase
<1>3. /\ pc'[u] = "start" => u \in Procs /\ addr_bitmap'[u] = {}
      /\ page'[u] = NULL /\ tab'[u] = NULL
      /\ pc'[u] \in {"start", "idle"}
  BY <1>1, <1>2
<1> QED
  BY <1>3 DEF CallPhase, Mapping

(* Address bitmaps and entries that a step does not change. *)
LEMMA AddressesKept ==
  ASSUME MemoryInv, UNCHANGED <<addr_bitmap, pte>>,
         \A p \in Procs : pc'[p] \notin {"start", "get"} => pc[p] \notin {"start", "get"}
  PROVE  UserBelowKernel' /\ StackMarked' /\ MappedMarked'
BY DEF MemoryInv, UserBelowKernel, StackMarked, MappedMarked

(* Physical pages that a step does not touch. *)
LEMMA FramesKept ==
  ASSUME MemoryInv, UNCHANGED <<pool_bitmap, pde, pte, page, tab>>,
         \A u \in Threads : /\ page[u] # NULL => (pc'[u] = "pset" <=> pc[u] = "pset")
                            /\ tab[u] # NULL => (pc'[u] = "tset" <=> pc[u] = "tset")
  PROVE  OneUse' /\ MarkedWhenTaken'
<1>1. OneUse'
  BY DEF MemoryInv, OneUse, mapped, is_table
<1>2. ASSUME NEW f \in PhysPages
      PROVE  /\ marked(f)' = marked(f) /\ mapped(f)' = mapped(f) /\ is_table(f)' = is_table(f)
             /\ \A u \in Threads : page[u] = f => (pc'[u] = "pset" <=> pc[u] = "pset")
             /\ \A u \in Threads : tab[u] = f => (pc'[u] = "tset" <=> pc[u] = "tset")
  BY MemoryAssumption DEF marked, mapped, is_table
<1>3. MarkedWhenTaken'
  BY <1>2 DEF MemoryInv, MarkedWhenTaken
<1> QED
  BY <1>1, <1>3

(* Where frames were found does not change with the calls that hold none.  *)
LEMMA FoundKept ==
  ASSUME MemoryInv, UNCHANGED <<page, tab>>,
         \A u \in Threads : page[u] # NULL => type'[u] = type[u]
  PROVE  FoundInPool'
BY DEF MemoryInv, FoundInPool


(* The machine stops only with a full bitmap. *)
LEMMA Spins ==
  ASSUME MemoryInv, panic_spin,
         \/ \E p \in Pools : Full(pool_bitmap[p], pool_length(p))
         \/ \E s \in Spaces : Full(addr_bitmap[s], addr_length(s))
  PROVE  MemoryInv'
<1>1. /\ panic' = TRUE
      /\ UNCHANGED <<owners, pool_bitmap, addr_bitmap, pde, pte, pc, type, vaddr, cnt, page, tab,
                     active>>
  BY DEF panic_spin, locals
<1>2. MemoryTypeOK' /\ FunctionsOK'
  BY <1>1 DEF MemoryInv, MemoryTypeOK, FunctionsOK
<1>3. CallsLocked' /\ FoundInPool'
  BY <1>1 DEF MemoryInv, CallsLocked, FoundInPool, in_call
<1>4. \A t \in Threads : CallPhase(t)'
  BY <1>1 DEF MemoryInv, CallPhase, space, pending
<1>5. UserBelowKernel' /\ StackMarked' /\ MappedMarked'
  BY <1>1, AddressesKept
<1>6. OneUse' /\ MarkedWhenTaken'
  BY <1>1, FramesKept
<1>7. PanicOnlyWhenFull'
  BY <1>1 DEF PanicOnlyWhenFull
<1> QED
  BY <1>2, <1>3, <1>4, <1>5, <1>6, <1>7 DEF MemoryInv

-----------------------------------------------------------------------------
(* The actions.  malloc_kernel_pages and malloc_user_pages, and get_a_page,*)
(* which is for processes: thread t takes the lock of its kind.            *)
LEMMA Enters ==
  ASSUME MemoryInv, Apart, NEW t \in Threads, NEW p \in Pools,
         p = (IF t \in Procs THEN "user" ELSE "kernel"),
         NEW q \in {"vaddr", "get"}, NEW c \in 1..MaxCount,
         ~ panic, t \in active, pc[t] \in {"start", "idle"},
         owners[p] = {}, owners' = [owners EXCEPT ![p] = {t}],
         type' = [type EXCEPT ![t] = p],
         cnt' = [cnt EXCEPT ![t] = c],
         pc' = [pc EXCEPT ![t] = q],
         q = "vaddr" => pc[t] = "idle" /\ vaddr' = vaddr,
         q = "get" => pc[t] = "start" /\ c = 1 /\ vaddr' = [vaddr EXCEPT ![t] = stack_page],
         UNCHANGED <<pool_bitmap, addr_bitmap, pde, pte, page, tab, active, panic>>
  PROVE  MemoryInv'
<1> USE Typed
<1>1. \A u \in Threads : ~ in_call(u)
  BY NobodyInside
<1>2. page[t] = NULL /\ tab[t] = NULL
  BY DEF MemoryInv, CallPhase
<1>3. MemoryTypeOK'
  <2>1. /\ owners' \in [Pools -> SUBSET Threads] /\ pc' \in [Threads -> PC]
        /\ type' \in [Threads -> Pools \cup {NULL}]
    BY DEF PC
  <2>2. c \in 0..MaxCount
    BY MemoryAssumption
  <2>3. cnt' \in [Threads -> 0..MaxCount]
    BY <2>2
  <2> QED
    BY <2>1, <2>3 DEF MemoryInv, MemoryTypeOK
<1>4. FunctionsOK'
  BY DEF MemoryInv, FunctionsOK
<1>5. CallsLocked'
  <2>1. ASSUME NEW u \in Threads, u # t
        PROVE  ~ in_call(u)'
    BY <1>1, <2>1 DEF in_call
  <2>2. \A r \in Pools : \A u, w \in owners'[r] : u = w
    BY DEF MemoryInv, CallsLocked
  <2>3. t \in active' /\ type'[t] = p /\ t \in owners'[type'[t]]
    OBVIOUS
  <2> QED
    BY <2>1, <2>2, <2>3 DEF CallsLocked
<1>6. \A u \in Threads : u # t => CallPhase(u)'
  <2>1. q \in PC
    BY DEF PC
  <2> QED
    BY <1>1, <2>1, OthersKept
<1>7. CallPhase(t)'
  <2>1. pc'[t] = q /\ page'[t] = NULL /\ tab'[t] = NULL /\ cnt'[t] = c /\ c > 0
    BY <1>2
  <2>2. q = "get" => t \in Procs /\ addr_bitmap'[t] = {} /\ vaddr'[t] = stack_page /\ cnt'[t] = 1
    BY <2>1 DEF MemoryInv, CallPhase
  <2> QED
    BY <2>1, <2>2 DEF CallPhase, Mapping
<1>8. FoundInPool'
  BY <1>2, FoundKept
<1>9. UserBelowKernel' /\ StackMarked' /\ MappedMarked'
  BY AddressesKept
<1>10. OneUse' /\ MarkedWhenTaken'
  BY <1>2, FramesKept
<1>11. PanicOnlyWhenFull'
  BY DEF PanicOnlyWhenFull
<1> QED
  BY <1>3, <1>4, <1>5, <1>6, <1>7, <1>8, <1>9, <1>10, <1>11 DEF MemoryInv

(* get_a_page marks the page of the stack. *)
LEMMA GetAPageMark ==
  ASSUME MemoryInv, Apart, NEW t \in Threads, get_a_page_mark(t)
  PROVE  MemoryInv'
<1> USE Typed
<1>1. /\ ~ panic /\ t \in active /\ pc[t] = "get" /\ in_call(t)
      /\ t \in Procs /\ addr_bitmap[t] = {} /\ vaddr[t] = stack_page /\ cnt[t] = 1
      /\ page[t] = NULL /\ tab[t] = NULL /\ type[t] = "user"
  BY DEF get_a_page_mark, at, in_call, MemoryInv, CallPhase, CallsLocked
<1>2. /\ addr_bitmap' = [addr_bitmap EXCEPT ![t] = @ \cup {stack_page}]
      /\ pc' = [pc EXCEPT ![t] = "page"]
      /\ UNCHANGED <<owners, pool_bitmap, pde, pte, type, vaddr, cnt, page, tab, active, panic>>
  BY <1>1, SpaceFacts DEF get_a_page_mark, goto, bitmap_set_bit
<1>3. t \in Spaces /\ t # "kernel" /\ VirtPages(t) = 0..stack_page + 1 /\ stack_page \in Nat
  BY <1>1, SpaceFacts
<1>4. /\ addr_bitmap'[t] = {stack_page}
      /\ \A s \in Spaces : s # t => addr_bitmap'[s] = addr_bitmap[s]
  BY <1>1, <1>2, <1>3
<1>5. MemoryTypeOK'
  <2>1. pc' \in [Threads -> PC]
    BY <1>2 DEF PC
  <2>2. stack_page \in VirtPages(t)
    BY <1>3
  <2>3. \A s \in Spaces : addr_bitmap'[s] \subseteq VirtPages(s)
    BY <1>4, <2>2 DEF MemoryInv, MemoryTypeOK
  <2> QED
    BY <1>2, <2>1, <2>3 DEF MemoryInv, MemoryTypeOK
<1>6. FunctionsOK'
  BY <1>2, <1>3 DEF MemoryInv, FunctionsOK
<1>7. "page" \in PC
  BY DEF PC
<1>8. CallsLocked'
  BY <1>1, <1>2, <1>7, LocksKept
<1>9. \A u \in Threads : u # t => CallPhase(u)'
  BY <1>1, <1>2, <1>4, <1>7, SpaceFacts, Alone, OthersKept
<1>10. CallPhase(t)'
  <2>1. /\ pc'[t] = "page" /\ vaddr'[t] = stack_page /\ cnt'[t] = 1 /\ page'[t] = NULL
        /\ tab'[t] = NULL /\ space(t)' = t
    BY <1>1, <1>2 DEF space
  <2>2. pending(t)' = {stack_page}
    BY <2>1, <1>3 DEF pending
  <2>3. stack_page \in VirtPages(t)
    BY <1>3
  <2>4. pte'[t][stack_page] = NULL
    BY <1>1, <1>2, <1>3, <2>3 DEF MemoryInv, MappedMarked
  <2> QED
    BY <2>1, <2>2, <2>3, <2>4, <1>1, <1>3, <1>4 DEF CallPhase, Mapping
<1>11. FoundInPool'
  BY <1>2, FoundKept
<1>12. UserBelowKernel' /\ StackMarked' /\ MappedMarked'
  <2>1. \A s \in Spaces : addr_bitmap[s] \subseteq addr_bitmap'[s]
    BY <1>1, <1>4
  <2>2. StackMarked'
    BY <1>1, <1>2, <1>4, <2>1, SpaceFacts DEF MemoryInv, StackMarked
  <2>3. MappedMarked'
    BY <1>2, <2>1 DEF MemoryInv, MappedMarked
  <2>4. \A p \in Procs : addr_bitmap'[p] \subseteq 0..stack_page
    <3>1. {stack_page} \subseteq 0..stack_page
      BY <1>3
    <3>2. \A p \in Procs : p # t => addr_bitmap'[p] = addr_bitmap[p]
      BY <1>4, SpaceFacts
    <3> QED
      BY <1>4, <3>1, <3>2 DEF MemoryInv, UserBelowKernel
  <2>5. UserBelowKernel'
    BY <2>3, <2>4, SpaceFacts DEF UserBelowKernel, MappedMarked
  <2> QED
    BY <2>2, <2>3, <2>5
<1>13. OneUse' /\ MarkedWhenTaken'
  BY <1>1, <1>2, FramesKept
<1>14. PanicOnlyWhenFull'
  BY <1>1, <1>2 DEF PanicOnlyWhenFull
<1> QED
  BY <1>5, <1>6, <1>8, <1>9, <1>10, <1>11, <1>12, <1>13, <1>14 DEF MemoryInv

(* The space a caller allocates in is its own, or the kernel's. *)
LEMMA CallSpace ==
  ASSUME MemoryInv, NEW t \in Threads, in_call(t)
  PROVE  /\ space(t) \in Spaces /\ type[t] \in Pools /\ t \in active
         /\ type[t] = (IF t \in Procs THEN "user" ELSE "kernel")
         /\ space(t) = (IF t \in Procs THEN t ELSE "kernel")
         /\ \A p \in Procs : p # t => p # space(t)
BY MemoryAssumption DEF MemoryInv, CallsLocked, space, Spaces, Pools, Threads

(* vaddr_get_pages finds no room, free pages or a full bitmap. *)
LEMMA VaddrGetPages ==
  ASSUME MemoryInv, Apart, NEW t \in Threads, vaddr_get_pages(t)
  PROVE  MemoryInv'
<1> DEFINE sp == space(t)
           len == addr_length(sp)
           n == cnt[t]
           start == bitmap_request_bits(addr_bitmap[sp], len, n)
<1>1. /\ ~ panic /\ t \in active /\ pc[t] = "vaddr" /\ in_call(t)
      /\ page[t] = NULL /\ tab[t] = NULL /\ n \in Nat \ {0}
  <2>1. ~ panic /\ t \in active /\ pc[t] = "vaddr"
    BY DEF vaddr_get_pages, at
  <2>2. page[t] = NULL /\ tab[t] = NULL /\ n > 0
    BY <2>1 DEF MemoryInv, CallPhase
  <2>3. n \in 0..MaxCount
    BY Typed
  <2> QED
    BY <2>1, <2>2, <2>3, MemoryAssumption DEF in_call
<1>2. sp \in Spaces /\ len \in Nat
  BY <1>1, CallSpace, SpaceFacts
<1>3. CASE start = PANIC
  <2>1. panic_spin
    BY <1>3 DEF vaddr_get_pages
  <2>2. Full(addr_bitmap[sp], len)
    BY <1>1, <1>2, <1>3, ManyBits
  <2> QED
    BY <1>2, <2>1, <2>2, Spins
<1>4. CASE start # PANIC
  <2> DEFINE q == IF start = FAIL THEN "unlock" ELSE "vset"
  <2>1. /\ pc' = [pc EXCEPT ![t] = q]
        /\ vaddr' = IF start = FAIL THEN vaddr ELSE [vaddr EXCEPT ![t] = start]
        /\ UNCHANGED <<owners, pool_bitmap, addr_bitmap, pde, pte, type, cnt, page, tab, active,
                       panic>>
    BY <1>4 DEF vaddr_get_pages, goto
  <2>2. q \in PC /\ q \in {"unlock", "vset"}
    BY DEF PC
  <2>3. start # FAIL =>
          /\ start \in Nat /\ start < size(len) /\ start + n - 1 <= size(len)
          /\ \A v \in start..start + n - 1 : v \notin addr_bitmap[sp]
    BY <1>1, <1>2, <1>4, ManyBits
  <2>4. q = "vset" <=> start # FAIL
    OBVIOUS
  <2> HIDE DEF start, q
  <2>5. MemoryTypeOK'
    <3>1. pc' \in [Threads -> PC]
      BY <2>1, <2>2, Typed
    <3> QED
      BY <2>1, <3>1 DEF MemoryInv, MemoryTypeOK
  <2>6. FunctionsOK'
    BY <2>1 DEF MemoryInv, FunctionsOK
  <2>7. CallsLocked'
    BY <1>1, <2>1, <2>2, LocksKept
  <2>8. \A u \in Threads : u # t => CallPhase(u)'
    BY <1>1, <2>1, <2>2, Alone, OthersKept
  <2>9. CallPhase(t)'
    <3>1. /\ pc'[t] = q /\ cnt'[t] = n /\ page'[t] = NULL /\ tab'[t] = NULL
          /\ space(t)' = sp /\ (q = "vset" => vaddr'[t] = start)
      BY <1>1, <2>1, <2>4, Typed DEF space
    <3>2. CASE q = "unlock"
      BY <3>1, <3>2 DEF CallPhase, Mapping
    <3>3. CASE q = "vset"
      <4>1. pending(t)' = start..start + n - 1
        BY <3>1, <3>3 DEF pending
      <4>2. start..start + n - 1 \subseteq VirtPages(sp)
        BY <2>3, <2>4, <3>3, <1>1, <1>2, SpaceFacts
      <4>3. \A v \in start..start + n - 1 : v \notin addr_bitmap'[sp] /\ pte'[sp][v] = NULL
        BY <2>1, <2>3, <2>4, <3>3, <4>2, <1>2 DEF MemoryInv, MappedMarked
      <4>4. start \in Nat /\ start < size(len) /\ n > 0
        BY <2>3, <2>4, <3>3, <1>1
      <4> HIDE DEF sp, n, len
      <4> QED
        BY <3>1, <3>3, <4>1, <4>2, <4>3, <4>4 DEF CallPhase, Mapping, len
    <3> QED
      BY <2>2, <3>2, <3>3
  <2>10. FoundInPool'
    BY <2>1, FoundKept
  <2>11. UserBelowKernel' /\ StackMarked' /\ MappedMarked'
    BY <1>1, <2>1, <2>2, Typed, AddressesKept
  <2>12. OneUse' /\ MarkedWhenTaken'
    BY <1>1, <2>1, <2>2, Typed, FramesKept
  <2>13. PanicOnlyWhenFull'
    BY <1>1, <2>1 DEF PanicOnlyWhenFull
  <2> QED
    BY <2>5, <2>6, <2>7, <2>8, <2>9, <2>10, <2>11, <2>12, <2>13 DEF MemoryInv
<1> QED
  BY <1>3, <1>4

(* vaddr_get_pages marks them.  A process's are below its stack page: they *)
(* end before the page after it and cannot contain it.                     *)
LEMMA VaddrMark ==
  ASSUME MemoryInv, Apart, NEW t \in Threads, vaddr_mark(t)
  PROVE  MemoryInv'
<1> DEFINE sp == space(t)
           set == pending(t)
<1>1. /\ ~ panic /\ t \in active /\ pc[t] = "vset" /\ in_call(t)
      /\ page[t] = NULL /\ tab[t] = NULL /\ cnt[t] > 0 /\ vaddr[t] \in Nat
      /\ set \subseteq VirtPages(sp) /\ vaddr[t] < size(addr_length(sp))
      /\ \A v \in set : v \notin addr_bitmap[sp] /\ pte[sp][v] = NULL
  <2>1. ~ panic /\ t \in active /\ pc[t] = "vset"
    BY DEF vaddr_mark, at
  <2>2. CallPhase(t)
    BY DEF MemoryInv
  <2> QED
    BY <2>1, <2>2 DEF in_call, CallPhase, Mapping
<1>2. sp \in Spaces /\ sp = (IF t \in Procs THEN t ELSE "kernel") /\ cnt[t] \in Nat
  BY <1>1, CallSpace, Typed, MemoryAssumption
<1>3. t \in Procs => set \subseteq 0..stack_page /\ vaddr[t] < stack_page
  <2> SUFFICES ASSUME t \in Procs
               PROVE  set \subseteq 0..stack_page /\ vaddr[t] < stack_page
    OBVIOUS
  <2>1. stack_page \in addr_bitmap[sp] /\ sp = t
    BY <1>1, <1>2 DEF MemoryInv, StackMarked
  <2>2. stack_page \in Nat /\ vaddr[t] < stack_page + 1
    BY <1>1, <2>1, SpaceFacts
  <2>3. stack_page \notin vaddr[t]..vaddr[t] + cnt[t] - 1
    BY <1>1, <2>1 DEF pending
  <2>4. vaddr[t] + cnt[t] - 1 < stack_page
    BY <1>1, <1>2, <2>2, <2>3
  <2> QED
    BY <1>1, <1>2, <2>2, <2>4 DEF pending
<1>4. /\ addr_bitmap' = [addr_bitmap EXCEPT ![sp] = @ \cup set]
      /\ pc' = [pc EXCEPT ![t] = "page"]
      /\ UNCHANGED <<owners, pool_bitmap, pde, pte, type, vaddr, cnt, page, tab, active, panic>>
  <2>1. panic' = FALSE
    BY <1>2, <1>3 DEF vaddr_mark
  <2>2. panic = FALSE
    BY <1>1 DEF MemoryInv, FunctionsOK
  <2> QED
    BY <2>1, <2>2 DEF vaddr_mark, goto, pending
<1> HIDE DEF set
<1>5. /\ addr_bitmap'[sp] = addr_bitmap[sp] \cup set
      /\ \A s \in Spaces : s # sp => addr_bitmap'[s] = addr_bitmap[s]
      /\ \A s \in Spaces : addr_bitmap[s] \subseteq addr_bitmap'[s]
  BY <1>2, <1>4, Typed
<1>6. MemoryTypeOK'
  <2>1. pc' \in [Threads -> PC]
    BY <1>4, Typed DEF PC
  <2>2. \A s \in Spaces : addr_bitmap'[s] \subseteq VirtPages(s)
    BY <1>1, <1>5 DEF MemoryInv, MemoryTypeOK
  <2> QED
    BY <1>4, <2>1, <2>2 DEF MemoryInv, MemoryTypeOK
<1>7. FunctionsOK'
  <2>1. set \subseteq Nat
    BY <1>1, <1>2, SpaceFacts
  <2> QED
    BY <1>2, <1>4, <2>1, Typed DEF MemoryInv, FunctionsOK
<1>8. "page" \in PC
  BY DEF PC
<1>9. CallsLocked'
  BY <1>1, <1>4, <1>8, LocksKept
<1>10. \A u \in Threads : u # t => CallPhase(u)'
  BY <1>1, <1>4, <1>5, <1>8, CallSpace, SpaceFacts, Alone, OthersKept
<1>11. CallPhase(t)'
  <2>1. /\ pc'[t] = "page" /\ cnt'[t] > 0 /\ page'[t] = NULL /\ tab'[t] = NULL
        /\ vaddr'[t] \in Nat
    BY <1>1, <1>4, Typed
  <2>2. space(t)' = sp /\ pending(t)' = set
    BY <1>4 DEF space, pending, set
  <2>3. \A v \in set : v \in addr_bitmap'[sp] /\ pte'[sp][v] = NULL
    BY <1>1, <1>4, <1>5
  <2>4. set \subseteq VirtPages(sp)
    BY <1>1
  <2> HIDE DEF sp
  <2> QED
    BY <2>1, <2>2, <2>3, <2>4 DEF CallPhase, Mapping
<1>12. FoundInPool'
  BY <1>4, FoundKept
<1>13. UserBelowKernel' /\ StackMarked' /\ MappedMarked'
  <2>1. StackMarked'
    BY <1>1, <1>4, <1>5, SpaceFacts, Typed DEF MemoryInv, StackMarked
  <2>2. MappedMarked'
    BY <1>4, <1>5 DEF MemoryInv, MappedMarked
  <2>3. \A p \in Procs : addr_bitmap'[p] \subseteq 0..stack_page
    <3> SUFFICES ASSUME NEW p \in Procs
                 PROVE  addr_bitmap'[p] \subseteq 0..stack_page
      OBVIOUS
    <3>1. addr_bitmap[p] \subseteq 0..stack_page /\ p \in Spaces /\ p # "kernel"
      BY SpaceFacts DEF MemoryInv, UserBelowKernel
    <3>2. CASE p = sp
      BY <1>2, <1>3, <1>5, <3>1, <3>2
    <3>3. CASE p # sp
      BY <1>5, <3>1, <3>3
    <3> QED
      BY <3>2, <3>3
  <2>4. UserBelowKernel'
    BY <2>2, <2>3, SpaceFacts DEF UserBelowKernel, MappedMarked
  <2> QED
    BY <2>1, <2>2, <2>4
<1>14. OneUse' /\ MarkedWhenTaken'
  BY <1>1, <1>4, Typed, FramesKept
<1>15. PanicOnlyWhenFull'
  BY <1>1, <1>4 DEF PanicOnlyWhenFull
<1> QED
  BY <1>6, <1>7, <1>9, <1>10, <1>11, <1>12, <1>13, <1>14, <1>15 DEF MemoryInv

-----------------------------------------------------------------------------
(* A clear bit of a pool's bitmap stands for a frame that nobody uses. *)
LEMMA FreshFrame ==
  ASSUME MemoryInv, NEW p \in Pools, NEW i \in 0..size(pool_length(p)) - 1,
         i \notin pool_bitmap[p]
  PROVE  LET f == phy_addr_start(p) + i
         IN /\ f \in pool_frames(p) /\ f \in PhysPages /\ f # NULL
            /\ ~ mapped(f) /\ ~ is_table(f)
            /\ \A u \in Threads : page[u] = f => pc[u] = "pset"
            /\ \A u \in Threads : tab[u] = f => pc[u] = "tset"
<1> DEFINE f == phy_addr_start(p) + i
<1>1. f \in pool_frames(p)
  BY PoolFacts DEF pool_frames
<1>2. f \in PhysPages /\ f # NULL
  BY <1>1, PoolFacts, MemoryAssumption
<1>3. ~ marked(f)
  <2> SUFFICES ASSUME NEW r \in Pools, NEW j \in pool_bitmap[r], f = phy_addr_start(r) + j
               PROVE  FALSE
    BY DEF marked
  <2>1. j \in 0..size(pool_length(r)) - 1 /\ j \in Nat /\ i \in Nat
    BY PoolFacts, Typed DEF MemoryInv, MemoryTypeOK
  <2>2. f \in pool_frames(r)
    BY <2>1, PoolFacts DEF pool_frames
  <2>3. r = p
    BY <1>1, <2>2, PoolFacts DEF Pools
  <2>4. i = j
    BY <2>1, <2>3, PoolFacts
  <2> QED
    BY <2>3, <2>4
<1> HIDE DEF f
<1>4. /\ ~ mapped(f) /\ ~ is_table(f)
      /\ \A u \in Threads : page[u] = f => pc[u] = "pset"
      /\ \A u \in Threads : tab[u] = f => pc[u] = "tset"
  BY <1>2, <1>3 DEF MemoryInv, MarkedWhenTaken
<1> QED
  BY <1>1, <1>2, <1>4 DEF f

(* bitmap_set_bit on a pool's bitmap marks one frame. *)
LEMMA MarksFrame ==
  ASSUME MemoryInv, NEW p \in Pools, NEW f \in pool_frames(p),
         pool_bitmap' = [pool_bitmap EXCEPT ![p] = bitmap_set_bit(@, f - phy_addr_start(p), 1)]
  PROVE  /\ \A g : marked(g)' <=> marked(g) \/ g = f
         /\ pool_bitmap' \in [Pools -> SUBSET Nat]
         /\ \A r \in Pools : pool_bitmap'[r] \subseteq 0..size(pool_length(r)) - 1
<1> DEFINE b == phy_addr_start(p)
           i == f - b
<1>1. b \in Nat /\ size(pool_length(p)) \in Nat /\ f \in Nat
  BY PoolFacts DEF PhysPages
<1>2. i \in 0..size(pool_length(p)) - 1 /\ i \in Nat /\ f = b + i
  BY <1>1 DEF pool_frames
<1> HIDE DEF i
<1>3. /\ pool_bitmap'[p] = pool_bitmap[p] \cup {i}
      /\ \A r \in Pools : r # p => pool_bitmap'[r] = pool_bitmap[r]
  BY Typed DEF bitmap_set_bit, i
<1>4. pool_bitmap' \in [Pools -> SUBSET Nat]
  <2>1. pool_bitmap[p] \cup {i} \in SUBSET Nat
    BY <1>2, Typed
  <2> QED
    BY <2>1, Typed DEF bitmap_set_bit, i
<1>5. \A r \in Pools : pool_bitmap'[r] \subseteq 0..size(pool_length(r)) - 1
  BY <1>2, <1>3 DEF MemoryInv, MemoryTypeOK
<1>6. ASSUME NEW g
      PROVE  marked(g)' <=> marked(g) \/ g = f
  BY <1>2, <1>3 DEF marked
<1> QED
  BY <1>4, <1>5, <1>6

(* Pages that wait to be mapped wait on while a frame is looked for. *)
LEMMA PendingKept ==
  ASSUME MemoryInv, NEW t \in Threads, pc[t] \in Mapping,
         UNCHANGED <<addr_bitmap, pde, pte, type, vaddr, cnt>>,
         NEW q \in Mapping, pc' = [pc EXCEPT ![t] = q],
         q \in {"table", "tset", "map"} => t \in Procs /\ pde[t][table(vaddr[t])] = NULL,
         q \in {"pset", "bind", "table", "tset", "map"} <=> page'[t] # NULL,
         q \in {"tset", "map"} <=> tab'[t] # NULL
  PROVE  CallPhase(t)'
<1>1. pc'[t] = q /\ space(t)' = space(t) /\ pending(t)' = pending(t)
  BY Typed DEF space, pending
<1>2. /\ cnt[t] > 0 /\ vaddr[t] \in Nat
      /\ pending(t) \subseteq VirtPages(space(t))
      /\ \A v \in pending(t) : v \in addr_bitmap[space(t)] /\ pte[space(t)][v] = NULL
  BY DEF MemoryInv, CallPhase
<1>3. q \in {"page", "pset", "bind", "table", "tset", "map"}
  BY DEF Mapping
<1> QED
  BY <1>1, <1>2, <1>3 DEF CallPhase, Mapping

(* paddr_get_page finds a frame, or the pool is full. *)
LEMMA PaddrGetPage ==
  ASSUME MemoryInv, Apart, NEW t \in Threads, paddr_get_page(t)
  PROVE  MemoryInv'
<1> DEFINE p == type[t]
           i == bitmap_request_bits(pool_bitmap[p], pool_length(p), 1)
           f == phy_addr_start(p) + i
<1>1. /\ ~ panic /\ t \in active /\ pc[t] = "page" /\ in_call(t)
      /\ page[t] = NULL /\ tab[t] = NULL
  BY DEF paddr_get_page, at, in_call, MemoryInv, CallPhase
<1>2. p \in Pools /\ pool_length(p) \in Nat
  BY <1>1, CallSpace, PoolFacts
<1>3. CASE i = PANIC
  <2>1. panic_spin
    BY <1>3 DEF paddr_get_page
  <2>2. Full(pool_bitmap[p], pool_length(p))
    BY <1>2, <1>3, OneBit
  <2> QED
    BY <1>2, <2>1, <2>2, Spins
<1>4. CASE i # PANIC
  <2>1. /\ page' = [page EXCEPT ![t] = f]
        /\ pc' = [pc EXCEPT ![t] = "pset"]
        /\ UNCHANGED <<owners, pool_bitmap, addr_bitmap, pde, pte, type, vaddr, cnt, tab, active,
                       panic>>
    BY <1>4 DEF paddr_get_page, goto
  <2>2. i \in 0..size(pool_length(p)) - 1 /\ i \notin pool_bitmap[p]
    BY <1>2, <1>4, OneBit
  <2>3. /\ f \in pool_frames(p) /\ f \in PhysPages /\ f # NULL
        /\ ~ mapped(f) /\ ~ is_table(f)
    BY <1>2, <2>2, FreshFrame
  <2> HIDE DEF f, i
  <2>4. /\ page'[t] = f /\ pc'[t] = "pset"
        /\ \A u \in Threads : u # t => page'[u] = page[u] /\ pc'[u] = pc[u]
    BY <2>1, Typed
  <2>5. MemoryTypeOK'
    <3>1. pc' \in [Threads -> PC] /\ page' \in [Threads -> PhysPages \cup {NULL}]
      BY <2>1, <2>3, Typed DEF PC
    <3> QED
      BY <2>1, <3>1 DEF MemoryInv, MemoryTypeOK
  <2>6. FunctionsOK'
    BY <2>1 DEF MemoryInv, FunctionsOK
  <2>7. "pset" \in PC /\ "pset" \in Mapping /\ "page" \in Mapping
    BY DEF PC, Mapping
  <2>8. CallsLocked'
    BY <1>1, <2>1, <2>7, LocksKept
  <2>9. \A u \in Threads : u # t => CallPhase(u)'
    BY <1>1, <2>1, <2>4, <2>7, Alone, OthersKept
  <2>10. CallPhase(t)'
    BY <1>1, <2>1, <2>3, <2>4, <2>7, PendingKept
  <2>11. FoundInPool'
    BY <2>1, <2>3, <2>4 DEF MemoryInv, FoundInPool
  <2>12. UserBelowKernel' /\ StackMarked' /\ MappedMarked'
    BY <1>1, <2>1, Typed, AddressesKept
  <2>13. \A g : /\ mapped(g)' <=> mapped(g)
                /\ is_table(g)' <=> is_table(g)
                /\ marked(g)' <=> marked(g)
    BY <2>1 DEF mapped, is_table, marked
  <2>14. OneUse'
    BY <2>1, <2>3, <2>4, <2>13 DEF MemoryInv, OneUse
  <2>15. MarkedWhenTaken'
    <3> SUFFICES ASSUME NEW g \in PhysPages
                 PROVE  marked(g)' <=> \/ mapped(g)'
                                       \/ is_table(g)'
                                       \/ \E u \in Threads : page'[u] = g /\ pc'[u] # "pset"
                                       \/ \E u \in Threads : tab'[u] = g /\ pc'[u] # "tset"
      BY DEF MarkedWhenTaken
    <3>1. g # NULL
      BY MemoryAssumption
    <3>2. (\E u \in Threads : page'[u] = g /\ pc'[u] # "pset")
            <=> \E u \in Threads : page[u] = g /\ pc[u] # "pset"
      BY <1>1, <2>4, <3>1
    <3>3. (\E u \in Threads : tab'[u] = g /\ pc'[u] # "tset")
            <=> \E u \in Threads : tab[u] = g /\ pc[u] # "tset"
      BY <1>1, <2>1, <2>4, <3>1
    <3> QED
      BY <2>13, <3>2, <3>3 DEF MemoryInv, MarkedWhenTaken
  <2>16. PanicOnlyWhenFull'
    BY <1>1, <2>1 DEF PanicOnlyWhenFull
  <2> QED
    BY <2>5, <2>6, <2>8, <2>9, <2>10, <2>11, <2>12, <2>14, <2>15, <2>16 DEF MemoryInv
<1> QED
  BY <1>3, <1>4

(* paddr_get_page marks it. *)
LEMMA PaddrMark ==
  ASSUME MemoryInv, Apart, NEW t \in Threads, paddr_mark(t)
  PROVE  MemoryInv'
<1> DEFINE f == page[t]
<1>1. /\ ~ panic /\ t \in active /\ pc[t] = "pset" /\ in_call(t)
      /\ f # NULL /\ tab[t] = NULL
  BY DEF paddr_mark, at, in_call, MemoryInv, CallPhase
<1>2. type[t] \in Pools /\ f \in pool_frames(type[t])
  BY <1>1, CallSpace DEF MemoryInv, FoundInPool
<1>3. /\ pool_bitmap' = [pool_bitmap EXCEPT ![type[t]] =
                           bitmap_set_bit(@, f - phy_addr_start(type[t]), 1)]
      /\ pc' = [pc EXCEPT ![t] = "bind"]
      /\ UNCHANGED <<owners, addr_bitmap, pde, pte, type, vaddr, cnt, page, tab, active, panic>>
  BY DEF paddr_mark, goto
<1>4. /\ \A g : marked(g)' <=> marked(g) \/ g = f
      /\ pool_bitmap' \in [Pools -> SUBSET Nat]
      /\ \A r \in Pools : pool_bitmap'[r] \subseteq 0..size(pool_length(r)) - 1
  BY <1>2, <1>3, MarksFrame
<1>5. pc'[t] = "bind" /\ \A u \in Threads : u # t => pc'[u] = pc[u]
  BY <1>3, Typed
<1>6. MemoryTypeOK'
  <2>1. pc' \in [Threads -> PC]
    BY <1>3, Typed DEF PC
  <2> QED
    BY <1>3, <1>4, <2>1 DEF MemoryInv, MemoryTypeOK
<1>7. FunctionsOK'
  BY <1>3, <1>4 DEF MemoryInv, FunctionsOK
<1>8. "bind" \in PC /\ "bind" \in Mapping /\ "pset" \in Mapping
  BY DEF PC, Mapping
<1>9. CallsLocked'
  BY <1>1, <1>3, <1>8, LocksKept
<1>10. \A u \in Threads : u # t => CallPhase(u)'
  BY <1>1, <1>3, <1>8, Alone, OthersKept
<1>11. CallPhase(t)'
  BY <1>1, <1>3, <1>8, PendingKept
<1>12. FoundInPool'
  BY <1>3, FoundKept
<1>13. UserBelowKernel' /\ StackMarked' /\ MappedMarked'
  BY <1>1, <1>3, Typed, AddressesKept
<1>14. \A g : (mapped(g)' <=> mapped(g)) /\ (is_table(g)' <=> is_table(g))
  BY <1>3 DEF mapped, is_table
<1>15. OneUse'
  BY <1>3, <1>14 DEF MemoryInv, OneUse
<1>16. MarkedWhenTaken'
  <2> SUFFICES ASSUME NEW g \in PhysPages
               PROVE  marked(g)' <=> \/ mapped(g)'
                                     \/ is_table(g)'
                                     \/ \E u \in Threads : page'[u] = g /\ pc'[u] # "pset"
                                     \/ \E u \in Threads : tab'[u] = g /\ pc'[u] # "tset"
    BY DEF MarkedWhenTaken
  <2>1. g # NULL
    BY MemoryAssumption
  <2>2. (\E u \in Threads : page'[u] = g /\ pc'[u] # "pset")
          <=> g = f \/ \E u \in Threads : page[u] = g /\ pc[u] # "pset"
    BY <1>1, <1>3, <1>5
  <2>3. (\E u \in Threads : tab'[u] = g /\ pc'[u] # "tset")
          <=> \E u \in Threads : tab[u] = g /\ pc[u] # "tset"
    BY <1>1, <1>3, <1>5, <2>1
  <2> QED
    BY <1>4, <1>14, <2>2, <2>3 DEF MemoryInv, MarkedWhenTaken
<1>17. PanicOnlyWhenFull'
  BY <1>1, <1>3 DEF PanicOnlyWhenFull
<1> QED
  BY <1>6, <1>7, <1>9, <1>10, <1>11, <1>12, <1>13, <1>15, <1>16, <1>17 DEF MemoryInv
(* bind_vaddr_paddr_page finds a frame for a page table, or the kernel's  *)
(* pool is full.                                                           *)
LEMMA TableGetPage ==
  ASSUME MemoryInv, Apart, NEW t \in Threads, table_get_page(t)
  PROVE  MemoryInv'
<1> DEFINE p == "kernel"
           i == bitmap_request_bits(pool_bitmap[p], pool_length(p), 1)
           f == phy_addr_start(p) + i
<1>1. /\ ~ panic /\ t \in active /\ pc[t] = "table" /\ in_call(t)
      /\ page[t] # NULL /\ tab[t] = NULL
      /\ t \in Procs /\ pde[t][table(vaddr[t])] = NULL
  BY DEF table_get_page, at, in_call, MemoryInv, CallPhase
<1>2. p \in Pools /\ pool_length(p) \in Nat
  BY PoolFacts DEF Pools
<1>3. CASE i = PANIC
  <2>1. panic_spin
    BY <1>3 DEF table_get_page
  <2>2. Full(pool_bitmap[p], pool_length(p))
    BY <1>2, <1>3, OneBit
  <2> QED
    BY <1>2, <2>1, <2>2, Spins
<1>4. CASE i # PANIC
  <2>1. /\ tab' = [tab EXCEPT ![t] = f]
        /\ pc' = [pc EXCEPT ![t] = "tset"]
        /\ UNCHANGED <<owners, pool_bitmap, addr_bitmap, pde, pte, type, vaddr, cnt, page, active,
                       panic>>
    BY <1>4 DEF table_get_page, goto
  <2>2. i \in 0..size(pool_length(p)) - 1 /\ i \notin pool_bitmap[p]
    BY <1>2, <1>4, OneBit
  <2>3. /\ f \in pool_frames(p) /\ f \in PhysPages /\ f # NULL
        /\ ~ mapped(f) /\ ~ is_table(f)
    BY <1>2, <2>2, FreshFrame
  <2> HIDE DEF f, i
  <2>4. /\ tab'[t] = f /\ pc'[t] = "tset"
        /\ \A u \in Threads : u # t => tab'[u] = tab[u] /\ pc'[u] = pc[u]
    BY <2>1, Typed
  <2>5. MemoryTypeOK'
    <3>1. pc' \in [Threads -> PC] /\ tab' \in [Threads -> PhysPages \cup {NULL}]
      BY <2>1, <2>3, Typed DEF PC
    <3> QED
      BY <2>1, <3>1 DEF MemoryInv, MemoryTypeOK
  <2>6. FunctionsOK'
    BY <2>1 DEF MemoryInv, FunctionsOK
  <2>7. "tset" \in PC /\ "tset" \in Mapping /\ "table" \in Mapping
    BY DEF PC, Mapping
  <2>8. CallsLocked'
    BY <1>1, <2>1, <2>7, LocksKept
  <2>9. \A u \in Threads : u # t => CallPhase(u)'
    BY <1>1, <2>1, <2>4, <2>7, Alone, OthersKept
  <2>10. CallPhase(t)'
    BY <1>1, <2>1, <2>3, <2>4, <2>7, PendingKept
  <2>11. FoundInPool'
    BY <2>1, <2>3, <2>4 DEF MemoryInv, FoundInPool
  <2>12. UserBelowKernel' /\ StackMarked' /\ MappedMarked'
    BY <1>1, <2>1, Typed, AddressesKept
  <2>13. \A g : /\ mapped(g)' <=> mapped(g)
                /\ is_table(g)' <=> is_table(g)
                /\ marked(g)' <=> marked(g)
    BY <2>1 DEF mapped, is_table, marked
  <2>14. OneUse'
    BY <2>1, <2>3, <2>4, <2>13 DEF MemoryInv, OneUse
  <2>15. MarkedWhenTaken'
    <3> SUFFICES ASSUME NEW g \in PhysPages
                 PROVE  marked(g)' <=> \/ mapped(g)'
                                       \/ is_table(g)'
                                       \/ \E u \in Threads : page'[u] = g /\ pc'[u] # "pset"
                                       \/ \E u \in Threads : tab'[u] = g /\ pc'[u] # "tset"
      BY DEF MarkedWhenTaken
    <3>1. g # NULL
      BY MemoryAssumption
    <3>2. (\E u \in Threads : page'[u] = g /\ pc'[u] # "pset")
            <=> \E u \in Threads : page[u] = g /\ pc[u] # "pset"
      BY <1>1, <2>1, <2>4, <3>1
    <3>3. (\E u \in Threads : tab'[u] = g /\ pc'[u] # "tset")
            <=> \E u \in Threads : tab[u] = g /\ pc[u] # "tset"
      BY <1>1, <2>1, <2>4, <3>1
    <3> QED
      BY <2>13, <3>2, <3>3 DEF MemoryInv, MarkedWhenTaken
  <2>16. PanicOnlyWhenFull'
    BY <1>1, <2>1 DEF PanicOnlyWhenFull
  <2> QED
    BY <2>5, <2>6, <2>8, <2>9, <2>10, <2>11, <2>12, <2>14, <2>15, <2>16 DEF MemoryInv
<1> QED
  BY <1>3, <1>4

(* bind_vaddr_paddr_page marks it. *)
LEMMA TableMark ==
  ASSUME MemoryInv, Apart, NEW t \in Threads, table_mark(t)
  PROVE  MemoryInv'
<1> DEFINE f == tab[t]
<1>1. /\ ~ panic /\ t \in active /\ pc[t] = "tset" /\ in_call(t)
      /\ f # NULL /\ page[t] # NULL
      /\ t \in Procs /\ pde[t][table(vaddr[t])] = NULL
  BY DEF table_mark, at, in_call, MemoryInv, CallPhase
<1>2. "kernel" \in Pools /\ f \in pool_frames("kernel")
  BY <1>1 DEF MemoryInv, FoundInPool, Pools
<1>3. /\ pool_bitmap' = [pool_bitmap EXCEPT !["kernel"] =
                           bitmap_set_bit(@, f - phy_addr_start("kernel"), 1)]
      /\ pc' = [pc EXCEPT ![t] = "map"]
      /\ UNCHANGED <<owners, addr_bitmap, pde, pte, type, vaddr, cnt, page, tab, active, panic>>
  BY DEF table_mark, goto
<1>4. /\ \A g : marked(g)' <=> marked(g) \/ g = f
      /\ pool_bitmap' \in [Pools -> SUBSET Nat]
      /\ \A r \in Pools : pool_bitmap'[r] \subseteq 0..size(pool_length(r)) - 1
  BY <1>2, <1>3, MarksFrame
<1>5. pc'[t] = "map" /\ \A u \in Threads : u # t => pc'[u] = pc[u]
  BY <1>3, Typed
<1>6. MemoryTypeOK'
  <2>1. pc' \in [Threads -> PC]
    BY <1>3, Typed DEF PC
  <2> QED
    BY <1>3, <1>4, <2>1 DEF MemoryInv, MemoryTypeOK
<1>7. FunctionsOK'
  BY <1>3, <1>4 DEF MemoryInv, FunctionsOK
<1>8. "map" \in PC /\ "map" \in Mapping /\ "tset" \in Mapping
  BY DEF PC, Mapping
<1>9. CallsLocked'
  BY <1>1, <1>3, <1>8, LocksKept
<1>10. \A u \in Threads : u # t => CallPhase(u)'
  BY <1>1, <1>3, <1>8, Alone, OthersKept
<1>11. CallPhase(t)'
  BY <1>1, <1>3, <1>8, PendingKept
<1>12. FoundInPool'
  BY <1>3, FoundKept
<1>13. UserBelowKernel' /\ StackMarked' /\ MappedMarked'
  BY <1>1, <1>3, Typed, AddressesKept
<1>14. \A g : (mapped(g)' <=> mapped(g)) /\ (is_table(g)' <=> is_table(g))
  BY <1>3 DEF mapped, is_table
<1>15. OneUse'
  BY <1>3, <1>14 DEF MemoryInv, OneUse
<1>16. MarkedWhenTaken'
  <2> SUFFICES ASSUME NEW g \in PhysPages
               PROVE  marked(g)' <=> \/ mapped(g)'
                                     \/ is_table(g)'
                                     \/ \E u \in Threads : page'[u] = g /\ pc'[u] # "pset"
                                     \/ \E u \in Threads : tab'[u] = g /\ pc'[u] # "tset"
    BY DEF MarkedWhenTaken
  <2>1. g # NULL
    BY MemoryAssumption
  <2>2. (\E u \in Threads : page'[u] = g /\ pc'[u] # "pset")
          <=> \E u \in Threads : page[u] = g /\ pc[u] # "pset"
    BY <1>1, <1>3, <1>5
  <2>3. (\E u \in Threads : tab'[u] = g /\ pc'[u] # "tset")
          <=> g = f \/ \E u \in Threads : tab[u] = g /\ pc[u] # "tset"
    BY <1>1, <1>3, <1>5, <2>1
  <2> QED
    BY <1>4, <1>14, <2>2, <2>3 DEF MemoryInv, MarkedWhenTaken
<1>17. PanicOnlyWhenFull'
  BY <1>1, <1>3 DEF PanicOnlyWhenFull
<1> QED
  BY <1>6, <1>7, <1>9, <1>10, <1>11, <1>12, <1>13, <1>15, <1>16, <1>17 DEF MemoryInv

-----------------------------------------------------------------------------
(* bind_vaddr_paddr_page writes the page's entry, whether or not it made a *)
(* page table for it first.                                                *)
LEMMA SetPte ==
  ASSUME MemoryInv, Apart, NEW t \in Threads, ~ panic, pc[t] \in {"bind", "map"}, set_pte(t),
         DOMAIN pde' = Procs,
         \A p \in Procs : pde'[p] \in [{table(v) : v \in VirtPages(p)} -> PhysPages \cup {NULL}],
         tab' \in [Threads -> PhysPages \cup {NULL}],
         tab'[t] = NULL, \A u \in Threads : u # t => tab'[u] = tab[u],
         \A g \in PhysPages : is_table(g)' <=> is_table(g) \/ g = tab[t],
         \A p1, p2 \in Procs : \A i1 \in DOMAIN pde'[p1], i2 \in DOMAIN pde'[p2] :
           pde'[p1][i1] = pde'[p2][i2] /\ pde'[p1][i1] # NULL => p1 = p2 /\ i1 = i2
  PROVE  MemoryInv'
<1> DEFINE sp == space(t)
           v == vaddr[t]
           f == page[t]
           q == IF cnt[t] > 1 THEN "page" ELSE "unlock"
<1>1. /\ in_call(t) /\ f # NULL /\ v \in Nat /\ cnt[t] > 0
      /\ pending(t) \subseteq VirtPages(sp)
      /\ \A w \in pending(t) : w \in addr_bitmap[sp] /\ pte[sp][w] = NULL
      /\ (tab[t] # NULL => t \in Procs)
  <2>1. CallPhase(t)
    BY DEF MemoryInv
  <2> QED
    BY <2>1 DEF CallPhase, Mapping, in_call
<1>2. cnt[t] \in Nat /\ cnt[t] \in 0..MaxCount /\ f \in PhysPages
  BY <1>1, Typed, MemoryAssumption
<1>3. pending(t) = v..v + cnt[t] - 1 /\ v \in pending(t)
  BY <1>1, <1>2 DEF pending
<1>4. /\ sp \in Spaces /\ type[t] \in Pools /\ v \in VirtPages(sp) /\ v \in addr_bitmap[sp]
      /\ pte[sp][v] = NULL /\ type[t] = (IF t \in Procs THEN "user" ELSE "kernel")
  BY <1>1, <1>3, CallSpace
<1>5. /\ pte' = [pte EXCEPT ![sp][v] = f]
      /\ vaddr' = [vaddr EXCEPT ![t] = @ + 1]
      /\ cnt' = [cnt EXCEPT ![t] = @ - 1]
      /\ page' = [page EXCEPT ![t] = NULL]
      /\ pc' = [pc EXCEPT ![t] = q]
      /\ UNCHANGED <<owners, pool_bitmap, addr_bitmap, type, active, panic>>
  BY DEF set_pte, goto
<1>6. q \in PC /\ q \in {"page", "unlock"}
  BY DEF PC
<1>7. \A u \in Threads : u # t => ~ in_call(u) /\ page[u] = NULL /\ tab[u] = NULL
  <2>1. \A u \in Threads : u # t => ~ in_call(u)
    BY <1>1, Alone
  <2> QED
    BY <2>1 DEF MemoryInv, CallPhase, in_call
<1>8. /\ DOMAIN pte' = Spaces
      /\ \A s \in Spaces : /\ pte'[s] \in [VirtPages(s) -> PhysPages \cup {NULL}]
                           /\ \A w \in VirtPages(s) :
                                pte'[s][w] = IF s = sp /\ w = v THEN f ELSE pte[s][w]
  <2>1. DOMAIN pte = Spaces /\ \A s \in Spaces : pte[s] \in [VirtPages(s) -> PhysPages \cup {NULL}]
    BY Typed DEF MemoryInv, MemoryTypeOK
  <2> HIDE DEF sp, v, f
  <2> QED
    BY <1>2, <1>4, <1>5, <2>1
<1> HIDE DEF sp, v, f, q
<1>9. \A u \in Threads : page'[u] = NULL /\ tab'[u] = NULL
  BY <1>5, <1>7, Typed
<1>10. MemoryTypeOK'
  <2>1. /\ pc' \in [Threads -> PC]
        /\ page' \in [Threads -> PhysPages \cup {NULL}]
    BY <1>5, <1>6, Typed
  <2>2. cnt[t] - 1 \in 0..MaxCount
    BY <1>1, <1>2, MemoryAssumption
  <2>3. cnt' \in [Threads -> 0..MaxCount]
    BY <1>5, <2>2, Typed
  <2> QED
    BY <1>5, <1>8, <2>1, <2>3 DEF MemoryInv, MemoryTypeOK
<1>11. FunctionsOK'
  BY <1>5, <1>8 DEF MemoryInv, FunctionsOK
<1>12. CallsLocked'
  BY <1>1, <1>5, <1>6, LocksKept
<1>13. \A u \in Threads : u # t => CallPhase(u)'
  BY <1>5, <1>6, <1>7, <1>9, OthersKept, ZenonT(60)
<1>14. CallPhase(t)'
  <2>1. /\ pc'[t] = q /\ vaddr'[t] = v + 1 /\ cnt'[t] = cnt[t] - 1 /\ page'[t] = NULL
        /\ tab'[t] = NULL /\ space(t)' = sp
    BY <1>5, <1>9, Typed DEF space, sp, v
  <2>2. CASE q = "unlock"
    BY <2>1, <2>2 DEF CallPhase, Mapping
  <2>3. CASE q = "page"
    <3>1. cnt[t] > 1
      BY <2>3 DEF q
    <3>2. pending(t)' = v + 1..(v + 1) + (cnt[t] - 1) - 1
      BY <2>1 DEF pending
    <3>3. \A w \in pending(t)' : w \in pending(t) /\ w # v
      BY <3>2, <1>1, <1>2, <1>3
    <3>4. pending(t)' \subseteq VirtPages(sp)
      BY <3>3, <1>1 DEF sp
    <3>5. \A w \in pending(t)' : w \in addr_bitmap'[sp] /\ pte'[sp][w] = NULL
      BY <3>3, <3>4, <1>1, <1>4, <1>5, <1>8 DEF sp
    <3>6. vaddr'[t] \in Nat /\ cnt'[t] > 0
      BY <2>1, <3>1, <1>1, <1>2 DEF v
    <3> QED
      BY <2>1, <2>3, <3>4, <3>5, <3>6 DEF CallPhase, Mapping
  <2> QED
    BY <1>6, <2>2, <2>3
<1>15. FoundInPool'
  BY <1>9 DEF FoundInPool
<1>16. UserBelowKernel' /\ StackMarked' /\ MappedMarked'
  <2>1. StackMarked'
    BY <1>1, <1>5, <1>6, Typed DEF MemoryInv, StackMarked
  <2>2. MappedMarked'
    BY <1>4, <1>5, <1>8 DEF MemoryInv, MappedMarked
  <2>3. UserBelowKernel'
    BY <2>2, <1>5, SpaceFacts DEF MemoryInv, UserBelowKernel, MappedMarked
  <2> QED
    BY <2>1, <2>2, <2>3
<1>17. \A g \in PhysPages : mapped(g)' <=> mapped(g) \/ g = f
  BY <1>4, <1>8, MemoryAssumption DEF mapped
<1>18. ~ mapped(f) /\ ~ is_table(f) /\ f # tab[t]
  <2>1. ~ mapped(f) /\ ~ is_table(f)
    BY <1>1 DEF MemoryInv, OneUse, f
  <2>2. f # tab[t]
    <3> SUFFICES ASSUME f = tab[t]
                 PROVE  FALSE
      OBVIOUS
    <3>1. tab[t] # NULL /\ page[t] # NULL
      BY <1>1 DEF f
    <3>2. tab[t] \in pool_frames("kernel") /\ page[t] \in pool_frames("user")
      BY <3>1, <1>1, <1>4 DEF MemoryInv, FoundInPool
    <3> QED
      BY <3>2, PoolFacts DEF f
  <2> QED
    BY <2>1, <2>2
<1>19. OneUse'
  <2>1. \A s1, s2 \in Spaces : \A v1 \in VirtPages(s1), v2 \in VirtPages(s2) :
          pte'[s1][v1] = pte'[s2][v2] /\ pte'[s1][v1] # NULL => s1 = s2 /\ v1 = v2
    BY <1>8, <1>18 DEF MemoryInv, OneUse, mapped
  <2>2. \A g \in PhysPages : ~ (mapped(g)' /\ is_table(g)')
    <3> SUFFICES ASSUME NEW g \in PhysPages, mapped(g)', is_table(g)'
                 PROVE  FALSE
      OBVIOUS
    <3>1. (mapped(g) \/ g = f) /\ (is_table(g) \/ g = tab[t]) /\ g # NULL
      BY <1>17, MemoryAssumption
    <3>2. g = tab[t] => ~ mapped(g)
      BY <3>1 DEF MemoryInv, OneUse
    <3>3. ~ (mapped(g) /\ is_table(g))
      BY DEF MemoryInv, OneUse
    <3> QED
      BY <3>1, <3>2, <3>3, <1>18
  <2> QED
    BY <1>9, <2>1, <2>2 DEF OneUse
<1>20. MarkedWhenTaken'
  <2> SUFFICES ASSUME NEW g \in PhysPages
               PROVE  marked(g)' <=> \/ mapped(g)'
                                     \/ is_table(g)'
                                     \/ \E u \in Threads : page'[u] = g /\ pc'[u] # "pset"
                                     \/ \E u \in Threads : tab'[u] = g /\ pc'[u] # "tset"
    BY DEF MarkedWhenTaken
  <2>1. g # NULL
    BY MemoryAssumption
  <2>2. /\ ~ \E u \in Threads : page'[u] = g /\ pc'[u] # "pset"
        /\ ~ \E u \in Threads : tab'[u] = g /\ pc'[u] # "tset"
    BY <1>9, <2>1
  <2>3. (\E u \in Threads : page[u] = g /\ pc[u] # "pset") <=> g = f
    BY <1>7, <2>1 DEF f
  <2>4. (\E u \in Threads : tab[u] = g /\ pc[u] # "tset") <=> g = tab[t]
    BY <1>7, <2>1
  <2>5. marked(g)' <=> marked(g)
    BY <1>5 DEF marked
  <2> QED
    BY <2>2, <2>3, <2>4, <2>5, <1>17 DEF MemoryInv, MarkedWhenTaken
<1>21. PanicOnlyWhenFull'
  BY <1>5 DEF PanicOnlyWhenFull
<1> QED
  BY <1>10, <1>11, <1>12, <1>13, <1>14, <1>15, <1>16, <1>19, <1>20, <1>21 DEF MemoryInv

(* bind_vaddr_paddr_page: the entry is free, so the assertion holds. *)
LEMMA BindPage ==
  ASSUME MemoryInv, Apart, NEW t \in Threads, bind_vaddr_paddr_page(t)
  PROVE  MemoryInv'
<1> DEFINE sp == space(t)
<1>1. ~ panic /\ t \in active /\ pc[t] = "bind"
  BY DEF bind_vaddr_paddr_page, at
<1>2. /\ in_call(t) /\ page[t] # NULL /\ tab[t] = NULL /\ vaddr[t] \in Nat /\ cnt[t] > 0
      /\ \A w \in pending(t) : pte[sp][w] = NULL
  <2>1. CallPhase(t)
    BY DEF MemoryInv
  <2> QED
    BY <1>1, <2>1 DEF CallPhase, Mapping, in_call
<1>3. pte[sp][vaddr[t]] = NULL
  <2>1. cnt[t] \in Nat
    BY Typed, MemoryAssumption
  <2>2. vaddr[t] \in pending(t)
    BY <1>2, <2>1 DEF pending
  <2> QED
    BY <1>2, <2>2
<1>4. CASE has_table(t)
  <2>1. set_pte(t) /\ UNCHANGED <<pde, tab>>
    BY <1>3, <1>4 DEF bind_vaddr_paddr_page
  <2>2. \A g \in PhysPages : is_table(g)' <=> is_table(g) \/ g = tab[t]
    BY <1>2, <2>1, MemoryAssumption DEF is_table
  <2>3. /\ DOMAIN pde' = Procs
        /\ \A p \in Procs : pde'[p] \in [{table(v) : v \in VirtPages(p)} -> PhysPages \cup {NULL}]
        /\ tab' \in [Threads -> PhysPages \cup {NULL}]
        /\ tab'[t] = NULL /\ \A u \in Threads : u # t => tab'[u] = tab[u]
    BY <1>2, <2>1, Typed DEF MemoryInv, MemoryTypeOK
  <2>4. \A p1, p2 \in Procs : \A i1 \in DOMAIN pde'[p1], i2 \in DOMAIN pde'[p2] :
          pde'[p1][i1] = pde'[p2][i2] /\ pde'[p1][i1] # NULL => p1 = p2 /\ i1 = i2
    BY <2>1 DEF MemoryInv, OneUse
  <2> QED
    BY <1>1, <2>1, <2>2, <2>3, <2>4, SetPte
<1>5. CASE ~ has_table(t)
  <2>1. /\ pc' = [pc EXCEPT ![t] = "table"]
        /\ UNCHANGED <<owners, pool_bitmap, addr_bitmap, pde, pte, type, vaddr, cnt, page, tab,
                       active, panic>>
    BY <1>5 DEF bind_vaddr_paddr_page, goto
  <2>2. t \in Procs /\ pde[t][table(vaddr[t])] = NULL
    BY <1>2, <1>5, CallSpace DEF has_table
  <2>3. "table" \in PC /\ "table" \in Mapping /\ "bind" \in Mapping
    BY DEF PC, Mapping
  <2>4. MemoryTypeOK'
    <3>1. pc' \in [Threads -> PC]
      BY <2>1, <2>3, Typed
    <3> QED
      BY <2>1, <3>1 DEF MemoryInv, MemoryTypeOK
  <2>5. FunctionsOK'
    BY <2>1 DEF MemoryInv, FunctionsOK
  <2>6. CallsLocked'
    BY <1>2, <2>1, <2>3, LocksKept
  <2>7. \A u \in Threads : u # t => CallPhase(u)'
    BY <1>2, <2>1, <2>3, Alone, OthersKept
  <2>8. CallPhase(t)'
    BY <1>1, <1>2, <2>1, <2>2, <2>3, PendingKept
  <2>9. FoundInPool'
    BY <2>1, FoundKept
  <2>10. UserBelowKernel' /\ StackMarked' /\ MappedMarked'
    BY <1>1, <2>1, Typed, AddressesKept
  <2>11. OneUse' /\ MarkedWhenTaken'
    BY <1>1, <2>1, Typed, FramesKept
  <2>12. PanicOnlyWhenFull'
    BY <1>1, <2>1 DEF PanicOnlyWhenFull
  <2> QED
    BY <2>4, <2>5, <2>6, <2>7, <2>8, <2>9, <2>10, <2>11, <2>12 DEF MemoryInv
<1> QED
  BY <1>4, <1>5

(* bind_vaddr_paddr_page enters the new page table and then the page. *)
LEMMA TableMap ==
  ASSUME MemoryInv, Apart, NEW t \in Threads, table_map(t)
  PROVE  MemoryInv'
<1> DEFINE d == table(vaddr[t])
           f == tab[t]
<1>1. /\ ~ panic /\ pc[t] = "map" /\ pde' = [pde EXCEPT ![t][d] = f]
      /\ tab' = [tab EXCEPT ![t] = NULL] /\ set_pte(t)
  BY DEF table_map, at
<1>2. /\ in_call(t) /\ f # NULL /\ vaddr[t] \in Nat /\ cnt[t] > 0
      /\ pending(t) \subseteq VirtPages(space(t)) /\ t \in Procs /\ pde[t][d] = NULL
  <2>1. CallPhase(t)
    BY DEF MemoryInv
  <2> QED
    BY <1>1, <2>1 DEF CallPhase, Mapping, in_call
<1>3. f \in PhysPages /\ ~ mapped(f) /\ ~ is_table(f)
  BY <1>2, Typed DEF MemoryInv, OneUse
<1>4. d \in {table(v) : v \in VirtPages(t)}
  <2>1. cnt[t] \in Nat
    BY Typed, MemoryAssumption
  <2>2. vaddr[t] \in pending(t)
    BY <1>2, <2>1 DEF pending
  <2> QED
    BY <1>2, <2>2, CallSpace
<1>5. /\ DOMAIN pde = Procs
      /\ \A p \in Procs : pde[p] \in [{table(v) : v \in VirtPages(p)} -> PhysPages \cup {NULL}]
  BY Typed DEF MemoryInv, MemoryTypeOK
<1> HIDE DEF d, f
<1>6. /\ DOMAIN pde' = Procs
      /\ \A p \in Procs : pde'[p] \in [{table(v) : v \in VirtPages(p)} -> PhysPages \cup {NULL}]
  BY <1>1, <1>2, <1>3, <1>4, <1>5
<1>7. \A p \in Procs : /\ DOMAIN pde'[p] = DOMAIN pde[p]
                       /\ \A i \in DOMAIN pde[p] :
                            pde'[p][i] = IF p = t /\ i = d THEN f ELSE pde[p][i]
  BY <1>1, <1>2, <1>4, <1>5
<1>8. d \in DOMAIN pde[t]
  BY <1>2, <1>4, <1>5
<1>9. \A g \in PhysPages : is_table(g)' <=> is_table(g) \/ g = tab[t]
  <2> SUFFICES ASSUME NEW g \in PhysPages
               PROVE  is_table(g)' <=> is_table(g) \/ g = f
    BY DEF f
  <2>1. g # NULL
    BY MemoryAssumption
  <2> QED
    BY <1>2, <1>7, <1>8, <2>1 DEF is_table
<1>10. \A p1, p2 \in Procs : \A i1 \in DOMAIN pde'[p1], i2 \in DOMAIN pde'[p2] :
         pde'[p1][i1] = pde'[p2][i2] /\ pde'[p1][i1] # NULL => p1 = p2 /\ i1 = i2
  BY <1>3, <1>7 DEF MemoryInv, OneUse, is_table
<1>11. /\ tab' \in [Threads -> PhysPages \cup {NULL}]
       /\ tab'[t] = NULL /\ \A u \in Threads : u # t => tab'[u] = tab[u]
  BY <1>1, Typed
<1> QED
  BY <1>1, <1>6, <1>9, <1>10, <1>11, SetPte

(* The end of a call gives the lock back. *)
LEMMA Returns ==
  ASSUME MemoryInv, Apart, NEW t \in Threads, return(t)
  PROVE  MemoryInv'
<1>1. /\ ~ panic /\ pc[t] = "unlock" /\ in_call(t) /\ page[t] = NULL /\ tab[t] = NULL
  BY DEF return, at, in_call, MemoryInv, CallPhase
<1>2. /\ owners' = [owners EXCEPT ![type[t]] = @ \ {t}]
      /\ cnt' = [cnt EXCEPT ![t] = 0]
      /\ vaddr' = [vaddr EXCEPT ![t] = NULL]
      /\ type' = [type EXCEPT ![t] = NULL]
      /\ pc' = [pc EXCEPT ![t] = "idle"]
      /\ UNCHANGED <<pool_bitmap, addr_bitmap, pde, pte, page, tab, active, panic>>
  BY DEF return, lock_release, goto
<1>3. \A u \in Threads : u # t => ~ in_call(u)
  BY <1>1, Alone
<1>4. type[t] \in Pools /\ "idle" \in PC
  BY <1>1, CallSpace DEF PC
<1>5. MemoryTypeOK'
  <2>1. /\ owners' \in [Pools -> SUBSET Threads] /\ pc' \in [Threads -> PC]
        /\ type' \in [Threads -> Pools \cup {NULL}]
    BY <1>2, <1>4, Typed
  <2>2. 0 \in 0..MaxCount
    BY MemoryAssumption
  <2>3. cnt' \in [Threads -> 0..MaxCount]
    BY <1>2, <2>2, Typed
  <2> QED
    BY <1>2, <2>1, <2>3 DEF MemoryInv, MemoryTypeOK
<1>6. FunctionsOK'
  BY <1>2 DEF MemoryInv, FunctionsOK
<1>7. CallsLocked'
  <2>1. \A u \in Threads : ~ in_call(u)'
    BY <1>2, <1>3, Typed DEF in_call
  <2>2. \A p \in Pools : owners'[p] \subseteq owners[p]
    BY <1>2, <1>4, Typed
  <2> QED
    BY <2>1, <2>2 DEF MemoryInv, CallsLocked
<1>8. \A u \in Threads : u # t => CallPhase(u)'
  BY <1>2, <1>3, <1>4, OthersKept
<1>9. CallPhase(t)'
  <2>1. pc'[t] = "idle" /\ page'[t] = NULL /\ tab'[t] = NULL
    BY <1>1, <1>2, Typed
  <2> QED
    BY <2>1 DEF CallPhase, Mapping
<1>10. FoundInPool'
  BY <1>1, <1>2, Typed, FoundKept
<1>11. UserBelowKernel' /\ StackMarked' /\ MappedMarked'
  BY <1>1, <1>2, Typed, AddressesKept
<1>12. OneUse' /\ MarkedWhenTaken'
  BY <1>1, <1>2, Typed, FramesKept
<1>13. PanicOnlyWhenFull'
  BY <1>1, <1>2 DEF PanicOnlyWhenFull
<1> QED
  BY <1>5, <1>6, <1>7, <1>8, <1>9, <1>10, <1>11, <1>12, <1>13 DEF MemoryInv

-----------------------------------------------------------------------------
(* Nothing is mapped and nobody has called before the first call. *)
LEMMA MemoryStarts ==
  ASSUME Init
  PROVE  MemoryInv
<1> USE SpaceFacts, PoolFacts
<1>1. PICK past \in SUBSET {size(addr_length("kernel"))} :
        addr_bitmap = [s \in Spaces |-> IF s = "kernel" THEN bitmap_init \cup past
                                                       ELSE bitmap_init]
  BY DEF Init
<1>2. /\ addr_bitmap["kernel"] \subseteq {size(addr_length("kernel"))}
      /\ \A p \in Procs : addr_bitmap[p] = {}
      /\ addr_bitmap \in [Spaces -> SUBSET Nat]
  BY <1>1 DEF bitmap_init
<1>3. /\ owners = [p \in Pools |-> {}]
      /\ pool_bitmap = [p \in Pools |-> {}]
      /\ \A p \in Procs : pde[p] = [i \in {table(v) : v \in VirtPages(p)} |-> NULL]
      /\ \A s \in Spaces : pte[s] = [v \in VirtPages(s) |-> NULL]
      /\ pc = [t \in Threads |-> IF t \in Procs THEN "start" ELSE "idle"]
      /\ type = [t \in Threads |-> NULL]
      /\ vaddr = [t \in Threads |-> NULL] /\ cnt = [t \in Threads |-> 0]
      /\ page = [t \in Threads |-> NULL] /\ tab = [t \in Threads |-> NULL]
      /\ active \in Allocators /\ panic = FALSE
      /\ DOMAIN pde = Procs /\ DOMAIN pte = Spaces
  BY DEF Init, L!Init, bitmap_init
<1>4. MemoryTypeOK
  <2>1. \A s \in Spaces : addr_bitmap[s] \subseteq VirtPages(s)
    <3>1. size(addr_length("kernel")) \in VirtPages("kernel")
      OBVIOUS
    <3> QED
      BY <1>2, <3>1 DEF Spaces
  <2>2. 0 \in 0..MaxCount
    BY MemoryAssumption
  <2>3. /\ owners \in [Pools -> SUBSET Threads] /\ pc \in [Threads -> PC]
        /\ type \in [Threads -> Pools \cup {NULL}]
    BY <1>3 DEF PC
  <2>4. /\ cnt \in [Threads -> 0..MaxCount]
        /\ page \in [Threads -> PhysPages \cup {NULL}]
        /\ tab \in [Threads -> PhysPages \cup {NULL}]
    BY <1>3, <2>2
  <2>5. ASSUME NEW p \in Procs
        PROVE  pde[p] \in [{table(v) : v \in VirtPages(p)} -> PhysPages \cup {NULL}]
    <3> DEFINE T == {table(v) : v \in VirtPages(p)}
    <3>1. pde[p] = [i \in T |-> NULL]
      BY ONLY <1>3, p \in Procs
    <3> HIDE DEF T
    <3>2. pde[p] \in [T -> PhysPages \cup {NULL}]
      BY ONLY <3>1
    <3> QED
      BY <3>2 DEF T
  <2>6. \A s \in Spaces : pte[s] \in [VirtPages(s) -> PhysPages \cup {NULL}]
    BY ONLY <1>3
  <2>7. \A p \in Pools : pool_bitmap[p] \subseteq 0..size(pool_length(p)) - 1
    BY ONLY <1>3
  <2> QED
    BY ONLY <2>1, <2>3, <2>4, <2>5, <2>6, <2>7 DEF MemoryTypeOK
<1>5. FunctionsOK
  BY <1>2, <1>3 DEF FunctionsOK
<1>6. CallsLocked /\ FoundInPool
  BY <1>3 DEF CallsLocked, FoundInPool, in_call
<1>7. \A t \in Threads : CallPhase(t)
  BY <1>2, <1>3 DEF CallPhase, Mapping
<1>8. UserBelowKernel /\ StackMarked /\ MappedMarked
  BY <1>2, <1>3, MemoryAssumption DEF UserBelowKernel, StackMarked, MappedMarked, Threads
<1>9. /\ \A s \in Spaces : \A v \in VirtPages(s) : pte[s][v] = NULL
      /\ \A p \in Procs : \A i \in DOMAIN pde[p] : pde[p][i] = NULL
      /\ \A p \in Pools : pool_bitmap[p] = {}
      /\ \A t \in Threads : page[t] = NULL /\ tab[t] = NULL
  <2>1. ASSUME NEW p \in Procs, NEW i \in DOMAIN pde[p]
        PROVE  pde[p][i] = NULL
    <3> DEFINE T == {table(v) : v \in VirtPages(p)}
    <3>1. pde[p] = [j \in T |-> NULL]
      BY ONLY <1>3, p \in Procs
    <3> HIDE DEF T
    <3> QED
      BY ONLY <3>1, i \in DOMAIN pde[p]
  <2>2. /\ \A s \in Spaces : \A v \in VirtPages(s) : pte[s][v] = NULL
        /\ \A p \in Pools : pool_bitmap[p] = {}
        /\ \A t \in Threads : page[t] = NULL /\ tab[t] = NULL
    BY ONLY <1>3
  <2> QED
    BY <2>1, <2>2
<1>10. ASSUME NEW f \in PhysPages
       PROVE  ~ mapped(f) /\ ~ is_table(f) /\ ~ marked(f)
  <2>1. f # NULL
    BY MemoryAssumption
  <2> QED
    BY ONLY <2>1, <1>9 DEF mapped, is_table, marked
<1>11. OneUse
  BY ONLY <1>9, <1>10 DEF OneUse
<1>12. MarkedWhenTaken
  BY ONLY <1>9, <1>10, MemoryAssumption DEF MarkedWhenTaken
<1>13. PanicOnlyWhenFull
  BY <1>3 DEF PanicOnlyWhenFull
<1> QED
  BY <1>4, <1>5, <1>6, <1>7, <1>8, <1>11, <1>12, <1>13 DEF MemoryInv

(* Every step of memory.c keeps the invariant. *)
LEMMA MemoryStep ==
  ASSUME MemoryInv, Apart, [Next]_vars
  PROVE  MemoryInv'
<1>1. ASSUME NEW t \in Threads, NEW n \in 1..MaxCount,
             malloc_kernel_pages(t, n) \/ malloc_user_pages(t, n)
      PROVE  MemoryInv'
  <2> DEFINE p == IF t \in Procs THEN "user" ELSE "kernel"
  <2>1. malloc(t, p, n) /\ p \in Pools
    BY <1>1, MemoryAssumption DEF malloc_kernel_pages, malloc_user_pages, Pools
  <2>2. "vaddr" \in {"vaddr", "get"}
    OBVIOUS
  <2> HIDE DEF p
  <2> QED
    BY <2>1, <2>2, Enters DEF malloc, at, lock_acquire, L!Acquire, goto, p
<1>2. ASSUME NEW t \in Threads, get_a_page(t)
      PROVE  MemoryInv'
  <2>1. pc[t] = "start" /\ t \in Procs
    BY <1>2 DEF get_a_page, at, MemoryInv, CallPhase
  <2>2. 1 \in 1..MaxCount /\ "user" \in Pools /\ "get" \in {"vaddr", "get"}
    BY MemoryAssumption DEF Pools
  <2> QED
    BY <1>2, <2>1, <2>2, Enters DEF get_a_page, at, lock_acquire, L!Acquire, goto
<1>3. ASSUME NEW t \in Threads, step(t)
      PROVE  MemoryInv'
  BY <1>3, GetAPageMark, VaddrGetPages, VaddrMark, PaddrGetPage, PaddrMark, BindPage,
     TableGetPage, TableMark, TableMap, Returns DEF step
<1>4. CASE UNCHANGED vars
  <2>1. UNCHANGED <<owners, pool_bitmap, addr_bitmap, pde, pte, pc, type, vaddr, cnt, page, tab,
                    active, panic>>
    BY <1>4 DEF vars, locals
  <2>2. MemoryTypeOK' /\ FunctionsOK'
    BY <2>1 DEF MemoryInv, MemoryTypeOK, FunctionsOK
  <2>3. CallsLocked' /\ FoundInPool'
    BY <2>1 DEF MemoryInv, CallsLocked, FoundInPool, in_call
  <2>4. \A t \in Threads : CallPhase(t)'
    BY <2>1 DEF MemoryInv, CallPhase, space, pending
  <2>5. UserBelowKernel' /\ StackMarked' /\ MappedMarked'
    BY <2>1, AddressesKept
  <2>6. OneUse' /\ MarkedWhenTaken'
    BY <2>1, FramesKept
  <2>7. PanicOnlyWhenFull'
    BY <2>1 DEF MemoryInv, PanicOnlyWhenFull
  <2> QED
    BY <2>2, <2>3, <2>4, <2>5, <2>6, <2>7 DEF MemoryInv
<1> QED
  BY <1>1, <1>2, <1>3, <1>4 DEF Next

(* The allocator's inductive invariant: callers exclude each other, the    *)
(* pages a call has set aside are marked and not yet mapped, and a frame   *)
(* has one use and is marked from its first on.                            *)
THEOREM MemorySafe ==
  ASSUME Apart
  PROVE  Spec => []MemoryInv
<1>1. Init => MemoryInv
  BY MemoryStarts
<1>2. MemoryInv /\ [Next]_vars => MemoryInv'
  BY MemoryStep
<1> QED
  BY <1>1, <1>2, PTL DEF Spec

(* Every variable of the allocator has its type. *)
THEOREM MemoryTypes ==
  ASSUME Apart
  PROVE  Spec => []MemoryTypeOK
<1>1. MemoryInv => MemoryTypeOK
  BY DEF MemoryInv
<1> QED
  BY <1>1, MemorySafe, PTL

(* Nothing of a process is mapped or marked at the kernel's addresses. *)
THEOREM MemoryBelowKernel ==
  ASSUME Apart
  PROVE  Spec => []UserBelowKernel
<1>1. MemoryInv => UserBelowKernel
  BY DEF MemoryInv
<1> QED
  BY <1>1, MemorySafe, PTL

(* The assertions of memory.c fail only with a full bitmap. *)
THEOREM MemoryPanics ==
  ASSUME Apart
  PROVE  Spec => []PanicOnlyWhenFull
<1>1. MemoryInv => PanicOnlyWhenFull
  BY DEF MemoryInv
<1> QED
  BY <1>1, MemorySafe, PTL

(* What is marked in the pools is what is in use. *)
LEMMA MarkedIsTaken ==
  ASSUME MemoryInv
  PROVE  NoPageLost
<1>1. ASSUME NEW f
      PROVE  f \in Marked <=> marked(f)
  BY DEF Marked, marked
<1>2. ASSUME NEW f
      PROVE  f \in Taken <=> \/ mapped(f)
                             \/ is_table(f)
                             \/ \E t \in Threads : page[t] = f /\ pc[t] # "pset"
                             \/ \E t \in Threads : tab[t] = f /\ pc[t] # "tset"
  <2> DEFINE A == mapped_frames
             B == table_frames
             C == {page[t] : t \in {u \in Threads : pc[u] # "pset"}}
             D == {tab[t] : t \in {u \in Threads : pc[u] # "tset"}}
  <2>1. f \in A <=> mapped(f)
    BY DEF mapped, mapped_frames
  <2>2. f \in B <=> is_table(f)
    BY DEF is_table, table_frames
  <2>3. f \in C <=> \E t \in Threads : page[t] = f /\ pc[t] # "pset"
    OBVIOUS
  <2>4. f \in D <=> \E t \in Threads : tab[t] = f /\ pc[t] # "tset"
    OBVIOUS
  <2>5. f \in Taken <=> f \in A \/ f \in B \/ f \in C \/ f \in D
    BY DEF Taken
  <2> HIDE DEF A, B, C, D
  <2> QED
    BY <2>1, <2>2, <2>3, <2>4, <2>5
<1>3. ASSUME NEW f, marked(f)
      PROVE  f \in PhysPages /\ f # NULL
  <2>1. PICK p \in Pools : \E j \in pool_bitmap[p] : f = phy_addr_start(p) + j
    BY <1>3 DEF marked
  <2>2. PICK i \in pool_bitmap[p] : f = phy_addr_start(p) + i
    BY <2>1
  <2>3. i \in 0..size(pool_length(p)) - 1
    BY DEF MemoryInv, MemoryTypeOK
  <2>4. f \in pool_frames(p)
    BY <2>2, <2>3, PoolFacts DEF pool_frames
  <2> QED
    BY <2>4, PoolFacts, MemoryAssumption
<1>4. ASSUME NEW f \in Taken, f # NULL
      PROVE  f \in PhysPages
  <2>1. \/ mapped(f)
        \/ is_table(f)
        \/ \E t \in Threads : page[t] = f
        \/ \E t \in Threads : tab[t] = f
    BY <1>2
  <2>2. mapped(f) => f \in PhysPages
    BY <1>4 DEF mapped, MemoryInv, MemoryTypeOK
  <2>3. is_table(f) => f \in PhysPages
    <3> SUFFICES ASSUME NEW p \in Procs, NEW i \in DOMAIN pde[p], pde[p][i] = f
                 PROVE  f \in PhysPages
      BY DEF is_table
    <3> DEFINE T == {table(v) : v \in VirtPages(p)}
    <3>1. pde[p] \in [T -> PhysPages \cup {NULL}]
      BY DEF MemoryInv, MemoryTypeOK
    <3> HIDE DEF T
    <3> QED
      BY <1>4, <3>1
  <2> QED
    BY <1>4, <2>1, <2>2, <2>3, Typed
<1>5. ASSUME NEW f \in PhysPages
      PROVE  f \in Marked <=> f \in Taken
  BY <1>1, <1>2 DEF MemoryInv, MarkedWhenTaken
<1> QED
  BY <1>1, <1>3, <1>4, <1>5, MemoryAssumption DEF NoPageLost

(* No call of the allocator loses a physical page. *)
THEOREM MemoryKept ==
  ASSUME Apart
  PROVE  Spec => []NoPageLost
<1>1. MemoryInv => NoPageLost
  BY MarkedIsTaken
<1> QED
  BY <1>1, MemorySafe, PTL

(* A frame's uses are one at most: callers exclude each other, so that the *)
(* frames found and not yet entered are of one call.                       *)
LEMMA UsesOne ==
  ASSUME MemoryInv, Apart, NEW f \in PhysPages
  PROVE  Cardinality(Uses(f)) <= 1
<1> DEFINE A == as_page(f)
           B == as_table(f)
           C == {<<"page", t>> : t \in {u \in Threads : page[u] = f}}
           D == {<<"tab", t>> : t \in {u \in Threads : tab[u] = f}}
<1>1. f # NULL
  BY MemoryAssumption
<1>2. \A x, y \in A : x = y
  BY <1>1 DEF MemoryInv, OneUse, as_page
<1>3. \A x, y \in B : x = y
  BY <1>1 DEF MemoryInv, OneUse, as_table
<1>4. \A t \in Threads : page[t] = f \/ tab[t] = f => in_call(t)
  BY <1>1 DEF MemoryInv, CallPhase, in_call
<1>5. \A t, u \in Threads : (page[t] = f \/ tab[t] = f) /\ (page[u] = f \/ tab[u] = f) => t = u
  BY <1>4, Alone
<1>6. (\A x, y \in C : x = y) /\ (\A x, y \in D : x = y)
  BY <1>5
<1>7. A # {} => mapped(f)
  BY DEF mapped, as_page
<1>8. B # {} => is_table(f)
  BY DEF is_table, as_table
<1>9. C # {} => ~ mapped(f) /\ ~ is_table(f)
  BY <1>1 DEF MemoryInv, OneUse
<1>10. D # {} => ~ mapped(f) /\ ~ is_table(f)
  BY <1>1 DEF MemoryInv, OneUse
<1>11. A = {} \/ B = {}
  BY <1>7, <1>8 DEF MemoryInv, OneUse
<1>12. C = {} \/ D = {}
  <2> SUFFICES ASSUME NEW t \in Threads, NEW u \in Threads, page[t] = f, tab[u] = f
               PROVE  FALSE
    OBVIOUS
  <2>1. t = u /\ in_call(t)
    BY <1>4, <1>5
  <2>2. t \in Procs
    BY <1>1, <2>1 DEF MemoryInv, CallPhase
  <2>3. type[t] = "user"
    BY <2>1, <2>2, CallSpace
  <2>4. f \in pool_frames("user") /\ f \in pool_frames("kernel")
    BY <1>1, <2>3 DEF MemoryInv, FoundInPool
  <2> QED
    BY <2>4, PoolFacts
<1>13. Uses(f) = A \cup B \cup C \cup D
  BY DEF Uses
<1> HIDE DEF A, B, C, D
<1>14. \A x, y \in Uses(f) : x = y
  BY <1>2, <1>3, <1>6, <1>7, <1>8, <1>9, <1>10, <1>11, <1>12, <1>13
<1>15. CASE Uses(f) = {}
  BY <1>15, FS_EmptySet
<1>16. CASE Uses(f) # {}
  <2>1. PICK x \in Uses(f) : TRUE
    BY <1>16
  <2>2. Uses(f) = {x}
    BY ONLY <1>14, <2>1
  <2>3. Cardinality({x}) = 1
    BY FS_Singleton
  <2> QED
    BY <2>2, <2>3
<1> QED
  BY <1>15, <1>16

(* No physical page is given out twice. *)
THEOREM MemoryExclusive ==
  ASSUME Apart
  PROVE  Spec => []FramesExclusive
<1>1. MemoryInv => FramesExclusive
  BY UsesOne DEF FramesExclusive
<1> QED
  BY <1>1, MemorySafe, PTL
=============================================================================
