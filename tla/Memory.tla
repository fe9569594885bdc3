------------------------------ MODULE Memory ------------------------------
(***************************************************************************)
(* Page allocation (memory.c): two pools of physical pages, the bitmap of  *)
(* kernel virtual pages, the bitmap of each process's virtual pages, and   *)
(* the page tables.  malloc_kernel_pages, malloc_user_pages and get_a_page *)
(* run with interrupts enabled under a pool's lock: every search of a      *)
(* bitmap, every update of one and every change of a page table is an      *)
(* action of its own, and other threads may run in between.                *)
(*                                                                         *)
(* The locks are those of AbstractLock, which Sync implements.  Pages are  *)
(* numbered: physical ones from the end of the memory used by the kernel,  *)
(* virtual ones from the start of their address space.  The pages of the   *)
(* kernel's heap have their page tables from the start (loader.asm).  What *)
(* pages contain is left out.                                              *)
(***************************************************************************)
EXTENDS Bitmap, FiniteSets

CONSTANTS
  KernelThreads,   \* threads that call malloc_kernel_pages
  Procs,           \* user processes
  Allocators,      \* which of them allocate at the same time: one of these sets
  FreeMemory,      \* free_mem / PG_SIZE
  UserLength,      \* length of a process's address bitmap, in bytes
  TablePages,      \* pages a page table maps (1024)
  MaxCount,        \* the most pages one call asks for (3839)
  NULL

Threads == KernelThreads \cup Procs
Pools == {"kernel", "user"}
Spaces == {"kernel"} \cup Procs

(* mem_pool_init: the number of free pages is cut to 16 bits and halved,   *)
(* and only the pages of whole bytes of a bitmap are used.                 *)
all_free_pages == FreeMemory % 2^16
kernel_free_pages == all_free_pages \div 2
user_free_pages == all_free_pages - kernel_free_pages

pool_length_fault_round_up(p) ==
  ((IF p = "kernel" THEN kernel_free_pages ELSE user_free_pages) + ByteBits - 1) \div ByteBits

pool_length(p) == (IF p = "kernel" THEN kernel_free_pages ELSE user_free_pages) \div ByteBits

phy_addr_start(p) == IF p = "kernel" THEN 0 ELSE kernel_free_pages

addr_length(s) == IF s = "kernel" THEN pool_length("kernel") ELSE UserLength

PhysPages == 0..all_free_pages - 1
VirtPages(s) == 0..size(addr_length(s))

(* The page of a process's stack, the last one below the kernel. *)
stack_page == size(UserLength) - 1

(* PDE_IDX *)
table(v) == v \div TablePages

ASSUME MemoryAssumption ==
  /\ KernelThreads \cap Procs = {} /\ "kernel" \notin Threads
  /\ Allocators \subseteq SUBSET Threads
  /\ FreeMemory \in Nat /\ UserLength \in Nat /\ size(UserLength) > 1
  /\ TablePages \in Nat \ {0} /\ MaxCount \in Nat \ {0}
  /\ NULL \notin PhysPages

VARIABLES
  owners,          \* the owners of kernel_pool.lock and user_pool.lock
  pool_bitmap,     \* for each pool, its pages in use
  addr_bitmap,     \* for each address space, its pages in use
  pde,             \* for each process, the page tables of its own part
  pte,             \* for each address space, where its pages are mapped
  pc,              \* where in a call each thread is
  type,            \* the pool the call is about
  vaddr,           \* the next virtual page to be mapped
  cnt,             \* how many are left to map
  page,            \* the physical page found for it
  tab,             \* the physical page found for its page table
  active,          \* the threads that allocate
  panic

locals == <<pc, type, vaddr, cnt, page, tab>>
vars == <<owners, pool_bitmap, addr_bitmap, pde, pte, locals, active, panic>>

L == INSTANCE AbstractLock WITH Locks <- Pools

(* "get": in get_a_page, "vaddr": in malloc_pages, each with the lock;     *)
(* "vset": before the address bits are set; "page" and "table": before the *)
(* search for a physical page; "pset" and "tset": before its bit is set;   *)
(* "bind": in bind_vaddr_paddr_page; "map": after the page table is there; *)
(* "unlock": before lock_release.                                          *)
PC == {"start", "idle", "get", "vaddr", "vset", "page", "pset", "bind",
       "table", "tset", "map", "unlock"}

-----------------------------------------------------------------------------
(* A running system: thread t takes its next step, from p. *)
at(t, p) == ~ panic /\ t \in active /\ pc[t] = p

goto(t, p) == pc' = [pc EXCEPT ![t] = p]

panic_spin ==
  /\ panic' = TRUE
  /\ UNCHANGED <<owners, pool_bitmap, addr_bitmap, pde, pte, locals, active>>

space(t) == IF type[t] = "kernel" THEN "kernel" ELSE t

lock_acquire_fault_none(p, t) == UNCHANGED owners

lock_acquire(p, t) == L!Acquire(p, t)

lock_release(t) == owners' = [owners EXCEPT ![type[t]] = @ \ {t}]

(* malloc_kernel_pages and malloc_user_pages up to vaddr_get_pages. *)
malloc(t, p, n) ==
  /\ at(t, "idle")
  /\ lock_acquire(p, t)
  /\ type' = [type EXCEPT ![t] = p]
  /\ cnt' = [cnt EXCEPT ![t] = n]
  /\ goto(t, "vaddr")
  /\ UNCHANGED <<pool_bitmap, addr_bitmap, pde, pte, vaddr, page, tab, active, panic>>

malloc_kernel_pages(t, n) == t \in KernelThreads /\ malloc(t, "kernel", n)

malloc_user_pages(t, n) == t \in Procs /\ malloc(t, "user", n)

(* get_a_page(USER_POOL, ...), as start_process calls it for the stack. *)
get_a_page(t) ==
  /\ at(t, "start")
  /\ lock_acquire("user", t)
  /\ type' = [type EXCEPT ![t] = "user"]
  /\ vaddr' = [vaddr EXCEPT ![t] = stack_page]
  /\ cnt' = [cnt EXCEPT ![t] = 1]
  /\ goto(t, "get")
  /\ UNCHANGED <<pool_bitmap, addr_bitmap, pde, pte, page, tab, active, panic>>

get_a_page_mark_fault_unmarked(t) ==
  /\ at(t, "get")
  /\ goto(t, "page")
  /\ UNCHANGED <<owners, pool_bitmap, addr_bitmap, pde, pte, type, vaddr, cnt, page, tab,
                 active, panic>>

get_a_page_mark(t) ==
  /\ at(t, "get")
  /\ IF ~ (vaddr[t] > 0) THEN panic_spin
     ELSE /\ addr_bitmap' = [addr_bitmap EXCEPT ![t] = bitmap_set_bit(@, vaddr[t], 1)]
          /\ goto(t, "page")
          /\ UNCHANGED <<owners, pool_bitmap, pde, pte, type, vaddr, cnt, page, tab,
                         active, panic>>

-----------------------------------------------------------------------------
(* vaddr_get_pages: the search, which may find no room, and the marking.   *)
vaddr_get_pages(t) ==
  /\ at(t, "vaddr")
  /\ LET start == bitmap_request_bits(addr_bitmap[space(t)], addr_length(space(t)), cnt[t])
     IN IF start = PANIC THEN panic_spin
        ELSE /\ IF start = FAIL
                THEN goto(t, "unlock") /\ UNCHANGED vaddr
                ELSE goto(t, "vset") /\ vaddr' = [vaddr EXCEPT ![t] = start]
             /\ UNCHANGED <<owners, pool_bitmap, addr_bitmap, pde, pte, type, cnt, page, tab,
                            active, panic>>

vaddr_mark_fault_first_only(t) ==
  /\ at(t, "vset")
  /\ addr_bitmap' = [addr_bitmap EXCEPT ![space(t)] = bitmap_set_bit(@, vaddr[t], 1)]
  /\ goto(t, "page")
  /\ UNCHANGED <<owners, pool_bitmap, pde, pte, type, vaddr, cnt, page, tab, active, panic>>

vaddr_mark(t) ==
  /\ at(t, "vset")
  /\ LET s == space(t) IN
     /\ addr_bitmap' = [addr_bitmap EXCEPT ![s] = @ \cup (vaddr[t] .. vaddr[t] + cnt[t] - 1)]
     /\ panic' = (s # "kernel" /\ ~ (vaddr[t] < stack_page))
  /\ goto(t, "page")
  /\ UNCHANGED <<owners, pool_bitmap, pde, pte, type, vaddr, cnt, page, tab, active>>

(* paddr_get_page: the search and the marking.  A search for one bit       *)
(* either finds one or fails its assertion, so NULL is never returned.     *)
paddr_get_page(t) ==
  /\ at(t, "page")
  /\ LET i == bitmap_request_bits(pool_bitmap[type[t]], pool_length(type[t]), 1)
     IN IF i = PANIC THEN panic_spin
        ELSE /\ page' = [page EXCEPT ![t] = phy_addr_start(type[t]) + i]
             /\ goto(t, "pset")
             /\ UNCHANGED <<owners, pool_bitmap, addr_bitmap, pde, pte, type, vaddr, cnt, tab,
                            active, panic>>

paddr_mark_fault_forgotten(t) ==
  /\ at(t, "pset")
  /\ goto(t, "bind")
  /\ UNCHANGED <<owners, pool_bitmap, addr_bitmap, pde, pte, type, vaddr, cnt, page, tab,
                 active, panic>>

paddr_mark(t) ==
  /\ at(t, "pset")
  /\ pool_bitmap' = [pool_bitmap EXCEPT ![type[t]] =
                       bitmap_set_bit(@, page[t] - phy_addr_start(type[t]), 1)]
  /\ goto(t, "bind")
  /\ UNCHANGED <<owners, addr_bitmap, pde, pte, type, vaddr, cnt, page, tab, active, panic>>

-----------------------------------------------------------------------------
(* bind_vaddr_paddr_page *)

(* The entry is written, and the loop of malloc_pages goes on. *)
set_pte(t) ==
  /\ pte' = [pte EXCEPT ![space(t)][vaddr[t]] = page[t]]
  /\ vaddr' = [vaddr EXCEPT ![t] = @ + 1]
  /\ cnt' = [cnt EXCEPT ![t] = @ - 1]
  /\ page' = [page EXCEPT ![t] = NULL]
  /\ goto(t, IF cnt[t] > 1 THEN "page" ELSE "unlock")
  /\ UNCHANGED <<owners, pool_bitmap, addr_bitmap, type, active, panic>>

has_table(t) == space(t) = "kernel" \/ pde[t][table(vaddr[t])] # NULL

bind_vaddr_paddr_page(t) ==
  /\ at(t, "bind")
  /\ IF has_table(t)
     THEN IF pte[space(t)][vaddr[t]] # NULL THEN panic_spin
          ELSE set_pte(t) /\ UNCHANGED <<pde, tab>>
     ELSE /\ goto(t, "table")
          /\ UNCHANGED <<owners, pool_bitmap, addr_bitmap, pde, pte, type, vaddr, cnt, page, tab,
                         active, panic>>

(* The page for a page table comes from the kernel's pool, whichever lock  *)
(* is held.                                                                *)
table_get_page(t) ==
  /\ at(t, "table")
  /\ LET i == bitmap_request_bits(pool_bitmap["kernel"], pool_length("kernel"), 1)
     IN IF i = PANIC THEN panic_spin
        ELSE /\ tab' = [tab EXCEPT ![t] = phy_addr_start("kernel") + i]
             /\ goto(t, "tset")
             /\ UNCHANGED <<owners, pool_bitmap, addr_bitmap, pde, pte, type, vaddr, cnt, page,
                            active, panic>>

table_mark(t) ==
  /\ at(t, "tset")
  /\ pool_bitmap' = [pool_bitmap EXCEPT !["kernel"] =
                       bitmap_set_bit(@, tab[t] - phy_addr_start("kernel"), 1)]
  /\ goto(t, "map")
  /\ UNCHANGED <<owners, addr_bitmap, pde, pte, type, vaddr, cnt, page, tab, active, panic>>

(* The new table is entered and cleared; then the page's entry is written. *)
table_map(t) ==
  /\ at(t, "map")
  /\ pde' = [pde EXCEPT ![t][table(vaddr[t])] = tab[t]]
  /\ tab' = [tab EXCEPT ![t] = NULL]
  /\ set_pte(t)

(* The end of every call. *)
return(t) ==
  /\ at(t, "unlock")
  /\ lock_release(t)
  /\ cnt' = [cnt EXCEPT ![t] = 0]
  /\ vaddr' = [vaddr EXCEPT ![t] = NULL]
  /\ type' = [type EXCEPT ![t] = NULL]
  /\ goto(t, "idle")
  /\ UNCHANGED <<pool_bitmap, addr_bitmap, pde, pte, page, tab, active, panic>>

-----------------------------------------------------------------------------
(* The byte after the kernel's address bitmap may hold anything, the one   *)
(* after a process's was cleared with its page.                            *)
Init ==
  /\ L!Init
  /\ pool_bitmap = [p \in Pools |-> bitmap_init]
  /\ \E past \in SUBSET {size(addr_length("kernel"))} :
       addr_bitmap = [s \in Spaces |-> IF s = "kernel" THEN bitmap_init \cup past
                                                       ELSE bitmap_init]
  /\ pde = [p \in Procs |-> [i \in {table(v) : v \in VirtPages(p)} |-> NULL]]
  /\ pte = [s \in Spaces |-> [v \in VirtPages(s) |-> NULL]]
  /\ pc = [t \in Threads |-> IF t \in Procs THEN "start" ELSE "idle"]
  /\ type = [t \in Threads |-> NULL]
  /\ vaddr = [t \in Threads |-> NULL]
  /\ cnt = [t \in Threads |-> 0]
  /\ page = [t \in Threads |-> NULL]
  /\ tab = [t \in Threads |-> NULL]
  /\ active \in Allocators
  /\ panic = FALSE

step(t) ==
  \/ get_a_page_mark(t)
  \/ vaddr_get_pages(t)
  \/ vaddr_mark(t)
  \/ paddr_get_page(t)
  \/ paddr_mark(t)
  \/ bind_vaddr_paddr_page(t)
  \/ table_get_page(t)
  \/ table_mark(t)
  \/ table_map(t)
  \/ return(t)

Next ==
  \/ \E t \in Threads, n \in 1..MaxCount : malloc_kernel_pages(t, n) \/ malloc_user_pages(t, n)
  \/ \E t \in Threads : get_a_page(t) \/ step(t)

Spec == Init /\ [][Next]_vars

-----------------------------------------------------------------------------
(* Properties *)

(* Every variable has its type. *)
MemoryTypeOK ==
  /\ owners \in [Pools -> SUBSET Threads]
  /\ \A p \in Pools : pool_bitmap[p] \subseteq 0..size(pool_length(p)) - 1
  /\ \A s \in Spaces : addr_bitmap[s] \subseteq VirtPages(s)
  /\ \A p \in Procs : pde[p] \in [{table(v) : v \in VirtPages(p)} -> PhysPages \cup {NULL}]
  /\ \A s \in Spaces : pte[s] \in [VirtPages(s) -> PhysPages \cup {NULL}]
  /\ pc \in [Threads -> PC]
  /\ type \in [Threads -> Pools \cup {NULL}]
  /\ cnt \in [Threads -> 0..MaxCount]
  /\ page \in [Threads -> PhysPages \cup {NULL}]
  /\ tab \in [Threads -> PhysPages \cup {NULL}]

(* What physical page f is used for: a mapped page, a page table, or one   *)
(* of these about to be.                                                   *)
as_page(f) ==
  UNION {{<<"pte", s, v>> : v \in {w \in VirtPages(s) : pte[s][w] = f}} : s \in Spaces}

as_table(f) ==
  UNION {{<<"pde", p, i>> : i \in {j \in DOMAIN pde[p] : pde[p][j] = f}} : p \in Procs}

Uses(f) ==
  as_page(f) \cup as_table(f)
    \cup {<<"page", t>> : t \in {u \in Threads : page[u] = f}}
    \cup {<<"tab", t>> : t \in {u \in Threads : tab[u] = f}}

(* memory.c:25, "locking is needed when user processes ask for resources": *)
(* no physical page is given out twice, be it as a page of two address     *)
(* spaces, of one, or as a page table, although it is marked as used only  *)
(* some steps after it was found free.                                     *)
FramesExclusive == \A f \in PhysPages : Cardinality(Uses(f)) <= 1

(* A physical page is marked as used from the step that takes it on, and   *)
(* none is marked that nobody uses: no call loses a page, not even one     *)
(* that finds no room for its virtual pages.                               *)
Marked == UNION {{phy_addr_start(p) + i : i \in pool_bitmap[p]} : p \in Pools}

mapped_frames == UNION {{pte[s][v] : v \in VirtPages(s)} : s \in Spaces}

table_frames == UNION {{pde[p][i] : i \in DOMAIN pde[p]} : p \in Procs}

Taken ==
  mapped_frames \cup table_frames
    \cup {page[t] : t \in {u \in Threads : pc[u] # "pset"}}
    \cup {tab[t] : t \in {u \in Threads : pc[u] # "tset"}}

NoPageLost == Marked = Taken \ {NULL}

(* Nothing of a process is mapped, or marked, at or above the kernel's     *)
(* addresses, although the search of its address bitmap looks one page too *)
(* far: the stack page at the end is marked before any search.             *)
UserBelowKernel ==
  \A p \in Procs :
    /\ addr_bitmap[p] \subseteq 0..stack_page
    /\ \A v \in VirtPages(p) : pte[p][v] # NULL => v \in addr_bitmap[p]

(* The system stops in the allocator only when some bitmap is full: the    *)
(* assertions on page table entries and addresses never fail.              *)
Full(bits, length) == 0..size(length) - 1 \subseteq bits

PanicOnlyWhenFull ==
  panic => \/ \E p \in Pools : Full(pool_bitmap[p], pool_length(p))
           \/ \E s \in Spaces : Full(addr_bitmap[s], addr_length(s))

-----------------------------------------------------------------------------
(* Why these hold when kernel threads and processes do not allocate at the *)
(* same time: the inductive invariant, in parts.                           *)

(* Kernel threads never allocate while processes do. *)
Apart == \A A \in Allocators : A \subseteq KernelThreads \/ A \subseteq Procs

in_call(t) == pc[t] \notin {"start", "idle"}

(* The types that MemoryTypeOK leaves open. *)
FunctionsOK ==
  /\ pool_bitmap \in [Pools -> SUBSET Nat]
  /\ addr_bitmap \in [Spaces -> SUBSET Nat]
  /\ DOMAIN pde = Procs /\ DOMAIN pte = Spaces
  /\ DOMAIN vaddr = Threads
  /\ active \in Allocators
  /\ panic \in BOOLEAN

(* A thread in a call owns the lock of its own kind; a pool's lock has at  *)
(* most one owner.                                                         *)
CallsLocked ==
  /\ \A p \in Pools : \A t, u \in owners[p] : t = u
  /\ \A t \in Threads : in_call(t) =>
       /\ t \in active
       /\ type[t] = IF t \in Procs THEN "user" ELSE "kernel"
       /\ t \in owners[type[t]]

(* The pages a call is about to map: set aside, in the bitmap once they    *)
(* are marked, and not mapped.                                             *)
pending(t) == vaddr[t] .. vaddr[t] + cnt[t] - 1

Mapping == {"page", "pset", "bind", "table", "tset", "map"}

CallPhase(t) ==
  /\ pc[t] \in {"start", "get"} => t \in Procs /\ addr_bitmap[t] = {}
  /\ pc[t] \in {"vaddr", "vset"} \cup Mapping => cnt[t] > 0
  /\ pc[t] = "get" => vaddr[t] = stack_page /\ cnt[t] = 1
  /\ pc[t] \in {"vset"} \cup Mapping =>
       /\ vaddr[t] \in Nat
       /\ pending(t) \subseteq VirtPages(space(t))
       /\ \A v \in pending(t) : v \in addr_bitmap[space(t)] <=> pc[t] \in Mapping
       /\ \A v \in pending(t) : pte[space(t)][v] = NULL
  /\ pc[t] = "vset" => vaddr[t] < size(addr_length(space(t)))
  /\ pc[t] \in {"table", "tset", "map"} => t \in Procs /\ pde[t][table(vaddr[t])] = NULL
  /\ pc[t] \in {"pset", "bind", "table", "tset", "map"} <=> page[t] # NULL
  /\ pc[t] \in {"tset", "map"} <=> tab[t] # NULL

(* The frames of a pool, and where a frame that a call has found is from.  *)
pool_frames(p) == phy_addr_start(p) .. phy_addr_start(p) + size(pool_length(p)) - 1

FoundInPool ==
  \A t \in Threads :
    /\ page[t] # NULL => page[t] \in pool_frames(type[t])
    /\ tab[t] # NULL => tab[t] \in pool_frames("kernel")

(* The stack page is the first that a process marks, and what is mapped is *)
(* marked.                                                                 *)
StackMarked == \A p \in Procs : pc[p] \notin {"start", "get"} => stack_page \in addr_bitmap[p]

MappedMarked ==
  \A s \in Spaces : \A v \in VirtPages(s) : pte[s][v] # NULL => v \in addr_bitmap[s]

(* FramesExclusive and NoPageLost for one frame. *)
mapped(f) == \E s \in Spaces : \E v \in VirtPages(s) : pte[s][v] = f
is_table(f) == \E p \in Procs : \E i \in DOMAIN pde[p] : pde[p][i] = f
marked(f) == \E p \in Pools : \E i \in pool_bitmap[p] : f = phy_addr_start(p) + i

OneUse ==
  /\ \A s1, s2 \in Spaces : \A v1 \in VirtPages(s1), v2 \in VirtPages(s2) :
       pte[s1][v1] = pte[s2][v2] /\ pte[s1][v1] # NULL => s1 = s2 /\ v1 = v2
  /\ \A p1, p2 \in Procs : \A i1 \in DOMAIN pde[p1], i2 \in DOMAIN pde[p2] :
       pde[p1][i1] = pde[p2][i2] /\ pde[p1][i1] # NULL => p1 = p2 /\ i1 = i2
  /\ \A f \in PhysPages : ~ (mapped(f) /\ is_table(f))
  /\ \A t \in Threads : page[t] # NULL => ~ mapped(page[t]) /\ ~ is_table(page[t])
  /\ \A t \in Threads : tab[t] # NULL => ~ mapped(tab[t]) /\ ~ is_table(tab[t])

MarkedWhenTaken ==
  \A f \in PhysPages :
    marked(f) <=> \/ mapped(f)
                  \/ is_table(f)
                  \/ \E t \in Threads : page[t] = f /\ pc[t] # "pset"
                  \/ \E t \in Threads : tab[t] = f /\ pc[t] # "tset"

(* The inductive invariant. *)
MemoryInv ==
  /\ MemoryTypeOK
  /\ FunctionsOK
  /\ CallsLocked
  /\ \A t \in Threads : CallPhase(t)
  /\ FoundInPool
  /\ UserBelowKernel
  /\ StackMarked
  /\ MappedMarked
  /\ OneUse
  /\ MarkedWhenTaken
  /\ PanicOnlyWhenFull
=============================================================================
