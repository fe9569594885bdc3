------------------------------- MODULE Paging -------------------------------
(***************************************************************************)
(* Page directories and page tables: the ones the boot loader builds       *)
(* (setup_page), the ones memory.c and process.c build and change through  *)
(* the directory's last entry, which points to the directory itself, and   *)
(* the address of the GDT that tss_init loads.                             *)
(*                                                                         *)
(* A frame is N words, a word is a frame's number or ABSENT (the present   *)
(* bit is clear; the other attribute bits are always the same), and a      *)
(* virtual address counts words.  Which frame and which kernel address is  *)
(* free is Memory's subject: here both are given out in order.             *)
(***************************************************************************)
EXTENDS Integers

CONSTANTS
  N,               \* words of a page, entries of a table: 1024
  FirstKernel,     \* the directory entry of 0xc0000000: 768
  LowPages,        \* pages below 1M: 256
  PoolFrames,      \* frames of the pools that are used
  HeapPages,       \* kernel pages that are allocated
  UserPages,       \* page numbers of the addresses that processes use
  Users            \* processes

ASSUME PagingAssumption ==
  /\ {N, FirstKernel, LowPages} \subseteq Nat
  /\ 0 < FirstKernel /\ FirstKernel < N - 2 /\ 0 < LowPages /\ LowPages < N
  /\ UserPages \subseteq N..(FirstKernel * N - 1)
  /\ {PoolFrames, HeapPages} \subseteq Nat
  /\ FirstKernel * N + LowPages + HeapPages < (N - 1) * N

ABSENT == -1
NoDir == -1
Entries == 0..N - 1

(* The boot loader's frames: directory, first table, the kernel's others.  *)
KernelDir == LowPages
FirstTable == KernelDir + 1
FirstFree == KernelDir + N - FirstKernel
Frames == 0..FirstFree + PoolFrames - 1

K_HEAP_START == FirstKernel * N + LowPages    \* as a page number

VARIABLES
  ram,             \* the contents of every frame
  cr3,             \* the frame of the directory in use
  gdtr,            \* the address of the GDT
  pgdir,           \* each process's directory: a virtual page number
  pages,           \* kernel pages allocated
  frames           \* pool frames allocated

pagingVars == <<ram, cr3, gdtr, pgdir, pages, frames>>

-----------------------------------------------------------------------------
PDE_IDX(v) == v \div (N * N)
PTE_IDX(v) == (v \div N) % N

pte_ptr(v) == (N - 1) * N * N + PDE_IDX(v) * N + PTE_IDX(v)
pde_ptr(v) == (N - 1) * N * N + (N - 1) * N + PDE_IDX(v)

(* The frame in which directory dir maps address v (the MMU). *)
frame(m, dir, v) ==
  LET table == m[dir][PDE_IDX(v)]
  IN IF table = ABSENT THEN ABSENT ELSE m[table][PTE_IDX(v)]

load(m, v) == m[frame(m, cr3, v)][v % N]

store(m, v, x) == [m EXCEPT ![frame(m, cr3, v)][v % N] = x]

memset_page(m, v) == [m EXCEPT ![frame(m, cr3, v)] = [i \in Entries |-> ABSENT]]

vaddr_to_paddr(m, v) == load(m, pte_ptr(v))

(* page is mapped at v; table is the frame that a new table would get. *)
bind_vaddr_paddr_page(m, v, page, table) ==
  IF load(m, pde_ptr(v)) # ABSENT THEN store(m, pte_ptr(v), page)
  ELSE store(memset_page(store(m, pde_ptr(v), table), pte_ptr(v)), pte_ptr(v), page)

(* The next frame of a pool, and the one after it for a new table, are     *)
(* mapped at v.  That v was not mapped, as the code asserts, is guarded in *)
(* get_a_page and shown for kernel pages (KernelShared).                   *)
map_page(v) ==
  bind_vaddr_paddr_page(ram, v, FirstFree + frames, FirstFree + frames + 1)

takes_frames(v) ==
  /\ frames' = frames + (IF load(ram, pde_ptr(v)) = ABSENT THEN 2 ELSE 1)
  /\ frames' <= PoolFrames

-----------------------------------------------------------------------------
(* setup_page.  The tables other than the first 256 entries are not        *)
(* written: memory is zero when the machine starts.  The frames of the     *)
(* pools may hold anything, say entries for frame 0.                       *)
create_kernel_pde_fault_missing(i) == ABSENT

create_kernel_pde(i) ==
  IF i \in FirstKernel + 1..N - 2 THEN FirstTable + i - FirstKernel ELSE ABSENT

setup_page ==
  [f \in Frames |->
     IF f = KernelDir
     THEN [i \in Entries |-> IF i \in {0, FirstKernel} THEN FirstTable
                             ELSE IF i = N - 1 THEN KernelDir
                             ELSE create_kernel_pde(i)]
     ELSE IF f = FirstTable THEN [i \in Entries |-> IF i < LowPages THEN i ELSE ABSENT]
     ELSE IF f \in FirstTable..FirstFree - 1 THEN [i \in Entries |-> ABSENT]
     ELSE [i \in Entries |-> 0]]

(* The loader stores the GDT's low address for tss_init and itself loads   *)
(* the one above 0xc0000000.                                               *)
gdt_base == 0

PagingInit ==
  /\ ram = setup_page
  /\ cr3 = KernelDir
  /\ gdtr = FirstKernel * N * N + gdt_base
  /\ pgdir = [u \in Users |-> NoDir]
  /\ pages = 0 /\ frames = 0

tss_init ==
  /\ gdtr' = gdt_base
  /\ gdtr' # gdtr
  /\ UNCHANGED <<ram, cr3, pgdir, pages, frames>>

(* One page.  It is filled with zeros. *)
next_page == K_HEAP_START + pages

new_page == memset_page(map_page(next_page * N), next_page * N)

takes_page == pages < HeapPages /\ pages' = pages + 1 /\ takes_frames(next_page * N)

malloc_kernel_pages ==
  /\ takes_page
  /\ ram' = new_page
  /\ UNCHANGED <<cr3, gdtr, pgdir>>

(* The upper entries of the directory in use, and the new one's own frame. *)
copy_kernel_entries_fault_whole(m, v) ==
  LET dir == frame(m, cr3, pde_ptr(0))
  IN [m EXCEPT ![frame(m, cr3, v)] =
        [i \in Entries |-> IF i = N - 1 THEN vaddr_to_paddr(m, v) ELSE m[dir][i]]]

copy_kernel_entries(m, v) ==
  LET dir == frame(m, cr3, pde_ptr(0))
  IN [m EXCEPT ![frame(m, cr3, v)] =
        [i \in Entries |-> IF i = N - 1 THEN vaddr_to_paddr(m, v)
                           ELSE IF i >= FirstKernel THEN m[dir][i]
                           ELSE @[i]]]

(* Processes are created once tss_init has run. *)
create_page_dir(u) ==
  /\ gdtr = gdt_base
  /\ pgdir[u] = NoDir
  /\ takes_page
  /\ ram' = copy_kernel_entries(new_page, next_page * N)
  /\ pgdir' = [pgdir EXCEPT ![u] = next_page]
  /\ UNCHANGED <<cr3, gdtr>>

(* malloc_user_pages and get_a_page, by the process whose directory is in  *)
(* use.                                                                    *)
get_a_page(p) ==
  /\ cr3 # KernelDir
  /\ frame(ram, cr3, p * N) = ABSENT
  /\ takes_frames(p * N)
  /\ ram' = map_page(p * N)
  /\ UNCHANGED <<cr3, gdtr, pgdir, pages>>

page_dir_activate(u) ==
  /\ pgdir[u] # NoDir
  /\ cr3' = vaddr_to_paddr(ram, pgdir[u] * N)
  /\ UNCHANGED <<ram, gdtr, pgdir, pages, frames>>

page_dir_activate_kernel ==
  /\ cr3' = KernelDir
  /\ UNCHANGED <<ram, gdtr, pgdir, pages, frames>>

PagingNext ==
  \/ tss_init
  \/ malloc_kernel_pages
  \/ \E u \in Users : create_page_dir(u) \/ page_dir_activate(u)
  \/ \E p \in UserPages : get_a_page(p)
  \/ page_dir_activate_kernel

PagingSpec == PagingInit /\ [][PagingNext]_pagingVars

-----------------------------------------------------------------------------
(* Properties *)

(* A process's directory lies in the frame that the kernel's maps it to.   *)
Dirs == {KernelDir} \cup
        {frame(ram, KernelDir, pgdir[u] * N) : u \in {w \in Users : pgdir[w] # NoDir}}

(* Every kernel address means the same in every directory, also those that *)
(* the kernel maps after the directory was made, whoever is running then:  *)
(* the tables of all of them exist from the start.  And every directory    *)
(* shows itself and no other through its last entry, so that pte_ptr and   *)
(* pde_ptr name the tables of the directory in use.  The page that the     *)
(* kernel allocates next is mapped nowhere yet, so that the assertion in   *)
(* bind_vaddr_paddr_page holds.                                            *)
KernelShared ==
  \A dir \in Dirs :
    /\ \A p \in FirstKernel * N..(N - 1) * N - 1 :
         frame(ram, dir, p * N) = frame(ram, KernelDir, p * N)
    /\ frame(ram, dir, next_page * N) = ABSENT
    /\ \A i \in Entries \ {N - 1} :
         /\ frame(ram, dir, pde_ptr(i * N * N)) = dir
         /\ frame(ram, dir, pte_ptr(i * N * N)) = ram[dir][i]

Mapped(dir) == {frame(ram, dir, p * N) : p \in 0..FirstKernel * N - 1} \ {ABSENT}

(* What a process maps below the kernel is in no other directory, is       *)
(* mapped once, and is no directory and no table: a page of one process    *)
(* can neither be seen by another one nor hold page table entries.         *)
UserApart ==
  \A dir \in Dirs \ {KernelDir} :
    /\ \A other \in Dirs \ {dir} : Mapped(dir) \cap Mapped(other) = {}
    /\ \A p, q \in UserPages :
         frame(ram, dir, p * N) = frame(ram, dir, q * N)
           => p = q \/ frame(ram, dir, p * N) = ABSENT
    /\ \A other \in Dirs : Mapped(dir) \cap ({other} \cup {ram[other][i] : i \in Entries}) = {}

(* process.c:58, "change cr3 finished!" is printed with the new directory: *)
(* print_char loads gs, for which the CPU reads the GDT.                   *)
GdtMapped == frame(ram, cr3, gdtr) # ABSENT

-----------------------------------------------------------------------------
(* The inductive invariant.  What has been given out of the pools is a     *)
(* kernel page, among them the directories of the processes, or one        *)
(* process's table, or one process's page.                                 *)

given == FirstFree..FirstFree + frames - 1

kernel_table(i) == FirstTable + (i - FirstKernel)

user_dirs == Dirs \ {KernelDir}

user_tables == {ram[dir][i] : dir \in user_dirs, i \in 0..FirstKernel - 1} \ {ABSENT}

user_pages == {ram[table][j] : table \in user_tables, j \in Entries} \ {ABSENT}

PagingTypeOK ==
  /\ ram \in [Frames -> [Entries -> Frames \cup {ABSENT}]]
  /\ pages \in 0..HeapPages /\ frames \in 0..PoolFrames
  /\ pgdir \in [Users -> {NoDir} \cup K_HEAP_START..next_page - 1]
  /\ cr3 \in Dirs

(* The upper entries of every directory. *)
SameAbove ==
  \A dir \in Dirs :
    /\ ram[dir][N - 1] = dir
    /\ \A i \in FirstKernel..N - 2 : ram[dir][i] = kernel_table(i)

(* The first megabyte, which the kernel's directory shows twice. *)
LowMapped ==
  /\ \A i \in 0..FirstKernel - 1 : ram[KernelDir][i] = IF i = 0 THEN FirstTable ELSE ABSENT
  /\ \A j \in 0..LowPages - 1 : ram[FirstTable][j] = j

HeapMapped ==
  \A i \in FirstKernel..N - 2, j \in Entries :
    /\ i * N + j \in K_HEAP_START..next_page - 1
         => ram[kernel_table(i)][j] \in given \ (user_tables \cup user_pages)
    /\ i * N + j >= next_page => ram[kernel_table(i)][j] = ABSENT

(* Each process's tables and pages are its own. *)
UserMapped ==
  /\ user_tables \subseteq given /\ user_pages \subseteq given \ user_tables
  /\ \A dir, other \in user_dirs, i, k \in 0..FirstKernel - 1 :
       ram[dir][i] = ram[other][k] => ram[dir][i] = ABSENT \/ (dir = other /\ i = k)
  /\ \A table, other \in user_tables, j, k \in Entries :
       ram[table][j] = ram[other][k] => ram[table][j] = ABSENT \/ (table = other /\ j = k)

PagingInv == PagingTypeOK /\ SameAbove /\ LowMapped /\ HeapMapped /\ UserMapped
=============================================================================
