------------------------------- MODULE SwapVM -------------------------------
(***************************************************************************)
(* Demand swapping of user pages: kernel/kalloc.c, the swap, LRU and user  *)
(* page-table code of kernel/vm.c, the page-fault path of kernel/trap.c,   *)
(* and the callers in kernel/proc.c that create, grow, shrink and free     *)
(* address spaces.                                                         *)
(*                                                                         *)
(* One kernel thread per process.  A step of a thread is what it does      *)
(* between two points where another hart can interfere: one critical       *)
(* section of kmem.lock, lru_lock or swap_lock, one page-sized disk        *)
(* transfer, or one page-table update made without a lock.                 *)
(*                                                                         *)
(* Abstractions: a page's content is one value; a page-table entry is its  *)
(* PTE_V/PTE_SWAPPED state, its PPN field and its PTE_A bit; the page-     *)
(* table pages of LeafSpan consecutive virtual pages are one frame; sizes  *)
(* are in pages.                                                           *)
(***************************************************************************)
EXTENDS Integers, Sequences, FiniteSets, Functions

CONSTANTS
    Procs,      \* process slots (proc[NPROC]); also their address spaces
    Root,       \* initproc
    Live0,      \* the processes that are running in the initial state
    Frames,     \* physical pages handed out by kalloc()
    NSlots,     \* swap_slots
    MaxPages,   \* bound: virtual pages per address space
    LeafSpan,   \* virtual pages mapped by one page-table page (512 in Sv39)
    Vals,       \* what a user program stores in a page
    Zero,       \* the content of a page that memset() cleared
    Junk,       \* the content kfree() and kalloc() fill a page with
    NULL,       \* the null pointer
    GrowMax,    \* bound: pages one sbrk() adds
    Growers,    \* the processes that call sbrk(n), n > 0
    Shrinkers,  \* ... that call sbrk(-1 page)
    Forkers,    \* ... that call fork()
    Exiters,    \* ... that call exit()
    Reapers,    \* ... that call wait()
    Copiers,    \* ... that pass user buffers to system calls
    Racers      \* ... that store to a page while it is on its way to disk

Slots   == 0 .. NSlots - 1
Pages   == 0 .. MaxPages - 1
Leaf(va) == 1 + va \div LeafSpan      \* index of va's page-table page in kpg
KPages  == {0} \union {Leaf(va) : va \in Pages}   \* 0 is the trapframe
Data    == Vals \union {Zero, Junk}

ASSUME SwapAssumption ==
    /\ NSlots \in Nat /\ MaxPages \in Nat \ {0} /\ LeafSpan \in Nat \ {0}
    /\ GrowMax \in Nat /\ IsFiniteSet(Frames)
    /\ Root \in Live0 /\ Live0 \subseteq Procs
    /\ Shrinkers \subseteq Procs /\ Growers \subseteq Procs
    /\ NULL \notin Frames \union Procs \union Slots
    /\ Junk \notin Vals \union {Zero}

VARIABLES
    freelist,   \* kmem.freelist, last freed first
    mem,        \* content of each physical page
    disk,       \* content of each swap slot
    swap_bitmap,\* the slots whose bit is set
    lru,        \* the circular list from lru_head to lru_tail
    lru_lock,   \* the thread holding lru_lock across steps, or NULL
    pages,      \* struct page: the mapping recorded for a frame, or NULL
    pt,         \* leaf page-table entries
    kpg,        \* the trapframe and page-table pages of a process
    sz,         \* p->sz in pages
    state,      \* p->state
    th,         \* program counter and locals of each thread
    oops,       \* "no", or how the kernel stopped: a panic or a wild access
    shadow      \* history: what each process last stored in each page

ram    == <<freelist, mem>>
swap   == <<disk, swap_bitmap>>
clock  == <<lru, lru_lock, pages>>
tables == <<pt, kpg>>
procs  == <<sz, state>>
vars   == <<freelist, mem, disk, swap_bitmap, lru, lru_lock, pages, pt, kpg, sz, state, th,
            oops, shadow>>

-----------------------------------------------------------------------------
(* Page-table entries and thread-local state.                              *)

Unmapped == [k |-> "none", n |-> NULL, a |-> FALSE]
Present(f, a) == [k |-> "mem", n |-> f, a |-> a]
Swapped(s) == [k |-> "swap", n |-> s, a |-> FALSE]
PTEs == {Unmapped} \union {Present(f, a) : f \in Frames, a \in BOOLEAN}
                   \union {Swapped(s) : s \in Slots}

\* A thread that is in user mode (or whose process does not run).
Idle == [pc |-> "user", ret |-> "user", op |-> "none", as |-> NULL, va |-> 0,
         lim |-> 0, r |-> NULL, mem |-> NULL, vic |-> NULL, slot |-> NULL,
         src |-> Unmapped]

\* What the thread is executing.
Labels == {"user", "kalloc", "swapout", "scan", "slot", "putback", "write",
           "evict", "vfree", "vclear", "allocproc", "uvmalloc", "uvmcopy", "copypage",
           "walk", "map", "link", "swapin", "slotfree", "swapmap",
           "unmap", "unlink", "ufree", "uclear", "freeproc", "copyout", "efault"}
Ops == {"none", "grow", "shrink", "fork", "reap", "fault", "copy"}

Threads ==
    [pc : Labels, ret : Labels, op : Ops, as : Procs \union {NULL},
     va : Nat, lim : Nat, r : Frames \union {NULL}, mem : Frames \union {NULL},
     vic : Frames \union {NULL}, slot : Slots \union {NULL}, src : PTEs]

At(p, label) == oops = "no" /\ th[p].pc = label
User(p) == At(p, "user") /\ state[p] = "live"

\* A step that only moves thread p from one label to the next.
Goto(p, from, to) ==
    /\ At(p, from)
    /\ th' = [th EXCEPT ![p].pc = to]
    /\ UNCHANGED <<ram, swap, clock, tables, procs, oops, shadow>>

\* Call kalloc() and continue at label when it returns.
CallKalloc(p, label) == [th EXCEPT ![p].pc = "kalloc", ![p].ret = label]

\* The page-table page for va in address space as exists: walk(..., 0) # 0.
HasPte(as, va) == kpg[as][Leaf(va)] # NULL

\* lru_add(), lru_remove() and the second-chance rotation on the circular list.
Position(f) == CHOOSE i \in DOMAIN lru : lru[i] = f


LruWithout(f) ==
    IF f \in Range(lru)
    THEN [i \in 1 .. Len(lru) - 1 |-> IF i < Position(f) THEN lru[i] ELSE lru[i + 1]]
    ELSE lru
LruAfter(f) == lru[(Position(f) % Len(lru)) + 1]
LruRotated(f) ==
    [i \in 1 .. Len(lru) |-> lru[((i - 1 + Position(f)) % Len(lru)) + 1]]

\* kfree(): junk, then push on the free list.
kfree(f) ==
    /\ mem' = [mem EXCEPT ![f] = Junk]
    /\ freelist' = <<f>> \o freelist

\* lru_add() under lru_lock.  Linking a page that is already on the list
\* destroys the list.
lru_add(f) ==
    /\ lru_lock = NULL
    /\ IF f \in Range(lru) THEN oops' = "lru_add: already linked" /\ UNCHANGED lru
                           ELSE lru' = Append(lru, f) /\ UNCHANGED oops

\* How the kernel can stop.
Stops == {"lru_add: already linked",
          "swapout: walk of a null page table",
          "swapout: no pte",
          "swapout: pte vanished",
          "uvmcopy: pte should exist",
          "uvmcopy: page not present",
          "mappages: remap",
          "init exiting",
          "uvmunmap: walk",
          "uvmunmap: not mapped",
          "freewalk: leaf"}

Panic(why) ==
    /\ oops' = why
    /\ UNCHANGED <<ram, swap, clock, tables, procs, th, shadow>>

-----------------------------------------------------------------------------
(* kalloc() and swapout().                                                 *)

\* kalloc(): a page from the free list, filled with junk.
kalloc_hit(p) ==
    /\ At(p, "kalloc") /\ freelist # <<>>
    /\ freelist' = Tail(freelist)
    /\ mem' = [mem EXCEPT ![Head(freelist)] = Junk]
    /\ th' = [th EXCEPT ![p].pc = th[p].ret, ![p].ret = "user", ![p].r = Head(freelist)]
    /\ UNCHANGED <<swap, clock, tables, procs, oops, shadow>>

\* kalloc(): nothing free, so try swapout().
kalloc_miss(p) == freelist = <<>> /\ Goto(p, "kalloc", "swapout")

\* swapout() returns -1 and kalloc() returns 0.
KallocFails(p) ==
    [th EXCEPT ![p].pc = th[p].ret, ![p].ret = "user", ![p].r = NULL, ![p].vic = NULL]

\* swapout(): take lru_lock; an empty list means there is nothing to evict.
swapout_begin(p) ==
    /\ At(p, "swapout") /\ lru_lock = NULL
    /\ \/ /\ lru = <<>>
          /\ th' = KallocFails(p)
          /\ UNCHANGED lru_lock
       \/ /\ lru # <<>>
          /\ lru_lock' = p
          /\ th' = [th EXCEPT ![p].pc = "scan", ![p].vic = Head(lru)]
    /\ UNCHANGED <<ram, swap, lru, pages, tables, procs, oops, shadow>>

\* (mutant) a second chance that does not take PTE_A away
Mut_ClearA(as, va) == pt

\* A page that was referenced gets a second chance without its PTE_A bit.
ClearA(as, va) == [pt EXCEPT ![as][va].a = FALSE]

\* swapout(): one turn of the second-chance loop, under lru_lock.
swapout_scan(p) ==
    LET cand == th[p].vic
        as == pages[cand][1]
        va == pages[cand][2]
    IN
    /\ At(p, "scan")
    /\ \/ /\ pages[cand] = NULL
          /\ Panic("swapout: walk of a null page table")
       \/ /\ pages[cand] # NULL /\ ~HasPte(as, va)
          /\ Panic("swapout: no pte")
       \/ /\ pages[cand] # NULL /\ HasPte(as, va) /\ pt[as][va].k # "mem"
          /\ th' = [th EXCEPT ![p].vic = LruAfter(cand)]
          /\ UNCHANGED <<ram, swap, clock, tables, procs, oops, shadow>>
       \/ /\ pages[cand] # NULL /\ HasPte(as, va) /\ pt[as][va].k = "mem" /\ pt[as][va].a
          /\ pt' = ClearA(as, va)
          /\ lru' = LruRotated(cand)
          /\ th' = [th EXCEPT ![p].vic = LruAfter(cand)]
          /\ UNCHANGED <<ram, swap, lru_lock, pages, kpg, procs, oops, shadow>>
       \/ /\ pages[cand] # NULL /\ HasPte(as, va) /\ pt[as][va].k = "mem" /\ ~pt[as][va].a
          /\ lru' = LruWithout(cand)
          /\ lru_lock' = NULL
          /\ th' = [th EXCEPT ![p].pc = "slot"]
          /\ UNCHANGED <<ram, swap, pages, tables, procs, oops, shadow>>

\* alloc_swap_slot(): the lowest slot whose bit is clear.
alloc_swap_slot ==
    LET free == Slots \ swap_bitmap IN CHOOSE s \in free : \A t \in free : s <= t

\* swapout(): reserve a slot, or give up when the swap area is full.
swapout_slot(p) ==
    /\ At(p, "slot")
    /\ \/ /\ Slots \ swap_bitmap = {}
          /\ th' = [th EXCEPT ![p].pc = "putback"]
          /\ UNCHANGED swap_bitmap
       \/ /\ Slots \ swap_bitmap # {}
          /\ swap_bitmap' = swap_bitmap \union {alloc_swap_slot}
          /\ th' = [th EXCEPT ![p].pc = "write", ![p].slot = alloc_swap_slot]
    /\ UNCHANGED <<ram, disk, clock, tables, procs, oops, shadow>>

\* (mutant) the victim is not put back
Mut_swapout_putback(p) ==
    /\ At(p, "putback")
    /\ th' = KallocFails(p)
    /\ UNCHANGED <<ram, swap, clock, tables, procs, oops, shadow>>

\* swapout(): no slot, the victim goes back on the list and kalloc() fails.
swapout_putback(p) ==
    /\ At(p, "putback")
    /\ lru_add(th[p].vic)
    /\ th' = KallocFails(p)
    /\ UNCHANGED <<ram, swap, lru_lock, pages, tables, procs, shadow>>

\* swapwrite(): the page goes to disk while its PTE is still valid.
swapwrite(p) ==
    /\ At(p, "write")
    /\ disk' = [disk EXCEPT ![th[p].slot] = mem[th[p].vic]]
    /\ th' = [th EXCEPT ![p].pc = "evict"]
    /\ UNCHANGED <<ram, swap_bitmap, clock, tables, procs, oops, shadow>>

\* swapout(): the PTE found through the victim's struct page becomes swapped.
swapout_evict(p) ==
    LET as == pages[th[p].vic][1]
        va == pages[th[p].vic][2]
    IN
    /\ At(p, "evict")
    /\ \/ /\ pages[th[p].vic] = NULL
          /\ Panic("swapout: walk of a null page table")
       \/ /\ pages[th[p].vic] # NULL /\ ~HasPte(as, va)
          /\ Panic("swapout: pte vanished")
       \/ /\ pages[th[p].vic] # NULL /\ HasPte(as, va)
          /\ pt' = [pt EXCEPT ![as][va] = Swapped(th[p].slot)]
          /\ th' = [th EXCEPT ![p].pc = "vfree"]
          /\ UNCHANGED <<ram, swap, clock, kpg, procs, oops, shadow>>

\* (mutant) the victim's frame is not freed
Mut_swapout_free(p) == Goto(p, "vfree", "vclear")

\* swapout(): free the victim's frame ...
swapout_free(p) ==
    /\ At(p, "vfree")
    /\ kfree(th[p].vic)
    /\ th' = [th EXCEPT ![p].pc = "vclear"]
    /\ UNCHANGED <<swap, clock, tables, procs, oops, shadow>>

\* ... and only then clear its struct page; kalloc() looks at the free list again.
swapout_clear(p) ==
    /\ At(p, "vclear")
    /\ pages' = [pages EXCEPT ![th[p].vic] = NULL]
    /\ th' = [th EXCEPT ![p].pc = "kalloc", ![p].vic = NULL, ![p].slot = NULL]
    /\ UNCHANGED <<ram, swap, lru, lru_lock, tables, procs, oops, shadow>>

-----------------------------------------------------------------------------
(* Mapping a fresh page: uvmalloc(), uvmcopy() and the mappages()/walk()   *)
(* calls they share.                                                       *)

\* The frame in r becomes the page to map at va; mappages() first needs the
\* page-table page for va, which walk() allocates when it is missing.
HoldPage(p) ==
    LET got == [th EXCEPT ![p].mem = th[p].r, ![p].r = NULL]
    IN IF HasPte(th[p].as, th[p].va)
       THEN [got EXCEPT ![p].pc = "map"]
       ELSE [got EXCEPT ![p].pc = "kalloc", ![p].ret = "walk"]

\* No memory: unmap the pages this call has mapped, [from, va).
Rollback(p) ==
    [th EXCEPT ![p].pc = "unmap", ![p].lim = th[p].va, ![p].mem = NULL,
               ![p].va = IF th[p].op = "grow" THEN sz[p] ELSE 0,
               ![p].src = Unmapped]

\* uvmalloc() with the result of its kalloc().
uvmalloc_page(p) ==
    /\ At(p, "uvmalloc")
    /\ \/ th[p].r = NULL /\ th' = Rollback(p) /\ UNCHANGED mem
       \/ th[p].r # NULL /\ th' = HoldPage(p) /\ mem' = [mem EXCEPT ![th[p].r] = Zero]
    /\ UNCHANGED <<freelist, swap, clock, tables, procs, oops, shadow>>

\* uvmcopy(): look at the parent's PTE, then call kalloc().
uvmcopy_read(p) ==
    LET pte == pt[p][th[p].va] IN
    /\ At(p, "uvmcopy")
    /\ \/ ~HasPte(p, th[p].va) /\ Panic("uvmcopy: pte should exist")
       \/ HasPte(p, th[p].va) /\ pte.k = "none" /\ Panic("uvmcopy: page not present")
       \/ /\ HasPte(p, th[p].va) /\ pte.k # "none"
          /\ th' = [CallKalloc(p, "copypage") EXCEPT ![p].src = pte]
          /\ UNCHANGED <<ram, swap, clock, tables, procs, oops, shadow>>

\* uvmcopy(): memmove() from the frame, or swapread() from the slot, that the
\* parent's PTE named before kalloc() was called.
uvmcopy_page(p) ==
    LET src == th[p].src IN
    /\ At(p, "copypage")
    /\ \/ th[p].r = NULL /\ th' = Rollback(p) /\ UNCHANGED mem
       \/ /\ th[p].r # NULL
          /\ mem' = [mem EXCEPT ![th[p].r] = IF src.k = "mem" THEN mem[src.n] ELSE disk[src.n]]
          /\ th' = HoldPage(p)
    /\ UNCHANGED <<freelist, swap, clock, tables, procs, oops, shadow>>

\* (mutant) when mappages() fails the page is not freed
Mut_walk_alloc(p) ==
    /\ At(p, "walk")
    /\ \/ th[p].r = NULL /\ th' = Rollback(p) /\ UNCHANGED <<mem, kpg>>
       \/ /\ th[p].r # NULL
          /\ mem' = [mem EXCEPT ![th[p].r] = Zero]
          /\ kpg' = [kpg EXCEPT ![th[p].as][Leaf(th[p].va)] = th[p].r]
          /\ th' = [th EXCEPT ![p].pc = "map", ![p].r = NULL]
    /\ UNCHANGED <<freelist, swap, clock, pt, procs, oops, shadow>>

\* walk(..., 1) with the result of its kalloc(); without a page-table page
\* mappages() fails and the caller frees its page and rolls back.
walk_alloc(p) ==
    /\ At(p, "walk")
    /\ \/ /\ th[p].r = NULL
          /\ kfree(th[p].mem)
          /\ th' = Rollback(p)
          /\ UNCHANGED kpg
       \/ /\ th[p].r # NULL
          /\ mem' = [mem EXCEPT ![th[p].r] = Zero]
          /\ kpg' = [kpg EXCEPT ![th[p].as][Leaf(th[p].va)] = th[p].r]
          /\ th' = [th EXCEPT ![p].pc = "map", ![p].r = NULL]
          /\ UNCHANGED freelist
    /\ UNCHANGED <<swap, clock, pt, procs, oops, shadow>>

\* mappages(), and the struct page fields the caller fills in after it.
mappages(p) ==
    LET as == th[p].as
        va == th[p].va
    IN
    /\ At(p, "map")
    /\ \/ pt[as][va].k = "mem" /\ Panic("mappages: remap")
       \/ /\ pt[as][va].k # "mem"
          /\ pt' = [pt EXCEPT ![as][va] = Present(th[p].mem, th[p].src.a)]
          /\ pages' = [pages EXCEPT ![th[p].mem] = <<as, va>>]
          /\ th' = [th EXCEPT ![p].pc = "link"]
          /\ UNCHANGED <<ram, swap, lru, lru_lock, kpg, procs, oops, shadow>>

\* lru_add() of the mapped page, then the next page or the end of the call:
\* swapin() returns, uvmalloc() ends with growproc() setting p->sz, uvmcopy()
\* ends with fork() making the child runnable.
link(p) ==
    LET next == th[p].va + 1
        more == th[p].op # "fault" /\ next < th[p].lim
        page == [th EXCEPT ![p].va = next, ![p].mem = NULL, ![p].src = Unmapped]
    IN
    /\ At(p, "link")
    /\ lru_add(th[p].mem)
    /\ \/ /\ more /\ th[p].op = "grow"
          /\ th' = [page EXCEPT ![p].pc = "kalloc", ![p].ret = "uvmalloc"]
          /\ UNCHANGED <<procs>>
       \/ /\ more /\ th[p].op = "fork"
          /\ th' = [page EXCEPT ![p].pc = "uvmcopy"]
          /\ UNCHANGED <<procs>>
       \/ /\ ~more
          /\ th' = [th EXCEPT ![p] = Idle]
          /\ sz' = IF th[p].op = "fault" THEN sz ELSE [sz EXCEPT ![th[p].as] = th[p].lim]
          /\ state' = [state EXCEPT ![th[p].as] = "live"]
    /\ UNCHANGED <<ram, swap, lru_lock, pages, tables, shadow>>

-----------------------------------------------------------------------------
(* swapin(), called by usertrap() on a page fault.                         *)

\* exit() of a process; initproc may not exit.
Exits(p) ==
    \/ p = Root /\ Panic("init exiting")
    \/ /\ p # Root
       /\ state' = [state EXCEPT ![p] = "zombie"]
       /\ th' = [th EXCEPT ![p] = Idle]
       /\ UNCHANGED <<ram, swap, clock, tables, sz, oops, shadow>>

\* (mutant) swapin() gives the slot back before it reads it
Mut_fault(p, va) ==
    /\ User(p) /\ va < sz[p] /\ pt[p][va].k = "swap"
    /\ swap_bitmap' = swap_bitmap \ {pt[p][va].n}
    /\ th' = [CallKalloc(p, "swapin") EXCEPT
                 ![p].op = "fault", ![p].as = p, ![p].va = va, ![p].src = pt[p][va]]
    /\ UNCHANGED <<ram, disk, clock, tables, procs, oops, shadow>>

\* usertrap(): a fault on a page below p->sz.  A page that is neither present
\* nor swapped kills the process.
fault(p, va) ==
    /\ User(p) /\ va < sz[p] /\ pt[p][va].k # "mem"
    /\ \/ pt[p][va].k = "none" /\ Exits(p)
       \/ /\ pt[p][va].k = "swap"
          /\ th' = [CallKalloc(p, "swapin") EXCEPT
                       ![p].op = "fault", ![p].as = p, ![p].va = va, ![p].src = pt[p][va]]
          /\ UNCHANGED <<ram, swap, clock, tables, procs, oops, shadow>>

\* swapin(): no page kills the process; otherwise swapread() the slot.
swapin_read(p) ==
    /\ At(p, "swapin")
    /\ \/ th[p].r = NULL /\ Exits(p)
       \/ /\ th[p].r # NULL
          /\ mem' = [mem EXCEPT ![th[p].r] = disk[th[p].src.n]]
          /\ th' = [th EXCEPT ![p].pc = "slotfree", ![p].mem = th[p].r, ![p].r = NULL]
          /\ UNCHANGED <<freelist, swap, clock, tables, procs, oops, shadow>>

\* swapin(): free_swap_slot().
swapin_free(p) ==
    /\ At(p, "slotfree")
    /\ swap_bitmap' = swap_bitmap \ {th[p].src.n}
    /\ th' = [th EXCEPT ![p].pc = "swapmap"]
    /\ UNCHANGED <<ram, disk, clock, tables, procs, oops, shadow>>

\* swapin(): make the PTE valid again and fill in the struct page; link() follows.
swapin_map(p) ==
    /\ At(p, "swapmap")
    /\ pt' = [pt EXCEPT ![p][th[p].va] = Present(th[p].mem, pt[p][th[p].va].a)]
    /\ pages' = [pages EXCEPT ![th[p].mem] = <<p, th[p].va>>]
    /\ th' = [th EXCEPT ![p].pc = "link"]
    /\ UNCHANGED <<ram, swap, lru, lru_lock, kpg, procs, oops, shadow>>

-----------------------------------------------------------------------------
(* uvmunmap() of the pages [va, lim) and freeing a process.                *)

\* uvmunmap(): look at one PTE; a swapped page only gives back its slot.
\* Past the last page: uvmalloc() has failed, growproc() has shrunk p->sz, or
\* freeproc() goes on to the page-table pages.
uvmunmap_page(p) ==
    LET as == th[p].as
        va == th[p].va
        done == va >= th[p].lim
        pte == pt[as][va]
    IN
    /\ At(p, "unmap")
    /\ \/ ~done /\ (~HasPte(as, va)) /\ Panic("uvmunmap: walk")
       \/ ~done /\ HasPte(as, va) /\ pte.k = "none" /\ Panic("uvmunmap: not mapped")
       \/ /\ ~done /\ HasPte(as, va) /\ pte.k = "swap"
          /\ swap_bitmap' = swap_bitmap \ {pte.n}
          /\ pt' = [pt EXCEPT ![as][va] = Unmapped]
          /\ th' = [th EXCEPT ![p].va = va + 1]
          /\ UNCHANGED <<ram, disk, clock, kpg, procs, oops, shadow>>
       \/ /\ ~done /\ HasPte(as, va) /\ pte.k = "mem"
          /\ th' = [th EXCEPT ![p].pc = "unlink", ![p].mem = pte.n]
          /\ UNCHANGED <<ram, swap, clock, tables, procs, oops, shadow>>
       \/ /\ done
          /\ th' = IF th[p].op \in {"grow", "shrink"} THEN [th EXCEPT ![p] = Idle]
                                                      ELSE [th EXCEPT ![p].pc = "freeproc"]
          /\ sz' = IF th[p].op = "shrink" THEN [sz EXCEPT ![p] = @ - 1] ELSE sz
          /\ UNCHANGED <<ram, swap, clock, tables, state, oops, shadow>>

\* uvmunmap(): lru_remove() under lru_lock, a no-op for a page not on the list.
uvmunmap_unlink(p) ==
    /\ At(p, "unlink") /\ lru_lock = NULL
    /\ lru' = LruWithout(th[p].mem)
    /\ th' = [th EXCEPT ![p].pc = "ufree"]
    /\ UNCHANGED <<ram, swap, lru_lock, pages, tables, procs, oops, shadow>>

uvmunmap_free(p) ==
    /\ At(p, "ufree")
    /\ kfree(th[p].mem)
    /\ th' = [th EXCEPT ![p].pc = "uclear", ![p].mem = NULL]
    /\ UNCHANGED <<swap, clock, tables, procs, oops, shadow>>

uvmunmap_clear(p) ==
    /\ At(p, "uclear")
    /\ pt' = [pt EXCEPT ![th[p].as][th[p].va] = Unmapped]
    /\ th' = [th EXCEPT ![p].pc = "unmap", ![p].va = @ + 1]
    /\ UNCHANGED <<ram, swap, clock, kpg, procs, oops, shadow>>

\* freeproc(): kfree() of the trapframe and, in freewalk(), of each page-table
\* page, which must hold no present leaf.
freeproc(p) ==
    LET as == th[p].as
        left == {k \in KPages : kpg[as][k] # NULL}
        k == CHOOSE i \in left : \A j \in left : i <= j
        under == {va \in Pages : Leaf(va) = k}
    IN
    /\ At(p, "freeproc")
    /\ \/ /\ left # {} /\ \E va \in under : pt[as][va].k = "mem"
          /\ Panic("freewalk: leaf")
       \/ /\ left # {} /\ \A va \in under : pt[as][va].k # "mem"
          /\ kfree(kpg[as][k])
          /\ kpg' = [kpg EXCEPT ![as][k] = NULL]
          /\ pt' = [pt EXCEPT ![as] = [va \in Pages |-> IF va \in under THEN Unmapped
                                                                        ELSE pt[as][va]]]
          /\ UNCHANGED <<swap, clock, procs, th, oops, shadow>>
       \/ /\ left = {}
          /\ state' = [state EXCEPT ![as] = "unused"]
          /\ sz' = [sz EXCEPT ![as] = 0]
          /\ th' = [th EXCEPT ![p] = Idle]
          /\ UNCHANGED <<ram, swap, clock, tables, oops, shadow>>

-----------------------------------------------------------------------------
(* What a process asks for.                                                *)

\* sbrk() of n > 0 pages: growproc() calls uvmalloc().
sbrk_grow(p, n) ==
    /\ User(p) /\ p \in Growers /\ sz[p] + n <= MaxPages
    /\ th' = [CallKalloc(p, "uvmalloc") EXCEPT
                 ![p].op = "grow", ![p].as = p, ![p].va = sz[p], ![p].lim = sz[p] + n]
    /\ shadow' = [shadow EXCEPT ![p] = [va \in Pages |-> IF va < sz[p] THEN shadow[p][va]
                                                                       ELSE Zero]]
    /\ UNCHANGED <<ram, swap, clock, tables, procs, oops>>

\* sbrk() of minus one page: growproc() calls uvmdealloc().  A program keeps
\* the page its code is in.
sbrk_shrink(p) ==
    /\ User(p) /\ p \in Shrinkers /\ sz[p] > 1
    /\ th' = [th EXCEPT ![p].pc = "unmap", ![p].op = "shrink", ![p].as = p,
                        ![p].va = sz[p] - 1, ![p].lim = sz[p]]
    /\ UNCHANGED <<ram, swap, clock, tables, procs, oops, shadow>>

\* fork(): allocproc() takes an unused slot and asks for its trapframe.
fork(p, c) ==
    /\ User(p) /\ p \in Forkers /\ state[c] = "unused"
    /\ state' = [state EXCEPT ![c] = "used"]
    /\ th' = [CallKalloc(p, "allocproc") EXCEPT ![p].op = "fork", ![p].as = c]
    /\ shadow' = [shadow EXCEPT ![c] = shadow[p]]
    /\ UNCHANGED <<ram, swap, clock, tables, sz, oops>>

\* allocproc() with its trapframe; fork() goes on to uvmcopy().
allocproc(p) ==
    LET c == th[p].as IN
    /\ At(p, "allocproc")
    /\ \/ /\ th[p].r = NULL
          /\ state' = [state EXCEPT ![c] = "unused"]
          /\ th' = [th EXCEPT ![p] = Idle]
          /\ UNCHANGED kpg
       \/ /\ th[p].r # NULL
          /\ kpg' = [kpg EXCEPT ![c][0] = th[p].r]
          /\ th' = [th EXCEPT ![p].pc = "uvmcopy", ![p].r = NULL, ![p].va = 0,
                              ![p].lim = sz[p]]
          /\ UNCHANGED state
    /\ UNCHANGED <<ram, swap, clock, pt, sz, oops, shadow>>

exit(p) == User(p) /\ p \in Exiters /\ Exits(p)

\* wait() on a zombie: freeproc() frees the trapframe, then uvmfree() starts.
\* The parent (or initproc) is here any process that calls wait().
wait(p, c) ==
    /\ User(p) /\ p \in Reapers /\ p # c /\ state[c] = "zombie"
    /\ \A q \in Procs : ~(th[q].op = "reap" /\ th[q].as = c)
    /\ kfree(kpg[c][0])
    /\ kpg' = [kpg EXCEPT ![c][0] = NULL]
    /\ th' = [th EXCEPT ![p].pc = "unmap", ![p].op = "reap", ![p].as = c, ![p].va = 0,
                        ![p].lim = sz[c]]
    /\ UNCHANGED <<swap, clock, pt, procs, oops, shadow>>

-----------------------------------------------------------------------------
(* Accesses to user memory: the hardware's, and the kernel's through       *)
(* copyin()/copyout().                                                     *)

\* The frame has been copied to disk by swapwrite() and its PTE is still valid.
OnItsWay(f) == \E q \in Procs : th[q].pc = "evict" /\ th[q].vic = f

\* A user load or store to a present page; the hardware sets PTE_A.
load(p, va) ==
    /\ User(p) /\ va < sz[p] /\ pt[p][va].k = "mem" /\ ~pt[p][va].a
    /\ pt' = [pt EXCEPT ![p][va].a = TRUE]
    /\ UNCHANGED <<ram, swap, clock, kpg, procs, th, oops, shadow>>

store(p, va, v) ==
    /\ User(p) /\ va < sz[p] /\ pt[p][va].k = "mem"
    /\ p \in Racers \/ ~OnItsWay(pt[p][va].n)
    /\ pt' = [pt EXCEPT ![p][va].a = TRUE]
    /\ mem' = [mem EXCEPT ![pt[p][va].n] = v]
    /\ shadow' = [shadow EXCEPT ![p][va] = v]
    /\ UNCHANGED <<freelist, swap, clock, kpg, procs, th, oops>>

\* copyin(), copyout() and copyinstr(): walk() to the PTE; one that is not
\* valid makes the system call fail.
copy_walk(p, va) ==
    /\ User(p) /\ p \in Copiers /\ va < sz[p]
    /\ \/ /\ pt[p][va].k = "mem"
          /\ th' = [th EXCEPT ![p].pc = "copyout", ![p].op = "copy", ![p].va = va,
                              ![p].src = pt[p][va]]
       \/ /\ pt[p][va].k # "mem"
          /\ th' = [th EXCEPT ![p].pc = "efault", ![p].op = "copy", ![p].va = va]
    /\ UNCHANGED <<ram, swap, clock, tables, procs, oops, shadow>>

\* copyout(): memmove() to the physical address walk() found.
copy_move(p, v) ==
    /\ At(p, "copyout")
    /\ mem' = [mem EXCEPT ![th[p].src.n] = v]
    /\ shadow' = [shadow EXCEPT ![p][th[p].va] = v]
    /\ th' = [th EXCEPT ![p] = Idle]
    /\ UNCHANGED <<freelist, swap, clock, tables, procs, oops>>

\* The system call returns -1.
copy_fail(p) ==
    /\ At(p, "efault")
    /\ th' = [th EXCEPT ![p] = Idle]
    /\ UNCHANGED <<ram, swap, clock, tables, procs, oops, shadow>>

-----------------------------------------------------------------------------
(* Specification.                                                          *)

\* The elements of a set in some order.
Listing(S) == CHOOSE s \in Bijection(1 .. Cardinality(S), S) : TRUE

\* The frames of the processes that run at the start: each has a trapframe, a
\* page-table page and page 0, as exec() leaves it.
Layout == CHOOSE f \in [Live0 \X (0 .. 2) -> Frames] : IsInjective(f)

ASSUME LayoutAssumption == Layout \in Injection(Live0 \X (0 .. 2), Frames)

Init ==
    /\ freelist = Listing(Frames \ Range(Layout))
    /\ mem = [f \in Frames |-> IF \E p \in Live0 : f = Layout[<<p, 2>>] THEN Zero ELSE Junk]
    /\ disk = [s \in Slots |-> Junk]
    /\ swap_bitmap = {}
    /\ lru = Listing({Layout[<<p, 2>>] : p \in Live0})
    /\ lru_lock = NULL
    /\ pages = [f \in Frames |-> IF \E p \in Live0 : f = Layout[<<p, 2>>]
                                 THEN <<CHOOSE p \in Live0 : f = Layout[<<p, 2>>], 0>>
                                 ELSE NULL]
    /\ pt = [p \in Procs |-> [va \in Pages |-> IF p \in Live0 /\ va = 0
                                               THEN Present(Layout[<<p, 2>>], FALSE)
                                               ELSE Unmapped]]
    /\ kpg = [p \in Procs |-> [k \in KPages |-> IF p \in Live0 /\ k \in {0, 1}
                                                THEN Layout[<<p, k>>] ELSE NULL]]
    /\ sz = [p \in Procs |-> IF p \in Live0 THEN 1 ELSE 0]
    /\ state = [p \in Procs |-> IF p \in Live0 THEN "live" ELSE "unused"]
    /\ th = [p \in Procs |-> Idle]
    /\ oops = "no"
    /\ shadow = [p \in Procs |-> [va \in Pages |-> Zero]]

\* Steps of a thread inside the kernel.
Kernel(p) ==
    \/ kalloc_hit(p) \/ kalloc_miss(p)
    \/ swapout_begin(p) \/ swapout_scan(p) \/ swapout_slot(p) \/ swapout_putback(p)
    \/ swapwrite(p) \/ swapout_evict(p) \/ swapout_free(p) \/ swapout_clear(p)
    \/ uvmalloc_page(p) \/ uvmcopy_read(p) \/ uvmcopy_page(p)
    \/ walk_alloc(p) \/ mappages(p) \/ link(p)
    \/ swapin_read(p) \/ swapin_free(p) \/ swapin_map(p)
    \/ uvmunmap_page(p) \/ uvmunmap_unlink(p) \/ uvmunmap_free(p) \/ uvmunmap_clear(p)
    \/ freeproc(p) \/ allocproc(p)
    \/ (\E v \in Vals : copy_move(p, v)) \/ copy_fail(p)

\* Steps a user program takes: memory accesses, faults and system calls.
Program(p) ==
    \/ \E va \in Pages : load(p, va) \/ fault(p, va) \/ copy_walk(p, va)
    \/ \E va \in Pages, v \in Vals : store(p, va, v)
    \/ \E n \in 1 .. GrowMax : sbrk_grow(p, n)
    \/ sbrk_shrink(p)
    \/ \E c \in Procs : fork(p, c) \/ wait(p, c)
    \/ exit(p)

\* The kernel has stopped.
Halted == oops # "no" /\ UNCHANGED vars

Next == (\E p \in Procs : Kernel(p) \/ Program(p)) \/ Halted

Spec == Init /\ [][Next]_vars

\* Every hart keeps executing the kernel thread it runs.
FairSpec == Spec /\ \A p \in Procs : WF_vars(Kernel(p))

-----------------------------------------------------------------------------
(* Properties.                                                             *)

TypeOK ==
    /\ freelist \in Seq(Frames)
    /\ mem \in [Frames -> Data]
    /\ disk \in [Slots -> Data]
    /\ swap_bitmap \subseteq Slots
    /\ lru \in Seq(Frames)
    /\ lru_lock \in Procs \union {NULL}
    /\ pages \in [Frames -> (Procs \X Pages) \union {NULL}]
    /\ pt \in [Procs -> [Pages -> PTEs]]
    /\ kpg \in [Procs -> [KPages -> Frames \union {NULL}]]
    /\ sz \in [Procs -> 0 .. MaxPages]
    /\ state \in [Procs -> {"unused", "used", "live", "zombie"}]
    /\ th \in [Procs -> Threads]
    /\ oops \in {"no"} \union Stops
    /\ shadow \in [Procs -> [Pages -> Data]]

\* The places that hold frame f: the free list, a present PTE (not one whose
\* page uvmunmap() has freed and is about to clear), a trapframe or page-table
\* page, the hands of a thread.
Clearing(as, va) == \E q \in Procs : th[q].pc = "uclear" /\ th[q].as = as /\ th[q].va = va
InHand(f, q) ==
    \/ th[q].r = f
    \/ th[q].mem = f /\ th[q].pc \notin {"link", "unlink", "ufree"}
    \/ th[q].vic = f /\ th[q].pc = "vfree"
Homes(f) ==
    {<<"free", i, 0>> : i \in {j \in DOMAIN freelist : freelist[j] = f}}
    \union {h \in {"pte"} \X Procs \X Pages :
              pt[h[2]][h[3]].k = "mem" /\ pt[h[2]][h[3]].n = f /\ ~Clearing(h[2], h[3])}
    \union {h \in {"kpg"} \X Procs \X KPages : kpg[h[2]][h[3]] = f}
    \union {<<"thread", q, 0>> : q \in {t \in Procs : InHand(f, t)}}

\* No frame is lost and none has two users: kalloc() never hands out a page
\* that is still mapped, freed twice, or a page-table page, and swapout(),
\* swapin(), uvmunmap() and the failure paths of uvmalloc() and uvmcopy() give
\* back every page they take.
FramesOwned == \A f \in Frames : Homes(f) # {} /\ \A g, h \in Homes(f) : g = h

\* Likewise for swap slots: a slot's bit is set exactly while one swapped PTE
\* or one swapout() in progress holds the slot (swapin() clears the bit just
\* before it rewrites the PTE).
SlotHomes(s) ==
    {h \in {"pte"} \X Procs \X Pages :
        /\ pt[h[2]][h[3]].k = "swap" /\ pt[h[2]][h[3]].n = s
        /\ ~(th[h[2]].pc = "swapmap" /\ th[h[2]].va = h[3])}
    \union {<<"thread", q, 0>> : q \in {t \in Procs : th[t].slot = s /\ th[t].pc \in {"write", "evict"}}}
SlotsOwned ==
    \A s \in Slots : /\ (s \in swap_bitmap) <=> (SlotHomes(s) # {})
                     /\ \A g, h \in SlotHomes(s) : g = h

\* The LRU list holds each page at most once, and only pages that a valid PTE
\* maps (vm.c:683).
LruPresent ==
    /\ \A i, j \in DOMAIN lru : lru[i] = lru[j] => i = j
    /\ \A i \in DOMAIN lru : \E p \in Procs, va \in Pages :
          pt[p][va].k = "mem" /\ pt[p][va].n = lru[i]

\* Every user page in memory can be found by the clock: it is on the LRU list
\* unless a thread is linking, evicting or unmapping it at this moment.
LruComplete ==
    \A p \in Procs, va \in Pages : pt[p][va].k = "mem" =>
        LET f == pt[p][va].n IN
        \/ f \in Range(lru)
        \/ \E q \in Procs : \/ th[q].mem = f /\ th[q].pc \in {"link", "ufree"}
                            \/ th[q].vic = f /\ th[q].pc \in {"slot", "putback", "write", "evict"}
        \/ Clearing(p, va)

\* A running program finds in each of its pages, in memory or on disk, what it
\* last stored there (its parent last stored there, after fork()).
Content(p, va) == IF pt[p][va].k = "mem" THEN mem[pt[p][va].n] ELSE disk[pt[p][va].n]
DataIntact ==
    \A p \in Procs : state[p] = "live" /\ th[p].pc = "user" /\ oops = "no" =>
        \A va \in Pages : va < sz[p] =>
            pt[p][va].k # "none" /\ Content(p, va) = shadow[p][va]

\* The kernel neither panics nor follows a null or freed page table; initproc
\* may still be killed when memory and swap are exhausted.
NoPanic == oops \in {"no", "init exiting"}

\* A system call can access every page the process owns (usertests.c:2241).
CopyReaches == \A p \in Procs : th[p].pc = "efault" => th[p].va >= sz[p]

\* Every trap returns: page faults and system calls that allocate memory end,
\* although kalloc() and the second-chance scan loop without a bound.
TrapReturns == \A p \in Procs : (th[p].pc # "user") ~> (th[p].pc = "user" \/ oops # "no")
=============================================================================
