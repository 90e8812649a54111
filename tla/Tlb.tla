--------------------------------- MODULE Tlb ---------------------------------
(***************************************************************************)
(* Address translation as a hart does it: through its TLB, which only      *)
(* sfence.vma empties.  uservec and userret (kernel/trampoline.S) run      *)
(* sfence.vma on their own hart; swapout(), swapin(), uvmalloc() and       *)
(* uvmunmap() (kernel/vm.c) change page-table entries and run none.        *)
(*                                                                         *)
(* A page-table change and the copying it needs are one step here: what    *)
(* can happen inside swapout() and swapin() is the subject of SwapVM.  A   *)
(* swap slot is named after the page it holds.                             *)
(***************************************************************************)
EXTENDS Integers, FiniteSets

CONSTANTS
    Harts,      \* the harts there can be
    Procs,      \* processes, each with its page table
    Pages,      \* the virtual pages of a process
    Frames,     \* physical pages
    Vals,       \* what programs store
    Zero,       \* the content of a new page
    Junk,       \* what kfree() fills a page with
    NULL

ASSUME TlbAssumption ==
    /\ Zero \notin Vals /\ Junk \notin Vals \union {Zero}
    /\ NULL \notin Procs \union Frames \union {"none", "swap"}
    /\ {"none", "swap"} \intersect Frames = {}

VARIABLES
    up,         \* the harts this machine has (CPUS of the Makefile)
    run,        \* the process each hart executes, or NULL
    mode,       \* "user" or "kernel"
    tlb,        \* the user translations in each hart's TLB
    pt,         \* page tables: a frame, "swap" or "none"
    mem,        \* content of each frame
    disk,       \* content of the swapped-out pages
    shadow      \* history: what each process last stored in each page

vars == <<up, run, mode, tlb, pt, mem, disk, shadow>>

NoEntries == [va \in Pages |-> NULL]
Data == Vals \union {Zero, Junk}

Init ==
    /\ up \in (SUBSET Harts) \ {{}}
    /\ run = [h \in Harts |-> NULL]
    /\ mode = [h \in Harts |-> "kernel"]
    /\ tlb = [h \in Harts |-> NoEntries]
    /\ pt = [p \in Procs |-> [va \in Pages |-> "none"]]
    /\ mem = [f \in Frames |-> Junk]
    /\ disk = [p \in Procs |-> [va \in Pages |-> Zero]]
    /\ shadow = [p \in Procs |-> [va \in Pages |-> Zero]]

-----------------------------------------------------------------------------
(* The hart.                                                               *)

\* A page-table walk puts a valid entry into the TLB, when the program
\* touches the page or earlier.
Walk(h, va) ==
    /\ mode[h] = "user" /\ pt[run[h]][va] \in Frames /\ tlb[h][va] = NULL
    /\ tlb' = [tlb EXCEPT ![h][va] = pt[run[h]][va]]
    /\ UNCHANGED <<run, mode, pt, mem, disk, shadow>>

\* The TLB has to make room.
Drop(h, va) ==
    /\ tlb[h][va] # NULL
    /\ tlb' = [tlb EXCEPT ![h][va] = NULL]
    /\ UNCHANGED <<run, mode, pt, mem, disk, shadow>>

\* The program stores v in page va; the hart uses what its TLB says.
Store(h, va, v) ==
    /\ mode[h] = "user" /\ tlb[h][va] # NULL
    /\ mem' = [mem EXCEPT ![tlb[h][va]] = v]
    /\ shadow' = [shadow EXCEPT ![run[h]][va] = v]
    /\ UNCHANGED <<run, mode, tlb, pt, disk>>

\* (mutant) no sfence.vma
Mut_sfence_vma(h) == UNCHANGED tlb

\* sfence.vma zero, zero: this hart's TLB is empty.
sfence_vma(h) == tlb' = [tlb EXCEPT ![h] = NoEntries]

-----------------------------------------------------------------------------
(* The kernel.                                                             *)

\* A trap, for whatever reason: uservec switches to the kernel page table.
uservec(h) ==
    /\ mode[h] = "user"
    /\ mode' = [mode EXCEPT ![h] = "kernel"]
    /\ sfence_vma(h)
    /\ UNCHANGED <<run, pt, mem, disk, shadow>>

\* userret switches to the page table of the process.
userret(h) ==
    /\ mode[h] = "kernel" /\ run[h] # NULL
    /\ mode' = [mode EXCEPT ![h] = "user"]
    /\ sfence_vma(h)
    /\ UNCHANGED <<run, pt, mem, disk, shadow>>

\* The scheduler picks a process no other hart runs; a process gives the
\* hart up in the kernel.
scheduler(h, p) ==
    /\ run[h] = NULL /\ \A g \in Harts : run[g] # p
    /\ run' = [run EXCEPT ![h] = p]
    /\ UNCHANGED <<mode, tlb, pt, mem, disk, shadow>>

sched(h) ==
    /\ mode[h] = "kernel" /\ run[h] # NULL
    /\ run' = [run EXCEPT ![h] = NULL]
    /\ UNCHANGED <<mode, tlb, pt, mem, disk, shadow>>

\* kmem.freelist: the frames no page table names.
Free == {f \in Frames : \A p \in Procs, va \in Pages : pt[p][va] # f}

\* kfree(): the page is filled with junk.
kfree(f) == mem' = [mem EXCEPT ![f] = Junk]

\* sbrk(): uvmalloc() adds a zeroed page.
uvmalloc(h, va, f) ==
    /\ mode[h] = "kernel" /\ run[h] # NULL /\ f \in Free
    /\ pt[run[h]][va] = "none"
    /\ pt' = [pt EXCEPT ![run[h]][va] = f]
    /\ mem' = [mem EXCEPT ![f] = Zero]
    /\ shadow' = [shadow EXCEPT ![run[h]][va] = Zero]
    /\ UNCHANGED <<run, mode, tlb, disk>>

\* sbrk() of a negative size: uvmunmap() frees the frame or the slot.
uvmunmap(h, va) ==
    /\ mode[h] = "kernel" /\ run[h] # NULL
    /\ pt[run[h]][va] # "none"
    /\ pt' = [pt EXCEPT ![run[h]][va] = "none"]
    /\ IF pt[run[h]][va] \in Frames THEN kfree(pt[run[h]][va]) ELSE UNCHANGED mem
    /\ shadow' = [shadow EXCEPT ![run[h]][va] = Zero]
    /\ UNCHANGED <<run, mode, tlb, disk>>

\* The victim's entry: PTE_V cleared, PTE_SWAPPED set.
Evicted(p, va) == [pt EXCEPT ![p][va] = "swap"]

\* swapout(), called by kalloc() for the process this hart runs, takes any
\* page of any process: its scan clears PTE_A, in memory only, until it finds
\* a page without it.
swapout(h, p, va) ==
    /\ mode[h] = "kernel" /\ run[h] # NULL /\ Free = {}
    /\ pt[p][va] \in Frames
    /\ disk' = [disk EXCEPT ![p][va] = mem[pt[p][va]]]
    /\ pt' = Evicted(p, va)
    /\ kfree(pt[p][va])
    /\ UNCHANGED <<run, mode, tlb, shadow>>

\* A page fault of the process: usertrap() calls swapin().
swapin(h, va, f) ==
    /\ mode[h] = "kernel" /\ run[h] # NULL /\ f \in Free
    /\ pt[run[h]][va] = "swap"
    /\ pt' = [pt EXCEPT ![run[h]][va] = f]
    /\ mem' = [mem EXCEPT ![f] = disk[run[h]][va]]
    /\ UNCHANGED <<run, mode, tlb, disk, shadow>>

Next ==
    /\ UNCHANGED up
    /\ \E h \in up :
        \/ uservec(h) \/ userret(h) \/ sched(h)
        \/ \E p \in Procs : scheduler(h, p)
        \/ \E va \in Pages : Walk(h, va) \/ Drop(h, va) \/ uvmunmap(h, va)
        \/ \E va \in Pages, v \in Vals : Store(h, va, v)
        \/ \E va \in Pages, f \in Frames : uvmalloc(h, va, f) \/ swapin(h, va, f)
        \/ \E va \in Pages, p \in Procs : swapout(h, p, va)

Spec == Init /\ [][Next]_vars

-----------------------------------------------------------------------------
TypeOK ==
    /\ up \in SUBSET Harts
    /\ run \in [Harts -> Procs \union {NULL}]
    /\ mode \in [Harts -> {"user", "kernel"}]
    /\ tlb \in [Harts -> [Pages -> Frames \union {NULL}]]
    /\ pt \in [Procs -> [Pages -> Frames \union {"none", "swap"}]]
    /\ mem \in [Frames -> Data]
    /\ disk \in [Procs -> [Pages -> Data]]
    /\ shadow \in [Procs -> [Pages -> Data]]

Stale(h, va) == tlb[h][va] # NULL /\ (run[h] = NULL \/ pt[run[h]][va] # tlb[h][va])

\* What a hart's TLB says is what the page table of its process says.
TlbFresh == \A h \in Harts, va \in Pages : ~Stale(h, va)

\* With any number of harts, a translation goes stale in one way only: another
\* hart's swapout() takes the page while its process runs in user mode.
StaleByEviction ==
    [][\A h \in Harts, va \in Pages :
         ~Stale(h, va) /\ Stale(h, va)' =>
             /\ mode[h] = "user"
             /\ \E g \in up \ {h} : swapout(g, run[h], va)]_vars

\* Each page of each process holds what the process last stored there, in
\* its frame or in its swap slot, and no page with content is lost: no program
\* stores into a frame that has gone to somebody else.
PagesKept ==
    \A p \in Procs, va \in Pages :
        /\ pt[p][va] \in Frames => mem[pt[p][va]] = shadow[p][va]
        /\ pt[p][va] = "swap" => disk[p][va] = shadow[p][va]
        /\ pt[p][va] = "none" => shadow[p][va] = Zero

\* On a machine with one hart no translation is stale and every page is kept,
\* although the code that changes page tables runs no sfence.vma.
KeptOnOneHart == (\A g, h \in up : g = h) => TlbFresh /\ PagesKept
=============================================================================
