------------------------------ MODULE MCMemory ------------------------------
(* Model checking memory: one process that evicts its own pages, two that    *)
(* evict each other's, fork() with pages in the swap area, and exec().       *)
EXTENDS SwapVM

CONSTANTS p1, f5, f6

Seg(va, memsz, off, filesz) == [va |-> va, memsz |-> memsz, off |-> off, filesz |-> filesz]

\* Two segments with a tail of zeros; segments in descending order; and headers that
\* must be refused: too much file, an end that wraps, an unaligned start.
Programs == {<<Seg(0, 2, 0, 2)>>, <<Seg(0, 3, 0, 3), Seg(4, 3, 3, 1)>>, <<Seg(4, 4, 0, 4), Seg(0, 4, 4, 2)>>,
             <<Seg(0, 1, 0, 5)>>, <<Seg(60, 8, 0, 1)>>, <<Seg(2, 2, 0, 2)>>}
Small == {<<Seg(0, 2, 0, 2)>>, <<Seg(0, 6, 0, 6)>>}
Arguments == {<<>>, <<1>>, <<1, 1>>, <<2>>, <<4>>}

VARIABLES
    part,       \* the component this behaviour is about; the others are not there
    x_mem, x_free, x_other, x_pt, x_sz, x_ip, x_op, x_x, x_was, x_panicked

exec_vars == <<x_mem, x_free, x_other, x_pt, x_sz, x_ip, x_op, x_x, x_was, x_panicked>>
mcvars == <<part, vars, exec_vars>>

Duo == INSTANCE SwapVM WITH
    Procs <- {Root, p1}, Live0 <- {Root, p1}, Frames <- Frames \union {f5, f6}, NSlots <- 2,
    MaxPages <- 2, LeafSpan <- 2, GrowMax <- 1, Growers <- {Root}, Shrinkers <- {},
    Forkers <- {}, Exiters <- {}, Reapers <- {}, Copiers <- {}, Racers <- {}
Tight == INSTANCE SwapVM WITH
    Procs <- {Root, p1}, Live0 <- {Root, p1}, Frames <- Frames \union {f5, f6}, NSlots <- 1,
    MaxPages <- 2, LeafSpan <- 2, GrowMax <- 1, Growers <- {Root, p1}, Shrinkers <- {},
    Forkers <- {}, Exiters <- {}, Reapers <- {}, Copiers <- {}, Racers <- {}
Fork == INSTANCE SwapVM WITH
    Procs <- {Root, p1}, Live0 <- {Root}, Frames <- Frames \union {f5}, NSlots <- 2,
    MaxPages <- 2, LeafSpan <- 2, GrowMax <- 1, Growers <- {Root}, Shrinkers <- {},
    Forkers <- {Root}, Exiters <- {p1}, Reapers <- {Root}, Copiers <- {}, Racers <- {}

Roomy == INSTANCE Exec WITH
    Frames <- 1 .. 6, SLOTS <- 0, PGSIZE <- 4, NPAGES <- 8, ADDR <- 64, USERSTACK <- 1,
    MAXARG <- 4, ALIGN <- 2, PTR <- 1, Elfs <- Programs, Argvs <- Arguments, mem <- x_mem,
    free <- x_free, other <- x_other, pt <- x_pt, sz <- x_sz, ip <- x_ip, op <- x_op, x <- x_x,
    was <- x_was, panicked <- x_panicked
Crowded == INSTANCE Exec WITH
    Frames <- 1 .. 3, SLOTS <- 3, PGSIZE <- 4, NPAGES <- 8, ADDR <- 64, USERSTACK <- 1,
    MAXARG <- 4, ALIGN <- 2, PTR <- 1, Elfs <- Small, Argvs <- {<<1>>}, mem <- x_mem,
    free <- x_free, other <- x_other, pt <- x_pt, sz <- x_sz, ip <- x_ip, op <- x_op, x <- x_x,
    was <- x_was, panicked <- x_panicked

ASSUME MCMemoryAssumption ==
    /\ Roomy!ExecAssumption /\ Crowded!ExecAssumption

NoSwapVM ==
    /\ freelist = 0 /\ mem = 0 /\ disk = 0 /\ swap_bitmap = 0 /\ lru = 0 /\ lru_lock = 0
    /\ pages = 0 /\ pt = 0 /\ kpg = 0 /\ sz = 0 /\ state = 0 /\ th = 0 /\ oops = 0
    /\ shadow = 0

NoExec ==
    /\ x_mem = 0 /\ x_free = 0 /\ x_other = 0 /\ x_pt = 0 /\ x_sz = 0 /\ x_ip = 0 /\ x_op = 0
    /\ x_x = 0 /\ x_was = 0 /\ x_panicked = 0

MCInit ==
    /\ part \in {"solo", "duo", "tight", "fork", "exec", "execswap"}
    /\ IF part = "solo" THEN Init ELSE IF part = "duo" THEN Duo!Init ELSE IF part = "tight" THEN Tight!Init ELSE IF part = "fork" THEN Fork!Init ELSE NoSwapVM
    /\ IF part = "exec" THEN Roomy!Init ELSE IF part = "execswap" THEN Crowded!Init ELSE NoExec

MCNext ==
    \/ part = "solo" /\ Next /\ UNCHANGED <<part, exec_vars>>
    \/ part = "duo" /\ Duo!Next /\ UNCHANGED <<part, exec_vars>>
    \/ part = "tight" /\ Tight!Next /\ UNCHANGED <<part, exec_vars>>
    \/ part = "fork" /\ Fork!Next /\ UNCHANGED <<part, exec_vars>>
    \/ part = "exec" /\ Roomy!Next /\ UNCHANGED <<part, vars>>
    \/ part = "execswap" /\ Crowded!Next /\ UNCHANGED <<part, vars>>

\* Every hart keeps executing the kernel thread it runs.
MCSpec ==
    /\ MCInit /\ [][MCNext]_mcvars
    /\ WF_mcvars(part = "solo" /\ Kernel(Root) /\ UNCHANGED <<part, exec_vars>>)

-----------------------------------------------------------------------------
\* kalloc(), kfree(), swapout(), swapin(), uvmcopy(), uvmunmap(), exec(): every frame is on
\* the free list, in one page table, or in the hands of one call, and every slot marked in
\* swap_bitmap belongs to one page-table entry or to one call; a call that fails gives back
\* what it took.
Owned ==
    /\ part = "solo" => FramesOwned /\ SlotsOwned
    /\ part = "duo" => Duo!FramesOwned /\ Duo!SlotsOwned
    /\ part = "tight" => Tight!FramesOwned /\ Tight!SlotsOwned
    /\ part = "fork" => Fork!FramesOwned /\ Fork!SlotsOwned
    /\ part = "exec" => Roomy!FramesOwned
    /\ part = "execswap" => Crowded!FramesOwned

\* swapout(), swapin(): every page of every process holds what the process last stored
\* there, in memory or in its slot.
PagesIntact ==
    /\ part = "solo" => DataIntact
    /\ part = "duo" => Duo!DataIntact
    /\ part = "tight" => Tight!DataIntact

\* lru_add(), lru_remove(), fork(): a frame on the list of the clock is one that a page
\* table maps, and with fork() every user page in memory can be found by it, whichever
\* process mapped it.
ClockRight ==
    /\ part = "duo" => Duo!LruPresent
    /\ part = "tight" => Tight!LruPresent
    /\ part = "fork" => Fork!LruComplete

\* exec(), loadseg(): a call that succeeds leaves the segments of the file, zeros behind
\* them, a guard page and a stack with the strings of argv and pointers to them in order; a
\* call that fails leaves memory and size of the process as they were; both have put the
\* inode and ended the transaction.
ExecRight ==
    /\ part = "exec" => Roomy!TypeOK /\ Roomy!NoPanic /\ Roomy!ImageLoaded /\ Roomy!ArgvRight /\ Roomy!FailsCleanly /\ Roomy!CallEnds
    /\ part = "execswap" => Crowded!ArgvRight /\ Crowded!FailsCleanly /\ Crowded!CallEnds

\* usertrap(), swapout(): every trap of a process returns: page faults and system calls
\* that allocate memory end, although kalloc() and the second-chance scan loop without a
\* bound.
TrapsReturn == []<>(part = "solo" => th[Root].pc = "user" \/ oops # "no")

=============================================================================
