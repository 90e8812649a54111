------------------------------ MODULE MCSpaces ------------------------------
(* Model checking address spaces: the TLBs of two harts, the tree of one     *)
(* page table, and the copies between user and kernel memory.                *)
EXTENDS Tlb

VARIABLES
    part,       \* the component this behaviour is about; the others are not there
    t_m, t_pagetable, t_sz, t_trapframe, t_other,
    c_perm, c_mem, c_sz, c_free, c_res

pagetable_vars == <<t_m, t_pagetable, t_sz, t_trapframe, t_other>>
usercopy_vars == <<c_perm, c_mem, c_sz, c_free, c_res>>
mcvars == <<part, vars, pagetable_vars, usercopy_vars>>

Tree == INSTANCE PageTable WITH
    LEVELS <- 3, FANOUT <- 2, NFRAMES <- 8, m <- t_m, pagetable <- t_pagetable, sz <- t_sz,
    trapframe <- t_trapframe, other <- t_other

Copy == INSTANCE UserCopy WITH
    PGSIZE <- 3, NPAGES <- 2, SPACE <- 7, Values <- {0, 3}, MAXARG <- 3, MAXPATH <- 2,
    KPAGES <- 2, perm <- c_perm, mem <- c_mem, sz <- c_sz, free <- c_free, res <- c_res

ASSUME MCSpacesAssumption ==
    /\ Tree!PageTableAssumption /\ Copy!UserCopyAssumption

NoPageTable ==
    /\ t_m = 0 /\ t_pagetable = 0 /\ t_sz = 0 /\ t_trapframe = 0 /\ t_other = 0

NoUserCopy ==
    /\ c_perm = 0 /\ c_mem = 0 /\ c_sz = 0 /\ c_free = 0 /\ c_res = 0

MCInit ==
    /\ part \in {"tlb", "tree", "copy"}
    /\ Init
    /\ IF part = "tree" THEN Tree!Init ELSE NoPageTable
    /\ IF part = "copy" THEN Copy!Init ELSE NoUserCopy
    /\ part # "tlb" => up = Harts

MCNext ==
    \/ part = "tlb" /\ Next /\ UNCHANGED <<part, pagetable_vars, usercopy_vars>>
    \/ part = "tree" /\ Tree!Next /\ UNCHANGED <<part, vars, usercopy_vars>>
    \/ part = "copy" /\ Copy!Next /\ UNCHANGED <<part, vars, pagetable_vars>>

MCSpec == MCInit /\ [][MCNext]_mcvars

-----------------------------------------------------------------------------
\* mappages(), uvmunmap(), uvmalloc(), freewalk(): after any calls and failures the tree
\* maps the pages below sz, the trapframe and the trampoline, each at its own frame, every
\* frame is free or in one place, and none of their panics is reached.
MappedExactly == part = "tree" => Tree!MappedExactly /\ Tree!FramesOnce /\ Tree!NoPanic

\* copyin(), copyout(), copyinstr(), sys_exec(): a copy succeeds exactly when the program
\* may access all of the range, and moves just that; a string or argument vector is fetched
\* whole or refused, and every page taken for it is given back.
CopiesRight ==
    /\ [](part = "copy" => Copy!CopyinRight /\ Copy!ArgstrRight /\ Copy!ExecArgs)
    /\ [][part = "copy" => Copy!CopyoutRight]_mcvars

=============================================================================
