-------------------------------- MODULE Trap --------------------------------
(***************************************************************************)
(* Traps: usertrap(), usertrapret(), kerneltrap() and devintr() of         *)
(* kernel/trap.c with uservec, userret (trampoline.S), kernelvec           *)
(* (kernelvec.S), swtch.S and the claim and completion of plic.c.          *)
(*                                                                         *)
(* A context is a process or the scheduler of a hart. at[c] is where the   *)
(* code of c is, a pair <<routine, point>>. A hart has one set of trap     *)
(* registers, which every context it runs overwrites. Locks and the        *)
(* choice of the scheduler are in Sched; here a switch is one step.        *)
(***************************************************************************)
EXTENDS Integers, FiniteSets

CONSTANTS
    Harts, Procs,
    PCS,        \* number of addresses of a user program, which goes round
    Causes      \* the traps that happen

TrapAssumption ==
    /\ Causes \subseteq {"timer", "device", "ecall", "fault", "bad"}
    /\ PCS \in Nat \ {0} /\ Harts \intersect Procs = {}

VARIABLES
    run,        \* the context a hart executes
    csr,        \* the registers of a hart the trap code uses
    at,         \* where a context is
    pc,         \* the user program counter while a process is in user mode
    tf,         \* p->trapframe: epc, kernel_hartid, kernel_sp
    kept,       \* kerneltrap()'s locals sepc and sstatus
    intena,     \* whether a process that is off its hart had interrupts on
    killed,     \* p->killed
    plic,       \* whether the device has something to say, and who claimed it
    panicked,   \* "no" or the message
    upc, was    \* history: where the program is to go on, where the kernel was interrupted

vars == <<run, csr, at, pc, tf, kept, intena, killed, plic, panicked, upc, was>>

Contexts == Harts \union Procs
User == <<"user", "entry">>
None == <<"none", "entry">>
NoFrame == [sepc |-> [place |-> None, pc |-> 0], spp |-> FALSE, spie |-> FALSE]

Next1(k) == (k + 1) % PCS

\* Every hart in scheduler(), one process on its way out of forkret().
Init ==
    /\ run = [h \in Harts |-> h]
    /\ csr = [h \in Harts |-> [sie |-> FALSE, stvec |-> "kernelvec", cause |-> "none", sepc |-> NoFrame.sepc,
                               spp |-> FALSE, spie |-> FALSE, tp |-> h, satp |-> "kernel", sp |-> h]]
    /\ \E p \in Procs : at = [c \in Contexts |-> IF c \in Harts THEN <<"scheduler", "loop">>
                                                 ELSE IF c = p THEN <<"forkret", "entry">> ELSE None]
    /\ tf = [p \in Procs |-> [epc |-> 0, hart |-> "none", sp |-> "none"]]
    /\ pc = [p \in Procs |-> 0] /\ upc = [p \in Procs |-> 0]
    /\ kept = [c \in Contexts |-> NoFrame] /\ was = [c \in Contexts |-> None]
    /\ intena = [p \in Procs |-> FALSE] /\ killed = [p \in Procs |-> FALSE]
    /\ plic = [raised |-> FALSE, by |-> "none"]
    /\ panicked = "no"

At(h, r, s) == at[run[h]] = <<r, s>> /\ panicked = "no"
Go(h, r, s) == at' = [at EXCEPT ![run[h]] = <<r, s>>]

panic(why) == panicked' = why /\ UNCHANGED <<run, csr, at, pc, tf, kept, intena, killed, plic, upc, was>>

-----------------------------------------------------------------------------
(* The machine.                                                            *)

\* A trap of hart h: from user mode whatever the enable bit says, from the kernel
\* only an interrupt and only when they are on. The vector is in stvec.
trap(h, cause) ==
    LET c == run[h] IN
    LET user == at[c] = User IN
    /\ panicked = "no"
    /\ user \/ (csr[h].sie /\ cause \in {"timer", "device"})
    /\ cause = "device" => plic.raised /\ plic.by = "none"
    /\ csr' = [csr EXCEPT ![h].sepc = [place |-> at[c], pc |-> IF user THEN pc[c] ELSE 0],
                          ![h].spp = ~user, ![h].spie = csr[h].sie, ![h].sie = FALSE, ![h].cause = cause]
    /\ at' = [at EXCEPT ![c] = <<csr[h].stvec, "entry">>]
    /\ pc' = IF user THEN [pc EXCEPT ![c] = 0] ELSE pc
    /\ upc' = IF cause = "ecall" THEN [upc EXCEPT ![c] = Next1(@)] ELSE upc
    /\ was' = IF user THEN was ELSE [was EXCEPT ![c] = at[c]]
    /\ UNCHANGED <<run, tf, kept, intena, killed, plic, panicked>>

\* A step of the program.
execute(h) ==
    LET p == run[h] IN
    /\ at[p] = User /\ panicked = "no"
    /\ pc' = [pc EXCEPT ![p] = Next1(@)] /\ upc' = [upc EXCEPT ![p] = Next1(@)]
    /\ UNCHANGED <<run, csr, at, tf, kept, intena, killed, plic, panicked, was>>

\* The registers after sret on hart h; what they held is dead then.
Sret(r) == [r EXCEPT !.sie = IF r.spp THEN r.spie ELSE FALSE, !.cause = "none",
                     !.sepc = NoFrame.sepc, !.spp = FALSE, !.spie = FALSE]

\* The device has something to say.
raise ==
    /\ "device" \in Causes /\ ~plic.raised /\ panicked = "no"
    /\ plic' = [plic EXCEPT !.raised = TRUE]
    /\ UNCHANGED <<run, csr, at, pc, tf, kept, intena, killed, panicked, upc, was>>

-----------------------------------------------------------------------------
(* scheduler(), sched() and swtch.S: the callee-saved registers and sp go  *)
(* with the context, the trap registers and tp stay with the hart.         *)

\* Process run[h] gives up the hart and will go on at place.
Leave(h, place) ==
    /\ at' = [at EXCEPT ![run[h]] = place]
    /\ intena' = [intena EXCEPT ![run[h]] = csr[h].sie]
    /\ csr' = [csr EXCEPT ![h].sp = h]
    /\ run' = [run EXCEPT ![h] = h]

scheduler(h) ==
    /\ At(h, "scheduler", "loop") /\ ~csr[h].sie
    /\ csr' = [csr EXCEPT ![h].sie = TRUE]
    /\ UNCHANGED <<run, at, pc, tf, kept, intena, killed, plic, panicked, upc, was>>

\* A new process finds interrupts as the scheduler had them, another as it left them.
swtch(h, p) ==
    /\ At(h, "scheduler", "loop") /\ at[p] # None /\ \A g \in Harts : run[g] # p
    /\ run' = [run EXCEPT ![h] = p]
    /\ csr' = [csr EXCEPT ![h].sp = p,
                          ![h].sie = IF at[p] = <<"forkret", "entry">> THEN @ ELSE intena[p]]
    /\ intena' = [intena EXCEPT ![p] = FALSE]
    /\ UNCHANGED <<at, pc, tf, kept, killed, plic, panicked, upc, was>>

forkret(h) ==
    /\ At(h, "forkret", "entry") /\ Go(h, "usertrapret", "off")
    /\ UNCHANGED <<run, csr, pc, tf, kept, intena, killed, plic, panicked, upc, was>>

-----------------------------------------------------------------------------
(* From user space.                                                        *)

\* The kernel's stack, hart number and page table, as the trapframe names them.
uservec(h) ==
    LET p == run[h] IN
    /\ At(h, "uservec", "entry")
    /\ csr' = [csr EXCEPT ![h].sp = tf[p].sp, ![h].tp = tf[p].hart, ![h].satp = "kernel"]
    /\ Go(h, "usertrap", "entry")
    /\ UNCHANGED <<run, pc, tf, kept, intena, killed, plic, panicked, upc, was>>

usertrap(h) ==
    LET p == run[h] IN
    /\ At(h, "usertrap", "entry")
    /\ IF csr[h].spp THEN panic("usertrap: not from user mode")
       ELSE /\ csr' = [csr EXCEPT ![h].stvec = "kernelvec"]
            /\ tf' = [tf EXCEPT ![p].epc = csr[h].sepc.pc]
            /\ Go(h, "usertrap", csr[h].cause)
            /\ UNCHANGED <<run, pc, kept, intena, killed, plic, panicked, upc, was>>

\* exit(-1): the process leaves its hart for good.
exit(h) ==
    LET p == run[h] IN
    /\ at' = [at EXCEPT ![p] = None] /\ run' = [run EXCEPT ![h] = h]
    /\ csr' = [csr EXCEPT ![h].sp = h]
    /\ tf' = [tf EXCEPT ![p] = [epc |-> 0, hart |-> "none", sp |-> "none"]]
    /\ upc' = [upc EXCEPT ![p] = 0] /\ killed' = [killed EXCEPT ![p] = FALSE]
    /\ UNCHANGED <<pc, kept, intena, plic, panicked, was>>

AfterEcall(epc) == Next1(epc)

ecall(h) ==
    LET p == run[h] IN
    /\ At(h, "usertrap", "ecall")
    /\ IF killed[p] THEN exit(h)
       ELSE /\ tf' = [tf EXCEPT ![p].epc = AfterEcall(@)]
            /\ csr' = [csr EXCEPT ![h].sie = TRUE]
            /\ Go(h, "syscall", "entry")
            /\ UNCHANGED <<run, pc, kept, intena, killed, plic, panicked, upc, was>>

\* A system call, or swapin(), that sleeps.
sleep(h) ==
    /\ At(h, "syscall", "entry") \/ At(h, "usertrap", "fault")
    /\ Leave(h, at[run[h]])
    /\ UNCHANGED <<pc, tf, kept, killed, plic, panicked, upc, was>>

\* fork(): the child starts with its parent's trapframe.
fork(h, q) ==
    LET p == run[h] IN
    /\ At(h, "syscall", "entry") /\ at[q] = None
    /\ at' = [at EXCEPT ![q] = <<"forkret", "entry">>, ![p] = <<"usertrap", "check">>]
    /\ tf' = [tf EXCEPT ![q] = tf[p]] /\ upc' = [upc EXCEPT ![q] = upc[p]]
    /\ UNCHANGED <<run, csr, pc, kept, intena, killed, plic, panicked, was>>

\* kill(q), or a call that changes nothing the trap code depends on.
syscall(h, q) ==
    /\ At(h, "syscall", "entry") /\ at[q] # None
    /\ \E k \in {killed[q], TRUE} : killed' = [killed EXCEPT ![q] = k]
    /\ Go(h, "usertrap", "check")
    /\ UNCHANGED <<run, csr, pc, tf, kept, intena, plic, panicked, upc, was>>

\* swapin() returns, or fails and the process is killed, as after any other exception.
fault(h) ==
    LET p == run[h] IN
    /\ At(h, "usertrap", "fault") \/ At(h, "usertrap", "bad")
    /\ \E k \in (IF at[p][2] = "bad" THEN {TRUE} ELSE {killed[p], TRUE}) : killed' = [killed EXCEPT ![p] = k]
    /\ Go(h, "usertrap", "check")
    /\ UNCHANGED <<run, csr, pc, tf, kept, intena, plic, panicked, upc, was>>

\* The end of usertrap(); after a timer interrupt with a yield().
check(h) ==
    LET p == run[h] IN
    /\ At(h, "usertrap", "check") \/ At(h, "usertrap", "timer")
    /\ IF killed[p] THEN exit(h)
       ELSE /\ IF at[p][2] = "timer" THEN Leave(h, <<"usertrapret", "off">>)
               ELSE Go(h, "usertrapret", "off") /\ UNCHANGED <<run, csr, intena>>
            /\ UNCHANGED <<pc, tf, kept, killed, plic, panicked, upc, was>>

-----------------------------------------------------------------------------
(* Back to user space.                                                     *)

intr_off(r) == [r EXCEPT !.sie = FALSE]

usertrapret_off(h) ==
    /\ At(h, "usertrapret", "off")
    /\ csr' = [csr EXCEPT ![h] = intr_off(@)]
    /\ Go(h, "usertrapret", "vector")
    /\ UNCHANGED <<run, pc, tf, kept, intena, killed, plic, panicked, upc, was>>

usertrapret_vector(h) ==
    /\ At(h, "usertrapret", "vector")
    /\ csr' = [csr EXCEPT ![h].stvec = "uservec"]
    /\ Go(h, "usertrapret", "frame")
    /\ UNCHANGED <<run, pc, tf, kept, intena, killed, plic, panicked, upc, was>>

\* What uservec will need at the next trap.
kernel(f, h, p) == [f EXCEPT !.sp = p, !.hart = h]

usertrapret_frame(h) ==
    LET p == run[h] IN
    /\ At(h, "usertrapret", "frame")
    /\ tf' = [tf EXCEPT ![p] = kernel(@, csr[h].tp, p)]
    /\ csr' = [csr EXCEPT ![h].spp = FALSE, ![h].spie = TRUE,
                          ![h].sepc = [place |-> User, pc |-> tf[p].epc]]
    /\ Go(h, "userret", "entry")
    /\ UNCHANGED <<run, pc, kept, intena, killed, plic, panicked, upc, was>>

\* The user's page table and registers, tp among them, and sret.
userret(h) ==
    LET p == run[h] IN
    /\ At(h, "userret", "entry")
    /\ csr' = [csr EXCEPT ![h] = [Sret(@) EXCEPT !.satp = p, !.tp = "user", !.sp = "user"]]
    /\ at' = [at EXCEPT ![p] = csr[h].sepc.place] /\ pc' = [pc EXCEPT ![p] = csr[h].sepc.pc]
    /\ UNCHANGED <<run, tf, kept, intena, killed, plic, panicked, upc, was>>

-----------------------------------------------------------------------------
(* From the kernel.                                                        *)

kernelvec(h) ==
    LET c == run[h] IN
    /\ At(h, "kernelvec", "entry")
    /\ IF ~csr[h].spp THEN panic("kerneltrap: not from supervisor mode")
       ELSE IF csr[h].sie THEN panic("kerneltrap: interrupts enabled")
       ELSE /\ kept' = [kept EXCEPT ![c] = [sepc |-> csr[h].sepc, spp |-> csr[h].spp, spie |-> csr[h].spie]]
            /\ Go(h, "kerneltrap", csr[h].cause)
            /\ UNCHANGED <<run, csr, pc, tf, intena, killed, plic, panicked, upc, was>>

\* A timer interrupt: yield(), unless it is the scheduler that was interrupted.
kerneltrap_timer(h) ==
    /\ At(h, "kerneltrap", "timer")
    /\ IF run[h] \in Procs THEN Leave(h, <<"kerneltrap", "check">>)
       ELSE Go(h, "kerneltrap", "check") /\ UNCHANGED <<run, csr, intena>>
    /\ UNCHANGED <<pc, tf, kept, killed, plic, panicked, upc, was>>

\* (mutant) the registers are taken to be as they were
Mut_restore(r, k) == r

restore(r, k) == [r EXCEPT !.sepc = k.sepc, !.spp = k.spp, !.spie = k.spie, !.sie = FALSE]

\* The registers the interrupted code needs, other traps in between or not.
kerneltrap_end(h) ==
    /\ At(h, "kerneltrap", "check")
    /\ csr' = [csr EXCEPT ![h] = restore(@, kept[run[h]])]
    /\ kept' = [kept EXCEPT ![run[h]] = NoFrame]
    /\ Go(h, "kernelvec", "sret")
    /\ UNCHANGED <<run, pc, tf, intena, killed, plic, panicked, upc, was>>

\* kernelvec puts the registers back, except tp, and returns.
kernelvec_sret(h) ==
    /\ At(h, "kernelvec", "sret")
    /\ csr' = [csr EXCEPT ![h] = Sret(@)]
    /\ at' = [at EXCEPT ![run[h]] = csr[h].sepc.place]
    /\ was' = [was EXCEPT ![run[h]] = None]
    /\ UNCHANGED <<run, pc, tf, kept, intena, killed, plic, panicked, upc>>

-----------------------------------------------------------------------------
(* devintr() on an external interrupt, in usertrap() and in kerneltrap().  *)

devintr(h, s) == at[run[h]][1] \in {"usertrap", "kerneltrap"} /\ At(h, at[run[h]][1], s)

\* The PLIC gives an interrupt to one of the harts that ask, the others get 0.
plic_claim(h) ==
    /\ devintr(h, "device")
    /\ IF plic.raised /\ plic.by = "none"
       THEN plic' = [plic EXCEPT !.by = h] /\ Go(h, at[run[h]][1], "serve")
       ELSE Go(h, at[run[h]][1], "check") /\ UNCHANGED plic
    /\ UNCHANGED <<run, csr, pc, tf, kept, intena, killed, panicked, upc, was>>

\* uartintr() or virtio_disk_intr(): everything the device has to say.
serve(h) ==
    /\ devintr(h, "serve")
    /\ plic' = [plic EXCEPT !.raised = FALSE]
    /\ Go(h, at[run[h]][1], "complete")
    /\ UNCHANGED <<run, csr, pc, tf, kept, intena, killed, panicked, upc, was>>

Completed(g) == [g EXCEPT !.by = "none"]

plic_complete(h) ==
    /\ devintr(h, "complete")
    /\ plic' = Completed(plic)
    /\ Go(h, at[run[h]][1], "check")
    /\ UNCHANGED <<run, csr, pc, tf, kept, intena, killed, panicked, upc, was>>

-----------------------------------------------------------------------------
\* The kernel on hart h.
Kernel(h) ==
    \/ scheduler(h)
    \/ \E p \in Procs : swtch(h, p)
    \/ forkret(h)
    \/ uservec(h)
    \/ usertrap(h)
    \/ ecall(h)
    \/ \E q \in Procs : fork(h, q)
    \/ \E q \in Procs : syscall(h, q)
    \/ fault(h)
    \/ check(h)
    \/ usertrapret_off(h)
    \/ usertrapret_vector(h)
    \/ usertrapret_frame(h)
    \/ userret(h)
    \/ kernelvec(h)
    \/ kerneltrap_timer(h)
    \/ kerneltrap_end(h)
    \/ kernelvec_sret(h)
    \/ plic_claim(h)
    \/ serve(h)
    \/ plic_complete(h)

Next ==
    \/ \E h \in Harts : Kernel(h)
    \/ \E h \in Harts : sleep(h)
    \/ \E h \in Harts : execute(h)
    \/ \E h \in Harts : \E cause \in Causes : trap(h, cause)
    \/ raise

\* A hart goes on in the kernel, and takes an interrupt that is pending whenever
\* interrupts are on again and again.
Fairness == \A h \in Harts : WF_vars(Kernel(h)) /\ SF_vars(trap(h, "device"))

Spec == Init /\ [][Next]_vars /\ Fairness

-----------------------------------------------------------------------------
\* No trap reaches the wrong one of the two handlers, and none finds interrupts on:
\* the panics at the start of usertrap() and kerneltrap() are not reached.
NoPanic == panicked = "no"

\* Whatever a hart runs in the kernel, it runs on that context's own stack and the
\* kernel's page table, with its own number in tp, which cpuid() trusts; a
\* process in user mode is on its own page table.
KernelRight == \A h \in Harts :
    LET c == run[h] IN
    IF at[c] \in {User, <<"uservec", "entry">>} THEN csr[h].satp = c
    ELSE csr[h].tp = h /\ csr[h].satp = "kernel" /\ csr[h].sp = c

\* Every sret goes back to where that program, or that kernel code, was interrupted,
\* in the mode and with the interrupt state it had, although a hart has one set of
\* trap registers and processes change places: after a system call behind the ecall,
\* after an interrupt or a page fault at the same instruction.
Resumes == \A h \in Harts :
    LET c == run[h] r == csr[h] IN
    /\ at[c] = <<"userret", "entry">> => r.sepc = [place |-> User, pc |-> upc[c]] /\ ~r.spp /\ r.spie
    /\ at[c] = <<"kernelvec", "sret">> => r.sepc.place = was[c] /\ r.spp /\ r.spie
    /\ at[c] = User => pc[c] = upc[c] /\ r.stvec = "uservec"

\* What a device has to say is heard: however often harts race for the claim,
\* the interrupt is completed and the device can interrupt again.
Served == plic.raised ~> ~plic.raised

=============================================================================
