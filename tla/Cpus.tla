-------------------------------- MODULE Cpus --------------------------------
(***************************************************************************)
(* The harts under the process table: the traps that take a hart from one  *)
(* context to another (Trap) and the clock interrupts that sleep() counts  *)
(* (Clock), side by side. Proc has the table itself and Sched the locks.   *)
(***************************************************************************)
EXTENDS Integers

CONSTANTS
    TrapHarts, TrapProcs, PCS, Causes,      \* of Trap
    ClockHarts, Sleepers, UINT, MAXLAG      \* of Clock

VARIABLES
    t_run, t_csr, t_at, t_pc, t_tf, t_kept, t_intena, t_killed, t_plic, t_panicked, t_upc, t_was,
    c_ticks, c_pc, c_n, c_ticks0, c_killed, c_ret, c_elapsed, c_lag

Trap == INSTANCE Trap WITH
    Harts <- TrapHarts, Procs <- TrapProcs, PCS <- PCS, Causes <- Causes,
    run <- t_run, csr <- t_csr, at <- t_at, pc <- t_pc, tf <- t_tf, kept <- t_kept, intena <- t_intena,
    killed <- t_killed, plic <- t_plic, panicked <- t_panicked, upc <- t_upc, was <- t_was

Clock == INSTANCE Clock WITH
    Harts <- ClockHarts, Procs <- Sleepers, UINT <- UINT, MAXLAG <- MAXLAG,
    ticks <- c_ticks, pc <- c_pc, n <- c_n, ticks0 <- c_ticks0, killed <- c_killed, ret <- c_ret,
    elapsed <- c_elapsed, lag <- c_lag

ASSUME CpusAssumption == Trap!TrapAssumption /\ Clock!ClockAssumption

trap_vars == <<t_run, t_csr, t_at, t_pc, t_tf, t_kept, t_intena, t_killed, t_plic, t_panicked, t_upc, t_was>>
clock_vars == <<c_ticks, c_pc, c_n, c_ticks0, c_killed, c_ret, c_elapsed, c_lag>>

\* A user program resumes where it was interrupted, with its own registers and
\* on the hart its trapframe names; kernel code that an interrupt of devintr()
\* preempts goes on with the sepc and sstatus it had; no trap panics.
Resumes == Trap!NoPanic /\ Trap!KernelRight /\ Trap!Resumes

\* sys_sleep() returns 0 only after its n ticks and -1 only to a killed process,
\* also when the uint of ticks wraps; clockintr() leaves nobody asleep whose
\* time has come.
SleepsEnough == [](Clock!TypeOK /\ Clock!NotOverslept) /\ [][Clock!SleepsEnough]_clock_vars
=============================================================================
