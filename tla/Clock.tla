-------------------------------- MODULE Clock --------------------------------
(***************************************************************************)
(* The clock and the processes that sleep on it: clockintr() of            *)
(* kernel/trap.c, sys_sleep() of kernel/sysproc.c and kill() of            *)
(* kernel/proc.c, which does not take tickslock.                           *)
(*                                                                         *)
(* tickslock is held over the steps "first" and "sleep" of a caller; a     *)
(* kill() fits between its test of p->killed and its sleep().              *)
(* sleep() itself releases tickslock and sleeps in one step; that this is  *)
(* so is what Sched shows.                                                 *)
(***************************************************************************)
EXTENDS Integers

CONSTANTS
    Harts,      \* the harts; hart 0 counts the ticks
    Procs,      \* processes that call sleep()
    UINT,       \* 2^32: ticks is a uint and wraps
    MAXLAG      \* bound: ticks that pass before a woken sleeper runs

\* int arguments: half of the unsigned range on either side of zero.
Ints == -(UINT \div 2) .. (UINT \div 2) - 1

ClockAssumption ==
    /\ 0 \in Harts
    /\ UINT \in Nat /\ UINT % 2 = 0 /\ MAXLAG \in 1 .. (UINT \div 2)

VARIABLES
    ticks,      \* ticks since start
    pc,         \* where each process is in sys_sleep()
    n,          \* its argument
    ticks0,     \* ticks when it started
    killed,     \* p->killed
    ret,        \* what its last sleep() returned
    elapsed,    \* history: ticks since its sleep() started
    lag         \* history: ticks since it was woken

vars == <<ticks, pc, n, ticks0, killed, ret, elapsed, lag>>

Init ==
    /\ ticks = 0
    /\ pc = [p \in Procs |-> "user"]
    /\ n = [p \in Procs |-> 0]
    /\ ticks0 = [p \in Procs |-> 0]
    /\ killed = [p \in Procs |-> FALSE]
    /\ ret = [p \in Procs |-> 0]
    /\ elapsed = [p \in Procs |-> 0]
    /\ lag = [p \in Procs |-> 0]

-----------------------------------------------------------------------------
\* tickslock is held from sleep()'s return, or the start of the call, to the
\* next sleep() or the end of the call.
LockFree == \A p \in Procs : pc[p] \notin {"first", "sleep"}

\* if(n < 0) n = 0
Clipped(a) == IF a < 0 THEN 0 ELSE a

\* sleep(a): take tickslock, note the time.
Call(p, a) ==
    /\ pc[p] = "user" /\ ~killed[p] /\ LockFree
    /\ n' = [n EXCEPT ![p] = Clipped(a)]
    /\ ticks0' = [ticks0 EXCEPT ![p] = ticks]
    /\ pc' = [pc EXCEPT ![p] = "first"]
    /\ UNCHANGED <<ticks, killed, ret, elapsed, lag>>

\* (mutant) the time compared with the end of the sleep
Mut_Over(p) == ticks >= (ticks0[p] + n[p]) % UINT

\* !(ticks - ticks0 < n), in unsigned arithmetic
Over(p) == (ticks - ticks0[p]) % UINT >= n[p]

\* The call returns v; its locals are gone.
Return(p, v) ==
    /\ pc' = [pc EXCEPT ![p] = "user"]
    /\ ret' = [ret EXCEPT ![p] = v]
    /\ n' = [n EXCEPT ![p] = 0]
    /\ ticks0' = [ticks0 EXCEPT ![p] = 0]
    /\ elapsed' = [elapsed EXCEPT ![p] = 0]

\* The tests of the while loop and of killed(), at the start of the call or
\* after sleep() has taken tickslock again.
Test(p) ==
    /\ pc[p] = "first" \/ (pc[p] = "woken" /\ LockFree)
    /\ \/ Over(p) /\ Return(p, 0)
       \/ ~Over(p) /\ killed[p] /\ Return(p, -1)
       \/ /\ ~Over(p) /\ ~killed[p]
          /\ pc' = [pc EXCEPT ![p] = "sleep"]
          /\ UNCHANGED <<n, ticks0, ret, elapsed>>
    /\ lag' = [lag EXCEPT ![p] = 0]
    /\ UNCHANGED <<ticks, killed>>

\* sleep(&ticks, &tickslock)
Sleep(p) ==
    /\ pc[p] = "sleep"
    /\ pc' = [pc EXCEPT ![p] = "asleep"]
    /\ UNCHANGED <<ticks, n, ticks0, killed, ret, elapsed, lag>>

\* if(cpuid() == 0)
Counts(h) == h = 0

\* History: a tick of hart 0 passes for every caller (counted up to UINT).
Elapses ==
    /\ elapsed' = [p \in Procs |-> IF pc[p] = "user" THEN 0
                                   ELSE IF elapsed[p] = UINT THEN UINT ELSE elapsed[p] + 1]
    /\ lag' = [p \in Procs |-> IF pc[p] = "woken" THEN lag[p] + 1 ELSE 0]

\* wakeup(&ticks)
Woken == [p \in Procs |-> IF pc[p] = "asleep" THEN "woken" ELSE pc[p]]

\* clockintr(): hart 0 counts the tick and wakes every sleeper.  The
\* scheduler runs a woken sleeper before MAXLAG further ticks.
clockintr(h) ==
    /\ \A p \in Procs : lag[p] < MAXLAG
    /\ \/ /\ Counts(h) /\ LockFree
          /\ ticks' = (ticks + 1) % UINT
          /\ pc' = Woken
       \/ ~Counts(h) /\ UNCHANGED <<ticks, pc>>
    /\ IF h = 0 THEN Elapses ELSE UNCHANGED <<elapsed, lag>>
    /\ UNCHANGED <<n, ticks0, killed, ret>>

\* kill(): set p->killed, wake p from sleep().
kill(p) ==
    /\ ~killed[p]
    /\ killed' = [killed EXCEPT ![p] = TRUE]
    /\ pc' = [pc EXCEPT ![p] = IF @ = "asleep" THEN "woken" ELSE @]
    /\ UNCHANGED <<ticks, n, ticks0, ret, elapsed, lag>>

Next ==
    \/ \E p \in Procs : Test(p) \/ Sleep(p) \/ kill(p)
    \/ \E p \in Procs, a \in Ints : Call(p, a)
    \/ \E h \in Harts : clockintr(h)

\* Hart 0 takes its timer interrupts, a process that can run does, and both get
\* tickslock in the end if it is free again and again.
Fairness ==
    /\ SF_vars(clockintr(0))
    /\ \A p \in Procs : SF_vars(Test(p)) /\ WF_vars(Sleep(p))

Spec == Init /\ [][Next]_vars /\ Fairness

-----------------------------------------------------------------------------
TypeOK ==
    /\ ticks \in 0 .. UINT - 1
    /\ pc \in [Procs -> {"user", "first", "sleep", "asleep", "woken"}]
    /\ n \in [Procs -> 0 .. (UINT \div 2) - 1]
    /\ ticks0 \in [Procs -> 0 .. UINT - 1]
    /\ killed \in [Procs -> BOOLEAN]
    /\ ret \in [Procs -> {0, -1}]
    /\ elapsed \in [Procs -> 0 .. UINT]
    /\ lag \in [Procs -> 0 .. MAXLAG]

\* A call of sleep(n) that returns 0 has lasted at least n ticks of hart 0,
\* and one that returns -1 was killed, however the 32-bit count of ticks
\* wraps meanwhile.
SleepsEnough ==
    \A p \in Procs : pc[p] # "user" /\ pc'[p] = "user" =>
        IF ret'[p] = 0 THEN elapsed[p] >= n[p] ELSE killed[p]

\* A process is never left asleep once its time has come: it is asleep only
\* while fewer than n ticks have passed, also if its killer came between its
\* test of p->killed and its sleep().
NotOverslept ==
    \A p \in Procs : pc[p] = "asleep" => elapsed[p] < n[p]

\* Whoever calls sleep() comes back from it, also if kill() finds it between
\* its test of p->killed and its sleep() and so wakes nobody.
SleepEnds ==
    \A p \in Procs : pc[p] # "user" ~> pc[p] = "user"
=============================================================================
