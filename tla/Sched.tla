------------------------------- MODULE Sched --------------------------------
(***************************************************************************)
(* Harts, spin locks, interrupts and context switches: kernel/spinlock.c,  *)
(* the scheduler, sched(), yield(), sleep(), wakeup() and forkret() of     *)
(* kernel/proc.c, the interrupt path of kernel/trap.c and sys_sleep().     *)
(*                                                                         *)
(* A context is a process's kernel thread or the scheduler of a hart.      *)
(* todo[c] is what is left of the calls context c is in, as a sequence of  *)
(* instructions <<name, argument>>; an interrupt puts its handler in front.*)
(* One instruction is one step: the spin lock keeps the rest together.     *)
(***************************************************************************)
EXTENDS Integers, Sequences, FiniteSets

CONSTANTS
    Harts, Hart0,   \* the harts, and the one with cpuid() 0
    Table,          \* proc[]: the processes in table order
    Tick,           \* tickslock
    WORD,           \* values of ticks, a uint
    MaxSleep        \* largest argument of sleep()

Listed == {Table[k] : k \in DOMAIN Table}
Locks == Listed \union {Tick}

SchedAssumption ==
    /\ Hart0 \in Harts /\ MaxSleep \in Nat /\ WORD \in Nat /\ MaxSleep < WORD
    /\ Listed \intersect Harts = {} /\ Tick \notin Listed \union Harts

VARIABLES
    sie, noff, intena,      \* each hart: interrupts on, struct cpu
    running,                \* the context each hart executes; c->proc unless it is the hart itself
    holder,                 \* lk->locked and lk->cpu: the hart, or "free"
    state, chan,            \* struct proc
    todo,
    ticks,
    panicked                \* "no" or the message

cpu  == <<sie, noff, intena, running>>
vars == <<cpu, holder, state, chan, todo, ticks, panicked>>

Contexts == Harts \union Listed

-----------------------------------------------------------------------------
(* The code, as instruction sequences.                                     *)

RECURSIVE Concat(_)
Concat(ss) == IF ss = <<>> THEN <<>> ELSE Head(ss) \o Concat(Tail(ss))

yield(p) == <<<<"acquire", p>>, <<"runnable", p>>, <<"sched", p>>, <<"release", p>>>>

\* (mutant) the condition lock is released before p->lock is taken
Mut_sleep(p, lk) == <<<<"release", lk>>, <<"acquire", p>>, <<"sleeping", p>>, <<"sched", p>>,
                      <<"awake", p>>, <<"release", p>>, <<"acquire", lk>>>>

sleep(p, lk) == <<<<"acquire", p>>, <<"release", lk>>, <<"sleeping", p>>, <<"sched", p>>,
                  <<"awake", p>>, <<"release", p>>, <<"acquire", lk>>>>

\* (mutant) the loop stops before the last entry of the table
Mut_wakeup(c) ==
    Concat([k \in 1 .. Len(Table) - 1 |->
               IF Table[k] = c THEN <<>>
               ELSE <<<<"acquire", Table[k]>>, <<"wake", Table[k]>>, <<"release", Table[k]>>>>])

\* wakeup(&ticks), by context c.
wakeup(c) ==
    Concat([k \in DOMAIN Table |->
               IF Table[k] = c THEN <<>>
               ELSE <<<<"acquire", Table[k]>>, <<"wake", Table[k]>>, <<"release", Table[k]>>>>])

clockintr(c, h) ==
    IF h # Hart0 THEN <<>>
    ELSE <<<<"acquire", Tick>>, <<"tick", c>>>> \o wakeup(c) \o <<<<"release", Tick>>>>

\* kerneltrap() and usertrap() on a timer interrupt.
timertrap(c, h) ==
    clockintr(c, h) \o (IF c \in Listed THEN yield(c) ELSE <<>>) \o <<<<"iret", c>>>>

\* One round of scheduler().
scheduler(h) ==
    <<<<"intr_on", h>>>> \o
    Concat([k \in DOMAIN Table |->
               <<<<"acquire", Table[k]>>, <<"switch", Table[k]>>, <<"release", Table[k]>>>>])

killed(p) == <<<<"acquire", p>>, <<"release", p>>>>

\* usertrap() around sys_sleep(n).
sys_sleep(p, n) ==
    killed(p) \o <<<<"intr_on", p>>, <<"acquire", Tick>>, <<"ticks0", n>>>>

\* What follows sys_sleep() in usertrap(), and usertrapret().
trapret(p) == killed(p) \o <<<<"intr_off", p>>, <<"uret", p>>>>

\* forkret(): the scheduler's p->lock is released on the way to user space.
forkret(p) == <<<<"release", p>>, <<"intr_off", p>>, <<"uret", p>>>>

-----------------------------------------------------------------------------
\* Every hart at the start of scheduler(), every process forked and runnable.
Init ==
    /\ sie = [h \in Harts |-> FALSE] /\ noff = [h \in Harts |-> 0]
    /\ intena = [h \in Harts |-> FALSE] /\ running = [h \in Harts |-> h]
    /\ holder = [l \in Locks |-> "free"]
    /\ state = [p \in Listed |-> "RUNNABLE"] /\ chan = [p \in Listed |-> 0]
    /\ todo = [c \in Contexts |-> IF c \in Listed THEN forkret(c) ELSE scheduler(c)]
    /\ ticks = 0 /\ panicked = "no"

Op(h)  == Head(todo[running[h]])[1]
Arg(h) == Head(todo[running[h]])[2]
Rest(h) == Tail(todo[running[h]])

\* Context c goes on with code s.
Then(h, s) == todo' = [todo EXCEPT ![running[h]] = s]

At(h, name) == todo[running[h]] # <<>> /\ Op(h) = name /\ panicked = "no"

panic(why) ==
    panicked' = why /\ UNCHANGED <<cpu, holder, state, chan, todo, ticks>>

-----------------------------------------------------------------------------
(* spinlock.c                                                              *)

\* push_off() and the check of holding(): from here on interrupts are off.
acquire(h) ==
    /\ At(h, "acquire")
    /\ IF holder[Arg(h)] = h THEN panic("acquire")
       ELSE /\ intena' = IF noff[h] = 0 THEN [intena EXCEPT ![h] = sie[h]] ELSE intena
            /\ sie' = [sie EXCEPT ![h] = FALSE] /\ noff' = [noff EXCEPT ![h] = @ + 1]
            /\ Then(h, <<<<"spin", Arg(h)>>>> \o Rest(h))
            /\ UNCHANGED <<running, holder, state, chan, ticks, panicked>>

\* The atomic swap finds the lock free.
spin(h) ==
    /\ At(h, "spin") /\ holder[Arg(h)] = "free"
    /\ holder' = [holder EXCEPT ![Arg(h)] = h]
    /\ Then(h, Rest(h))
    /\ UNCHANGED <<cpu, state, chan, ticks, panicked>>

\* pop_off(): the last of the nested locks, and interrupts were on before the first.
Reenable(h) == noff[h] = 1 /\ intena[h]

\* release() with pop_off().
release(h) ==
    /\ At(h, "release")
    /\ IF holder[Arg(h)] # h THEN panic("release")
       ELSE IF sie[h] \/ noff[h] < 1 THEN panic("pop_off")
       ELSE /\ holder' = [holder EXCEPT ![Arg(h)] = "free"]
            /\ noff' = [noff EXCEPT ![h] = @ - 1]
            /\ sie' = [sie EXCEPT ![h] = Reenable(h)]
            /\ Then(h, Rest(h))
            /\ UNCHANGED <<intena, running, state, chan, ticks, panicked>>

-----------------------------------------------------------------------------
(* proc.c                                                                  *)

\* scheduler(): run the process if it is RUNNABLE.
switch(h) ==
    /\ At(h, "switch")
    /\ Then(h, Rest(h))
    /\ IF state[Arg(h)] = "RUNNABLE"
       THEN /\ state' = [state EXCEPT ![Arg(h)] = "RUNNING"]
            /\ running' = [running EXCEPT ![h] = Arg(h)]
       ELSE UNCHANGED <<state, running>>
    /\ UNCHANGED <<sie, noff, intena, holder, chan, ticks, panicked>>

\* sched(): its checks, and the switch to the hart's scheduler.  intena belongs to
\* the thread: it is saved and put back.
sched(h) ==
    /\ At(h, "sched")
    /\ CASE holder[Arg(h)] # h -> panic("sched p->lock")
         [] holder[Arg(h)] = h /\ noff[h] # 1 -> panic("sched locks")
         [] holder[Arg(h)] = h /\ noff[h] = 1 /\ state[Arg(h)] = "RUNNING" -> panic("sched running")
         [] holder[Arg(h)] = h /\ noff[h] = 1 /\ state[Arg(h)] # "RUNNING" /\ sie[h] ->
               panic("sched interruptible")
         [] OTHER -> /\ Then(h, <<<<"resched", intena[h]>>>> \o Rest(h))
                     /\ running' = [running EXCEPT ![h] = h]
                     /\ UNCHANGED <<sie, noff, intena, holder, state, chan, ticks, panicked>>

Restored(h) == Arg(h)

resched(h) ==
    /\ At(h, "resched")
    /\ intena' = [intena EXCEPT ![h] = Restored(h)]
    /\ Then(h, Rest(h))
    /\ UNCHANGED <<sie, noff, running, holder, state, chan, ticks, panicked>>

\* Assignments to p->state and p->chan under p->lock.
setstate(h) ==
    /\ At(h, "runnable") \/ At(h, "sleeping") \/ At(h, "awake") \/ At(h, "wake")
    /\ LET p == Arg(h)
       IN  CASE Op(h) = "runnable" -> state' = [state EXCEPT ![p] = "RUNNABLE"] /\ UNCHANGED chan
             [] Op(h) = "sleeping" -> /\ state' = [state EXCEPT ![p] = "SLEEPING"]
                                      /\ chan' = [chan EXCEPT ![p] = 1]
             [] Op(h) = "awake"    -> chan' = [chan EXCEPT ![p] = 0] /\ UNCHANGED state
             [] Op(h) = "wake"     -> /\ IF state[p] = "SLEEPING" /\ chan[p] = 1
                                         THEN state' = [state EXCEPT ![p] = "RUNNABLE"]
                                         ELSE UNCHANGED state
                                      /\ UNCHANGED chan
    /\ Then(h, Rest(h))
    /\ UNCHANGED <<cpu, holder, ticks, panicked>>

-----------------------------------------------------------------------------
(* sysproc.c and trap.c                                                    *)

tick(h) ==
    /\ At(h, "tick")
    /\ ticks' = (ticks + 1) % WORD
    /\ Then(h, Rest(h))
    /\ UNCHANGED <<cpu, holder, state, chan, panicked>>

\* sys_sleep(): ticks0 = ticks.
ticks0(h) ==
    /\ At(h, "ticks0")
    /\ Then(h, <<<<"while", <<ticks, Arg(h)>>>>>> \o Rest(h))
    /\ UNCHANGED <<cpu, holder, state, chan, ticks, panicked>>

\* ticks - ticks0, as a uint.
Elapsed(t0) == (ticks - t0) % WORD

\* while(ticks - ticks0 < n): killed(), sleep(&ticks, &tickslock).  Nobody is killed here.
while(h) ==
    /\ At(h, "while")
    /\ Then(h, IF Elapsed(Arg(h)[1]) < Arg(h)[2]
               THEN killed(running[h]) \o sleep(running[h], Tick) \o todo[running[h]]
               ELSE <<<<"release", Tick>>>> \o trapret(running[h]))
    /\ UNCHANGED <<cpu, holder, state, chan, ticks, panicked>>

\* intr_on(), intr_off(), and the returns from a trap, which turn them on.
mask(h) ==
    /\ At(h, "intr_on") \/ At(h, "intr_off") \/ At(h, "iret") \/ At(h, "uret")
    /\ sie' = [sie EXCEPT ![h] = Op(h) # "intr_off"]
    /\ Then(h, Rest(h))
    /\ UNCHANGED <<noff, intena, running, holder, state, chan, ticks, panicked>>

\* The scheduler starts another round.
again(h) ==
    /\ panicked = "no" /\ running[h] = h /\ todo[h] = <<>>
    /\ Then(h, scheduler(h))
    /\ UNCHANGED <<cpu, holder, state, chan, ticks, panicked>>

\* A user program calls sleep(): the trap turns interrupts off.
ecall(h) ==
    /\ panicked = "no" /\ running[h] \in Listed /\ todo[running[h]] = <<>>
    /\ \E n \in 0 .. MaxSleep : Then(h, sys_sleep(running[h], n))
    /\ sie' = [sie EXCEPT ![h] = FALSE]
    /\ UNCHANGED <<noff, intena, running, holder, state, chan, ticks, panicked>>

\* A timer interrupt, wherever interrupts are on.
timer(h) ==
    /\ panicked = "no" /\ sie[h]
    /\ sie' = [sie EXCEPT ![h] = FALSE]
    /\ Then(h, timertrap(running[h], h) \o todo[running[h]])
    /\ UNCHANGED <<noff, intena, running, holder, state, chan, ticks, panicked>>

-----------------------------------------------------------------------------
Step(h) ==
    \/ acquire(h) \/ spin(h) \/ release(h) \/ switch(h) \/ sched(h) \/ resched(h)
    \/ setstate(h) \/ tick(h) \/ ticks0(h) \/ while(h) \/ mask(h) \/ again(h)

Halted == panicked # "no" /\ UNCHANGED vars

Next == (\E h \in Harts : Step(h) \/ ecall(h) \/ timer(h)) \/ Halted

Spec == Init /\ [][Next]_vars

\* Context c executes an instruction of its own, not of an interrupt handler.
Progress(c) ==
    /\ \A k \in DOMAIN todo[c] : todo[c][k][1] # "iret"
    /\ \E h \in Harts : running[h] = c /\ Step(h)

\* Harts execute; a pending timer interrupt is taken the moment interrupts are on;
\* a hart spinning for a lock gets it in the end; and clockintr() asks for the next
\* interrupt far enough ahead for the interrupted code to get on.
Fairness ==
    /\ \A h \in Harts : WF_vars(Step(h)) /\ SF_vars(timer(h))
    /\ \A c \in Contexts : SF_vars(Progress(c))

FairSpec == Spec /\ Fairness

-----------------------------------------------------------------------------
(* Properties.                                                             *)

TypeOK ==
    /\ sie \in [Harts -> BOOLEAN] /\ noff \in [Harts -> 0 .. 3] /\ intena \in [Harts -> BOOLEAN]
    /\ running \in [Harts -> Contexts] /\ \A h \in Harts : running[h] \in {h} \union Listed
    /\ holder \in [Locks -> Harts \union {"free"}]
    /\ state \in [Listed -> {"RUNNABLE", "RUNNING", "SLEEPING"}] /\ chan \in [Listed -> {0, 1}]
    /\ ticks \in 0 .. WORD - 1

\* No check of acquire(), release(), pop_off() or sched() fails.
NoPanic == panicked = "no"

\* push_off() and pop_off() count the locks: a hart's noff is the number of locks it
\* holds or spins for, and while it is not 0 no interrupt can arrive, so no handler
\* can spin for a lock its own hart holds.
MaskedWhileLocked ==
    \A h \in Harts :
       /\ noff[h] = Cardinality({l \in Locks : holder[l] = h}) + (IF At(h, "spin") THEN 1 ELSE 0)
       /\ noff[h] > 0 => ~sie[h]

\* One kernel stack, one hart: no two harts execute the same process, although
\* yield() and sleep() make it available to other schedulers before they have left
\* its stack.
OneHart ==
    \A g, h \in Harts : g # h => running[g] # running[h]

\* The interrupt state belongs to the thread: a user program always runs with
\* interrupts on, and nothing turns them on inside an interrupt handler, on whichever
\* hart the thread continues after sched().
IntrKept ==
    \A h \in Harts :
       /\ running[h] \in Listed /\ todo[running[h]] = <<>> => sie[h]
       /\ (\E k \in DOMAIN todo[running[h]] : todo[running[h]][k][1] = "iret") => ~sie[h]

\* sleep() releases the condition lock before it is SLEEPING, yet misses no wakeup():
\* a process asleep in sys_sleep() has time left to wait, or the clock interrupt that
\* ended it is on its way through wakeup().
Deadline(p) ==
    LET k == CHOOSE k \in DOMAIN todo[p] : todo[p][k][1] = "while" IN todo[p][k][2]
NoMissedWakeup ==
    \A p \in Listed :
       state[p] = "SLEEPING" /\ Elapsed(Deadline(p)[1]) >= Deadline(p)[2] => holder[Tick] = Hart0

=============================================================================
