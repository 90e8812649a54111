------------------------------ MODULE MCProcs ------------------------------
(* Model checking processes: the process table, spin locks and the           *)
(* scheduler, traps, and sleep().                                            *)
EXTENDS Proc, Cpus, Sequences

VARIABLES
    part,       \* the component this behaviour is about; the others do not move
    s_sie, s_noff, s_intena, s_running, s_holder, s_state, s_chan, s_todo, s_ticks, s_panicked

sched_vars ==
    <<s_sie, s_noff, s_intena, s_running, s_holder, s_state, s_chan, s_todo, s_ticks, s_panicked>>
mcvars == <<part, vars, sched_vars, trap_vars, clock_vars>>

Sched == INSTANCE Sched WITH
    Harts <- {"h0", "h1"}, Hart0 <- "h0", Table <- <<"p", "q">>, Tick <- "tickslock", WORD <- 2,
    MaxSleep <- 1, sie <- s_sie, noff <- s_noff, intena <- s_intena, running <- s_running,
    holder <- s_holder, state <- s_state, chan <- s_chan, todo <- s_todo, ticks <- s_ticks,
    panicked <- s_panicked

ASSUME MCProcsAssumption == Sched!SchedAssumption

NoSched ==
    /\ s_sie = 0 /\ s_noff = 0 /\ s_intena = 0 /\ s_running = 0 /\ s_holder = 0 /\ s_state = 0
    /\ s_chan = 0 /\ s_todo = 0 /\ s_ticks = 0 /\ s_panicked = 0

MCInit ==
    /\ part \in {"proc", "sched", "switch", "migrate", "clock"}
    /\ Init
    /\ IF part = "sched" THEN Sched!Init ELSE NoSched
    /\ Trap!Init /\ (part = "switch" \/ t_at["q"] = Trap!None)
    /\ Clock!Init

\* Two processes change places on one hart: the other hart stays where it is.
Switching == Trap!Next /\ t_at'["h1"] = t_at["h1"] /\ t_csr'["h1"] = t_csr["h1"]

\* One process goes from hart to hart: there is no other one.
Migrating == Trap!Next /\ t_at'["q"] = t_at["q"]

MCNext ==
    \/ part = "proc" /\ Next /\ UNCHANGED <<part, sched_vars, trap_vars, clock_vars>>
    \/ part = "sched" /\ Sched!Next /\ UNCHANGED <<part, vars, trap_vars, clock_vars>>
    \/ part = "switch" /\ Switching /\ UNCHANGED <<part, vars, sched_vars, clock_vars>>
    \/ part = "migrate" /\ Migrating /\ UNCHANGED <<part, vars, sched_vars, clock_vars>>
    \/ part = "clock" /\ Clock!Next /\ UNCHANGED <<part, vars, sched_vars, trap_vars>>

MCSpec == MCInit /\ [][MCNext]_mcvars

-----------------------------------------------------------------------------
\* scheduler(), sched(), sleep(), wakeup(), push_off(), pop_off(): nobody is asleep in
\* sys_sleep() whose tick has come, wherever the wakeup falls between the release of the
\* condition lock and the switch; a process is on one hart at a time, gets back the
\* interrupt state it had, and interrupts are off wherever a spin lock is held.
NoMissedWakeup == part = "sched" => Sched!NoMissedWakeup /\ Sched!TypeOK /\ Sched!NoPanic /\ Sched!OneHart /\ Sched!IntrKept /\ Sched!MaskedWhileLocked

=============================================================================
