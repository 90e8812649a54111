------------------------------ MODULE MCWaits -------------------------------
(* Model checking that waits end: the log, the disk driver, the inode layer, *)
(* the pipe, the process table, the scheduler, sleep() and the shell.  The   *)
(* processes of a component are alike: p1 or p stands for each of them.      *)
EXTENDS Integers, Sequences

CONSTANT NULL

E(c) == <<"EXEC", c>>

\* source | cat > f, and head & with nothing behind it.
Short == {<<"PIPE", E("source"), <<"REDIR", E("cat"), 1>>>>, <<"LIST", <<"BACK", E("head")>>, E("")>>}

VARIABLES
    part,       \* the component this behaviour is about; the others are not there
    l_lh, l_outstanding, l_committing, l_pc, l_left, l_cpc, l_tail, l_cache, l_pin, l_home,
    l_logblk, l_head, l_panicked,
    d_free, d_desc, d_ops, d_info, d_avail, d_avail_idx, d_used, d_used_idx, d_seen, d_bdisk,
    d_lock, d_pc, d_head, d_want, d_irq, d_fetched, d_flight, d_moved,
    i_disk, i_itable, i_cwd, i_file, i_loc, i_panicked,
    pi_nread, pi_nwrite, pi_data, pi_readopen, pi_writeopen, pi_freed, pi_lock, pi_rd, pi_wr,
    pi_pc, pi_n, pi_i, pi_buf, pi_killed,
    p_state, p_parent, p_pid, p_killed, p_nextpid, p_wait_lock, p_pc, p_child, p_called,
    p_panicked,
    s_sie, s_noff, s_intena, s_running, s_holder, s_state, s_chan, s_todo, s_ticks, s_panicked,
    c_ticks, c_pc, c_n, c_ticks0, c_killed, c_ret, c_elapsed, c_lag,
    h_st, h_parent, h_fd, h_todo, h_p, h_count, h_fg, h_want

log_vars ==
    <<l_lh, l_outstanding, l_committing, l_pc, l_left, l_cpc, l_tail, l_cache, l_pin, l_home,
      l_logblk, l_head, l_panicked>>
virtio_vars ==
    <<d_free, d_desc, d_ops, d_info, d_avail, d_avail_idx, d_used, d_used_idx, d_seen, d_bdisk,
      d_lock, d_pc, d_head, d_want, d_irq, d_fetched, d_flight, d_moved>>
inode_vars == <<i_disk, i_itable, i_cwd, i_file, i_loc, i_panicked>>
pipe_vars ==
    <<pi_nread, pi_nwrite, pi_data, pi_readopen, pi_writeopen, pi_freed, pi_lock, pi_rd, pi_wr,
      pi_pc, pi_n, pi_i, pi_buf, pi_killed>>
proc_vars ==
    <<p_state, p_parent, p_pid, p_killed, p_nextpid, p_wait_lock, p_pc, p_child, p_called,
      p_panicked>>
sched_vars ==
    <<s_sie, s_noff, s_intena, s_running, s_holder, s_state, s_chan, s_todo, s_ticks, s_panicked>>
clock_vars == <<c_ticks, c_pc, c_n, c_ticks0, c_killed, c_ret, c_elapsed, c_lag>>
shrun_vars == <<h_st, h_parent, h_fd, h_todo, h_p, h_count, h_fg, h_want>>
mcvars == <<part, log_vars, virtio_vars, inode_vars, pipe_vars, proc_vars, sched_vars, clock_vars, shrun_vars>>

Log == INSTANCE Log WITH
    Procs <- {"p1", "p2"}, Blocks <- 1 .. 4, Vals <- {0}, LOGSIZE <- 4, NLOG <- 5,
    MAXOPBLOCKS <- 2, lh <- l_lh, outstanding <- l_outstanding, committing <- l_committing,
    pc <- l_pc, left <- l_left, cpc <- l_cpc, tail <- l_tail, cache <- l_cache, pin <- l_pin,
    home <- l_home, logblk <- l_logblk, head <- l_head, panicked <- l_panicked

Disk == INSTANCE Virtio WITH
    Procs <- {"p1", "p2"}, NULL <- NULL, NUM <- 4, WORD <- 8, Ops <- {"read"}, free <- d_free,
    desc <- d_desc, ops <- d_ops, info <- d_info, avail <- d_avail, avail_idx <- d_avail_idx,
    used <- d_used, used_idx <- d_used_idx, seen <- d_seen, bdisk <- d_bdisk, lock <- d_lock,
    pc <- d_pc, head <- d_head, want <- d_want, irq <- d_irq, fetched <- d_fetched,
    flight <- d_flight, moved <- d_moved

Inode == INSTANCE Inode WITH
    Procs <- {"p1", "p2"}, Names <- {"a", "b"}, DotDot <- "..", NINODES <- 3, NINODE <- 5,
    Paths <- {<<"a">>, <<"a", "b">>}, Ops <- {"mkdir", "unlink", "rmdir"}, NULL <- NULL,
    disk <- i_disk, itable <- i_itable, cwd <- i_cwd, file <- i_file, loc <- i_loc,
    panicked <- i_panicked

Pipe == INSTANCE Pipe WITH
    Readers <- {"r1", "r2"}, Writers <- {"w1"}, Killable <- {}, Bytes <- {0}, PIPESIZE <- 2,
    WORD <- 4, MinN <- 3, MaxN <- 3, NULL <- NULL, nread <- pi_nread, nwrite <- pi_nwrite,
    data <- pi_data, readopen <- pi_readopen, writeopen <- pi_writeopen, freed <- pi_freed,
    lock <- pi_lock, rd <- pi_rd, wr <- pi_wr, pc <- pi_pc, n <- pi_n, i <- pi_i, buf <- pi_buf,
    killed <- pi_killed

Proc == INSTANCE Proc WITH
    Procs <- {"init", "p1", "p2"}, initproc <- "init", NULL <- NULL, MaxPid <- 4, BadPids <- {},
    state <- p_state, parent <- p_parent, pid <- p_pid, killed <- p_killed,
    nextpid <- p_nextpid, wait_lock <- p_wait_lock, pc <- p_pc, child <- p_child,
    called <- p_called, panicked <- p_panicked

Sched == INSTANCE Sched WITH
    Harts <- {"h0"}, Hart0 <- "h0", Table <- <<"p", "q">>, Tick <- "tickslock", WORD <- 2,
    MaxSleep <- 1, sie <- s_sie, noff <- s_noff, intena <- s_intena, running <- s_running,
    holder <- s_holder, state <- s_state, chan <- s_chan, todo <- s_todo, ticks <- s_ticks,
    panicked <- s_panicked

Clock == INSTANCE Clock WITH
    Harts <- {0, 1}, Procs <- {"p", "q"}, UINT <- 4, MAXLAG <- 1, ticks <- c_ticks, pc <- c_pc,
    n <- c_n, ticks0 <- c_ticks0, killed <- c_killed, ret <- c_ret, elapsed <- c_elapsed,
    lag <- c_lag

Shell == INSTANCE ShRun WITH
    NPROC <- 4, Lines <- Short, NPIPE <- 1, PIPESIZE <- 1, ITEMS <- 1, MayFail <- TRUE,
    st <- h_st, parent <- h_parent, fd <- h_fd, todo <- h_todo, p <- h_p, count <- h_count,
    fg <- h_fg, want <- h_want

ASSUME MCWaitsAssumption ==
    /\ Log!LogAssumption /\ Disk!VirtioAssumption /\ Inode!InodeAssumption
    /\ Pipe!PipeAssumption /\ Proc!ProcAssumption /\ Sched!SchedAssumption
    /\ Clock!ClockAssumption /\ Shell!ShRunAssumption

NoLog ==
    /\ l_lh = 0 /\ l_outstanding = 0 /\ l_committing = 0 /\ l_pc = 0 /\ l_left = 0
    /\ l_cpc = 0 /\ l_tail = 0 /\ l_cache = 0 /\ l_pin = 0 /\ l_home = 0 /\ l_logblk = 0
    /\ l_head = 0 /\ l_panicked = 0

NoVirtio ==
    /\ d_free = 0 /\ d_desc = 0 /\ d_ops = 0 /\ d_info = 0 /\ d_avail = 0 /\ d_avail_idx = 0
    /\ d_used = 0 /\ d_used_idx = 0 /\ d_seen = 0 /\ d_bdisk = 0 /\ d_lock = 0 /\ d_pc = 0
    /\ d_head = 0 /\ d_want = 0 /\ d_irq = 0 /\ d_fetched = 0 /\ d_flight = 0 /\ d_moved = 0

NoInode ==
    /\ i_disk = 0 /\ i_itable = 0 /\ i_cwd = 0 /\ i_file = 0 /\ i_loc = 0 /\ i_panicked = 0

NoPipe ==
    /\ pi_nread = 0 /\ pi_nwrite = 0 /\ pi_data = 0 /\ pi_readopen = 0 /\ pi_writeopen = 0
    /\ pi_freed = 0 /\ pi_lock = 0 /\ pi_rd = 0 /\ pi_wr = 0 /\ pi_pc = 0 /\ pi_n = 0
    /\ pi_i = 0 /\ pi_buf = 0 /\ pi_killed = 0

NoProc ==
    /\ p_state = 0 /\ p_parent = 0 /\ p_pid = 0 /\ p_killed = 0 /\ p_nextpid = 0
    /\ p_wait_lock = 0 /\ p_pc = 0 /\ p_child = 0 /\ p_called = 0 /\ p_panicked = 0

NoSched ==
    /\ s_sie = 0 /\ s_noff = 0 /\ s_intena = 0 /\ s_running = 0 /\ s_holder = 0 /\ s_state = 0
    /\ s_chan = 0 /\ s_todo = 0 /\ s_ticks = 0 /\ s_panicked = 0

NoClock ==
    /\ c_ticks = 0 /\ c_pc = 0 /\ c_n = 0 /\ c_ticks0 = 0 /\ c_killed = 0 /\ c_ret = 0
    /\ c_elapsed = 0 /\ c_lag = 0

NoShRun ==
    /\ h_st = 0 /\ h_parent = 0 /\ h_fd = 0 /\ h_todo = 0 /\ h_p = 0 /\ h_count = 0
    /\ h_fg = 0 /\ h_want = 0

MCInit ==
    /\ part \in {"log", "disk", "inode", "pipe", "proc", "sched", "clock", "shell"}
    /\ IF part = "log" THEN Log!Init ELSE NoLog
    /\ IF part = "disk" THEN Disk!Init ELSE NoVirtio
    /\ IF part = "inode" THEN Inode!Init ELSE NoInode
    /\ IF part = "pipe" THEN Pipe!Init ELSE NoPipe
    /\ IF part = "proc" THEN Proc!Init ELSE NoProc
    /\ IF part = "sched" THEN Sched!Init ELSE NoSched
    /\ IF part = "clock" THEN Clock!Init ELSE NoClock
    /\ IF part = "shell" THEN Shell!Init ELSE NoShRun

MCNext ==
    \/ part = "log" /\ Log!Next /\ UNCHANGED <<part, virtio_vars, inode_vars, pipe_vars, proc_vars, sched_vars, clock_vars, shrun_vars>>
    \/ part = "disk" /\ Disk!Next /\ UNCHANGED <<part, log_vars, inode_vars, pipe_vars, proc_vars, sched_vars, clock_vars, shrun_vars>>
    \/ part = "inode" /\ Inode!Next /\ UNCHANGED <<part, log_vars, virtio_vars, pipe_vars, proc_vars, sched_vars, clock_vars, shrun_vars>>
    \/ part = "pipe" /\ Pipe!Next /\ UNCHANGED <<part, log_vars, virtio_vars, inode_vars, proc_vars, sched_vars, clock_vars, shrun_vars>>
    \/ part = "proc" /\ Proc!Next /\ UNCHANGED <<part, log_vars, virtio_vars, inode_vars, pipe_vars, sched_vars, clock_vars, shrun_vars>>
    \/ part = "sched" /\ Sched!Next /\ UNCHANGED <<part, log_vars, virtio_vars, inode_vars, pipe_vars, proc_vars, clock_vars, shrun_vars>>
    \/ part = "clock" /\ Clock!Next /\ UNCHANGED <<part, log_vars, virtio_vars, inode_vars, pipe_vars, proc_vars, sched_vars, shrun_vars>>
    \/ part = "shell" /\ Shell!Next /\ UNCHANGED <<part, log_vars, virtio_vars, inode_vars, pipe_vars, proc_vars, sched_vars, clock_vars>>

other_log == <<part, virtio_vars, inode_vars, pipe_vars, proc_vars, sched_vars, clock_vars, shrun_vars>>
other_virtio == <<part, log_vars, inode_vars, pipe_vars, proc_vars, sched_vars, clock_vars, shrun_vars>>
other_inode == <<part, log_vars, virtio_vars, pipe_vars, proc_vars, sched_vars, clock_vars, shrun_vars>>
other_pipe == <<part, log_vars, virtio_vars, inode_vars, proc_vars, sched_vars, clock_vars, shrun_vars>>
other_proc == <<part, log_vars, virtio_vars, inode_vars, pipe_vars, sched_vars, clock_vars, shrun_vars>>
other_sched == <<part, log_vars, virtio_vars, inode_vars, pipe_vars, proc_vars, clock_vars, shrun_vars>>
other_clock == <<part, log_vars, virtio_vars, inode_vars, pipe_vars, proc_vars, sched_vars, shrun_vars>>
other_shrun == <<part, log_vars, virtio_vars, inode_vars, pipe_vars, proc_vars, sched_vars, clock_vars>>

\* The fairness of each component, as its module states it: a behaviour is about one
\* component, so that the n-th weak assumption of each can be written as one.
Weak1 ==
    \/ part = "log" /\ Log!Commit /\ UNCHANGED other_log
    \/ part = "disk" /\ Disk!Driver("p1") /\ UNCHANGED other_virtio
    \/ part = "pipe" /\ Pipe!Kernel("r1") /\ UNCHANGED other_pipe
    \/ part = "proc" /\ p_killed["init"] /\ Proc!exit("init") /\ UNCHANGED other_proc
    \/ part = "sched" /\ Sched!Step("h0") /\ UNCHANGED other_sched
    \/ part = "clock" /\ Clock!Sleep("p") /\ UNCHANGED other_clock
    \/ part = "shell" /\ Shell!Step(0) /\ UNCHANGED other_shrun

Weak2 ==
    \/ part = "log" /\ Log!end_op("p1") /\ UNCHANGED other_log
    \/ part = "disk" /\ Disk!Driver("p2") /\ UNCHANGED other_virtio
    \/ part = "pipe" /\ Pipe!Kernel("r2") /\ UNCHANGED other_pipe
    \/ part = "proc" /\ p_killed["p1"] /\ Proc!exit("p1") /\ UNCHANGED other_proc
    \/ part = "clock" /\ Clock!Sleep("q") /\ UNCHANGED other_clock
    \/ part = "shell" /\ Shell!Step(1) /\ UNCHANGED other_shrun

Weak3 ==
    \/ part = "log" /\ Log!end_op("p2") /\ UNCHANGED other_log
    \/ part = "disk" /\ Disk!intr_entry /\ UNCHANGED other_virtio
    \/ part = "pipe" /\ Pipe!Kernel("w1") /\ UNCHANGED other_pipe
    \/ part = "proc" /\ p_killed["p2"] /\ Proc!exit("p2") /\ UNCHANGED other_proc
    \/ part = "shell" /\ Shell!Step(2) /\ UNCHANGED other_shrun

Weak4 ==
    \/ part = "log" /\ Log!end_commit("p1") /\ UNCHANGED other_log
    \/ part = "disk" /\ Disk!intr_end /\ UNCHANGED other_virtio
    \/ part = "pipe" /\ (Pipe!read("r1") \/ ("r1" \in pi_rd /\ Pipe!close("r1"))) /\ UNCHANGED other_pipe
    \/ part = "proc" /\ Proc!wait("init") /\ UNCHANGED other_proc
    \/ part = "shell" /\ Shell!Step(3) /\ UNCHANGED other_shrun

Weak5 ==
    \/ part = "log" /\ Log!end_commit("p2") /\ UNCHANGED other_log
    \/ part = "disk" /\ Disk!fetch /\ UNCHANGED other_virtio
    \/ part = "pipe" /\ (Pipe!read("r2") \/ ("r2" \in pi_rd /\ Pipe!close("r2"))) /\ UNCHANGED other_pipe
    \/ part = "proc" /\ (Proc!allocproc("init") \/ Proc!alloc_fails("init")) /\ UNCHANGED other_proc

Weak6 ==
    \/ part = "disk" /\ (\E r \in d_flight : r.buf = "p1" /\ Disk!complete(r)) /\ UNCHANGED other_virtio
    \/ part = "pipe" /\ (Pipe!read("w1") \/ ("w1" \in pi_rd /\ Pipe!close("w1"))) /\ UNCHANGED other_pipe

Weak7 ==
    \/ part = "disk" /\ (\E r \in d_flight : r.buf = "p2" /\ Disk!complete(r)) /\ UNCHANGED other_virtio

\* and the strong ones.
Strong1 ==
    \/ part = "disk" /\ Disk!check("p1") /\ UNCHANGED other_virtio
    \/ part = "inode" /\ Inode!Working("p1") /\ UNCHANGED other_inode
    \/ part = "proc" /\ Proc!Kernel("init") /\ UNCHANGED other_proc
    \/ part = "sched" /\ Sched!timer("h0") /\ UNCHANGED other_sched
    \/ part = "clock" /\ Clock!clockintr(0) /\ UNCHANGED other_clock

Strong2 ==
    \/ part = "disk" /\ Disk!check("p2") /\ UNCHANGED other_virtio
    \/ part = "inode" /\ Inode!Working("p2") /\ UNCHANGED other_inode
    \/ part = "proc" /\ Proc!Kernel("p1") /\ UNCHANGED other_proc
    \/ part = "sched" /\ Sched!Progress("h0") /\ UNCHANGED other_sched
    \/ part = "clock" /\ Clock!Test("p") /\ UNCHANGED other_clock

Strong3 ==
    \/ part = "disk" /\ Disk!intr_begin /\ UNCHANGED other_virtio
    \/ part = "proc" /\ Proc!Kernel("p2") /\ UNCHANGED other_proc
    \/ part = "sched" /\ Sched!Progress("p") /\ UNCHANGED other_sched
    \/ part = "clock" /\ Clock!Test("q") /\ UNCHANGED other_clock

Strong4 ==
    \/ part = "sched" /\ Sched!Progress("q") /\ UNCHANGED other_sched

MCSpec ==
    /\ MCInit /\ [][MCNext]_mcvars
    /\ WF_mcvars(Weak1) /\ WF_mcvars(Weak2) /\ WF_mcvars(Weak3) /\ WF_mcvars(Weak4)
    /\ WF_mcvars(Weak5) /\ WF_mcvars(Weak6) /\ WF_mcvars(Weak7) /\ SF_mcvars(Strong1)
    /\ SF_mcvars(Strong2) /\ SF_mcvars(Strong3) /\ SF_mcvars(Strong4)

-----------------------------------------------------------------------------
\* begin_op(), virtio_disk_rw(), namex(), pipewrite(): who sleeps for room in the log is
\* woken, every disk request returns and who sleeps for descriptors is woken, every call on
\* an inode ends without a circle of calls each waiting for an inode another has locked,
\* and every write() on a pipe returns as long as its readers read or close.
WaitsEnd ==
    /\ (part = "log" /\ l_pc["p1"] = "sleep") ~> (part = "log" => l_pc["p1"] # "sleep" \/ l_panicked)
    /\ (part = "disk" /\ d_pc["p1"] = "wait") ~> (part = "disk" => d_pc["p1"] = "run")
    /\ (part = "disk" /\ d_pc["p1"] = "nofree") ~> (part = "disk" => d_pc["p1"] # "nofree")
    /\ (part = "inode" /\ i_loc["p1"].pc # "idle") ~> (part = "inode" => i_loc["p1"].pc = "idle" \/ i_panicked # "no")
    /\ (part = "pipe" /\ pi_pc["w1"] \in {"wlock", "wasleep"}) ~> (part = "pipe" => pi_pc["w1"] = "user")

\* exit(), wait(), init: every process that exits is reaped when its parent is init, up to
\* the bound on forks.
Reaped ==
    (part = "proc" /\ p_state["p1"] = "ZOMBIE" /\ p_parent["p1"] = "init")
        ~> (part = "proc" => p_state["p1"] = "UNUSED" \/ p_panicked \/ Proc!Spent)

\* scheduler(), wakeup(), sys_sleep(): a process that is asleep in sys_sleep() or waiting
\* in proc[] for a hart runs again, whatever the other programs do, and sleep() returns
\* also if kill() falls between its test of p->killed and its sleep() and so wakes nobody.
SleepEnds ==
    /\ \A p \in {"p", "q"} :
           (part = "sched" /\ s_state[p] # "RUNNING") ~> (part = "sched" => s_state[p] = "RUNNING")
    /\ (part = "clock" /\ c_pc["p"] # "user") ~> (part = "clock" => c_pc["p"] = "user")

\* runcmd(), main() of sh.c: every line ends, also when fork(), pipe(), open() or exec()
\* fail; no program waits for input from a pipe whose writers have ended.
PromptReturns == []<>(part = "shell" => Shell!At(0, "getcmd"))

=============================================================================
