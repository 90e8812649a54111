-------------------------------- MODULE Proc --------------------------------
(***************************************************************************)
(* The process family of kernel/proc.c: allocproc(), freeproc(), fork(),   *)
(* exit(), reparent(), wait(), kill(), killed(), setkilled(), the checks   *)
(* of usertrap() for killed processes, and the program user/init.c.        *)
(*                                                                         *)
(* A step is what happens under one hold of wait_lock or of one p->lock;   *)
(* RUNNABLE stands for RUNNABLE and RUNNING (module Sched tells them       *)
(* apart).  pc is where the process's kernel thread is.                    *)
(***************************************************************************)
EXTENDS Integers, FiniteSets

CONSTANTS
    Procs,          \* the entries of proc[]
    initproc,
    MaxPid,         \* bound: fork() is not called once nextpid has passed it
    BadPids,        \* arguments of kill() that are no process's pid
    NULL

ASSUME ProcAssumption ==
    initproc \in Procs /\ MaxPid \in Nat \ {0} /\ BadPids \subseteq Int /\ NULL \notin Procs

VARIABLES
    state, parent, pid, killed,     \* struct proc
    nextpid,
    wait_lock,                      \* the process that holds it, or NULL
    pc,                             \* "none": no thread; "user": in user space
    child,                          \* fork(): np; for init after fork(): the shell
    called,                         \* history: the pids kill() has been called with
    panicked

table == <<state, parent, pid, killed, nextpid>>
vars  == <<table, wait_lock, pc, child, called, panicked>>

Init ==
    /\ state = [p \in Procs |-> IF p = initproc THEN "RUNNABLE" ELSE "UNUSED"]
    /\ parent = [p \in Procs |-> NULL]
    /\ pid = [p \in Procs |-> IF p = initproc THEN 1 ELSE 0]
    /\ killed = [p \in Procs |-> FALSE]
    /\ nextpid = 2 /\ wait_lock = NULL
    /\ pc = [p \in Procs |-> IF p = initproc THEN "user" ELSE "none"]
    /\ child = [p \in Procs |-> NULL]
    /\ called = {} /\ panicked = FALSE

At(p, l) == pc[p] = l /\ state[p] = "RUNNABLE" /\ ~panicked
Goto(p, l) == pc' = [pc EXCEPT ![p] = l]

\* wakeup(chan): only process chan itself sleeps on chan, in wait().
wakeup(st, chan) ==
    IF st[chan] = "SLEEPING" THEN [st EXCEPT ![chan] = "RUNNABLE"] ELSE st

\* The children of p.
Kids(p) == {c \in Procs : parent[c] = p}

freeproc(p) ==
    /\ state' = [state EXCEPT ![p] = "UNUSED"] /\ parent' = [parent EXCEPT ![p] = NULL]
    /\ pid' = [pid EXCEPT ![p] = 0] /\ killed' = [killed EXCEPT ![p] = FALSE]
    /\ UNCHANGED nextpid

-----------------------------------------------------------------------------
(* fork()                                                                  *)

\* What makes a user program, or init, call fork().
MayFork(p) ==
    /\ At(p, "user") /\ ~killed[p] /\ nextpid <= MaxPid
    /\ p = initproc => child[p] = NULL

\* fork() fails: init exits, and exit() does not let it.
Fails(p) ==
    /\ panicked' = (p = initproc)
    /\ UNCHANGED <<wait_lock, called>>

allocpid == nextpid

\* allocproc() finds an UNUSED entry.  p->killed stays as it is.
allocproc(p) ==
    /\ MayFork(p)
    /\ \E np \in Procs :
          /\ state[np] = "UNUSED"
          /\ state' = [state EXCEPT ![np] = "USED"] /\ pid' = [pid EXCEPT ![np] = allocpid]
          /\ nextpid' = nextpid + 1
          /\ child' = [child EXCEPT ![p] = np]
    /\ Goto(p, "fork")
    /\ UNCHANGED <<parent, killed, wait_lock, called, panicked>>

\* No entry is free.
alloc_fails(p) ==
    /\ MayFork(p) /\ \A np \in Procs : state[np] # "UNUSED"
    /\ Fails(p) /\ UNCHANGED <<table, pc, child>>

\* There is no memory for the trapframe, the page table or the pages.
copy_fails(p) ==
    /\ At(p, "fork")
    /\ freeproc(child[p])
    /\ child' = [child EXCEPT ![p] = NULL] /\ Goto(p, "user")
    /\ Fails(p)

\* np->parent = p, under wait_lock.
link(p) ==
    /\ At(p, "fork") /\ wait_lock = NULL
    /\ parent' = [parent EXCEPT ![child[p]] = p]
    /\ Goto(p, "fork_run")
    /\ UNCHANGED <<state, pid, killed, nextpid, wait_lock, child, called, panicked>>

\* np->state = RUNNABLE, and fork() returns.  init remembers the shell.
fork_run(p) ==
    /\ At(p, "fork_run")
    /\ state' = [state EXCEPT ![child[p]] = "RUNNABLE"]
    /\ pc' = [pc EXCEPT ![p] = "user", ![child[p]] = "user"]
    /\ child' = IF p = initproc THEN child ELSE [child EXCEPT ![p] = NULL]
    /\ UNCHANGED <<parent, pid, killed, nextpid, wait_lock, called, panicked>>

-----------------------------------------------------------------------------
(* exit()                                                                  *)

\* The program calls exit(), or usertrap() finds the process killed.
exit(p) ==
    /\ At(p, "user") /\ p # initproc
    /\ Goto(p, "exit")
    /\ UNCHANGED <<table, wait_lock, child, called, panicked>>

\* (mutant) the children keep their dead parent
Mut_reparent(p) == parent

\* reparent(): the children are init's.
reparent(p) == [c \in Procs |-> IF parent[c] = p THEN initproc ELSE parent[c]]

\* (mutant) the parent is not woken
Mut_Woken(p) == IF Kids(p) # {} THEN wakeup(state, initproc) ELSE state

\* reparent() wakes init, exit() the parent.
Woken(p) ==
    wakeup(IF Kids(p) # {} THEN wakeup(state, initproc) ELSE state, parent[p])

\* acquire(&wait_lock); reparent(p); wakeup(p->parent)
exit_family(p) ==
    /\ At(p, "exit") /\ wait_lock = NULL
    /\ wait_lock' = p
    /\ parent' = reparent(p) /\ state' = Woken(p)
    /\ Goto(p, "exit_zombie")
    /\ UNCHANGED <<pid, killed, nextpid, child, called, panicked>>

\* p->state = ZOMBIE under p->lock, which is held until the switch; wait_lock is not.
exit_zombie(p) ==
    /\ At(p, "exit_zombie")
    /\ state' = [state EXCEPT ![p] = "ZOMBIE"]
    /\ wait_lock' = NULL
    /\ Goto(p, "swtch")
    /\ UNCHANGED <<parent, pid, killed, nextpid, child, called, panicked>>

\* sched(): the thread has left its stack, and the scheduler releases p->lock.
swtch(p) ==
    /\ pc[p] = "swtch" /\ Goto(p, "none") /\ ~panicked
    /\ UNCHANGED <<table, wait_lock, child, called, panicked>>

-----------------------------------------------------------------------------
(* wait()                                                                  *)

wait(p) ==
    /\ At(p, "user") /\ ~killed[p]
    /\ p = initproc => child[p] # NULL
    /\ Goto(p, "wait")
    /\ UNCHANGED <<table, wait_lock, child, called, panicked>>

acquire_wait(p) ==
    /\ At(p, "wait") /\ wait_lock = NULL
    /\ wait_lock' = p /\ Goto(p, "scan")
    /\ UNCHANGED <<table, child, called, panicked>>

\* A child wait() can take: a ZOMBIE whose lock it gets.
Reapable(c) == state[c] = "ZOMBIE" /\ pc[c] # "swtch"

\* An exited child is freed and its pid returned.  For init: was it the shell?
reap(p) ==
    /\ At(p, "scan")
    /\ \E c \in Kids(p) :
          /\ Reapable(c) /\ freeproc(c)
          /\ child' = IF c = child[p] THEN [child EXCEPT ![p] = NULL] ELSE child
    /\ wait_lock' = NULL /\ Goto(p, "user")
    /\ UNCHANGED <<called, panicked>>

\* copyout() of the exit status fails: -1, and the child stays.  init passes no address.
reap_fails(p) ==
    /\ At(p, "scan") /\ p # initproc /\ \E c \in Kids(p) : Reapable(c)
    /\ wait_lock' = NULL /\ Goto(p, "user")
    /\ UNCHANGED <<table, child, called, panicked>>

\* The table has no exited child: -1 without children or if killed (init exits then),
\* otherwise sleep.
scan_ends(p) ==
    /\ At(p, "scan") /\ \A c \in Kids(p) : state[c] # "ZOMBIE"
    /\ IF Kids(p) = {} \/ killed[p]
       THEN wait_lock' = NULL /\ Goto(p, "user") /\ panicked' = (p = initproc)
       ELSE Goto(p, "sleep") /\ UNCHANGED <<wait_lock, panicked>>
    /\ UNCHANGED <<table, child, called>>

\* sleep(p, &wait_lock).  When it returns, wait_lock is acquired and the scan repeated.
sleep(p) ==
    /\ At(p, "sleep")
    /\ state' = [state EXCEPT ![p] = "SLEEPING"]
    /\ wait_lock' = NULL /\ Goto(p, "wait")
    /\ UNCHANGED <<parent, pid, killed, nextpid, child, called, panicked>>

-----------------------------------------------------------------------------
(* kill()                                                                  *)

\* The entry kill(n) stops at.
Victim(n, p) == pid[p] = n

kill(q) ==
    /\ At(q, "user") /\ ~killed[q] /\ q # initproc
    /\ \E n \in ({pid[p] : p \in Procs \ {initproc}} \ {0}) \union BadPids :
          /\ called' = called \union {n}
          /\ IF \E p \in Procs : Victim(n, p)
             THEN \E p \in Procs :
                     /\ Victim(n, p)
                     /\ killed' = [killed EXCEPT ![p] = TRUE]
                     /\ state' = wakeup(state, p)
             ELSE UNCHANGED <<killed, state>>
    /\ UNCHANGED <<parent, pid, nextpid, wait_lock, pc, child, panicked>>

\* usertrap(): a fault the kernel cannot resolve.
setkilled(p) ==
    /\ At(p, "user") /\ p # initproc
    /\ killed' = [killed EXCEPT ![p] = TRUE] /\ called' = called \union {pid[p]}
    /\ UNCHANGED <<state, parent, pid, nextpid, wait_lock, pc, child, panicked>>

-----------------------------------------------------------------------------
\* What a kernel thread does without its program's choice.
Kernel(p) ==
    \/ link(p) \/ fork_run(p) \/ exit_family(p) \/ exit_zombie(p) \/ swtch(p)
    \/ acquire_wait(p) \/ reap(p) \/ scan_ends(p) \/ sleep(p)

\* The bound MaxPid keeps init from starting another shell.
Spent == nextpid > MaxPid /\ child[initproc] = NULL

Halted == (panicked \/ (Spent /\ At(initproc, "user"))) /\ UNCHANGED vars

Next ==
    \/ \E p \in Procs :
          \/ Kernel(p) \/ copy_fails(p) \/ reap_fails(p)
          \/ allocproc(p) \/ alloc_fails(p) \/ exit(p) \/ wait(p) \/ kill(p) \/ setkilled(p)
    \/ Halted

Spec == Init /\ [][Next]_vars

\* Threads are scheduled and spin locks are not withheld for ever (wait_lock is the
\* only one contended); a killed process traps; init starts a shell and waits.
Fairness ==
    /\ \A p \in Procs : SF_vars(Kernel(p)) /\ WF_vars(killed[p] /\ exit(p))
    /\ WF_vars(wait(initproc)) /\ WF_vars(allocproc(initproc) \/ alloc_fails(initproc))

FairSpec == Spec /\ Fairness

-----------------------------------------------------------------------------
(* Properties.                                                             *)

Alive == {"RUNNABLE", "SLEEPING"}

TypeOK ==
    /\ state \in [Procs -> {"UNUSED", "USED", "RUNNABLE", "SLEEPING", "ZOMBIE"}]
    /\ parent \in [Procs -> Procs \union {NULL}] /\ child \in [Procs -> Procs \union {NULL}]
    /\ pid \in [Procs -> 0 .. MaxPid] /\ killed \in [Procs -> BOOLEAN]
    /\ nextpid \in 2 .. MaxPid + 1 /\ wait_lock \in Procs \union {NULL}

\* exit() hands every child to init before it is gone: the parent of a process that
\* runs, sleeps or waits to be reaped is alive, so somebody can wait() for it.
ParentAlive ==
    \A p \in Procs \ {initproc} :
       state[p] \in Alive \union {"ZOMBIE"} =>
          parent[p] \in Procs /\ state[parent[p]] \in Alive

\* No exit is missed: a parent asleep in wait() has no exited child, although exit()
\* wakes it before it becomes a zombie.
NoMissedExit ==
    \A p \in Procs : state[p] = "SLEEPING" => \A c \in Kids(p) : state[c] # "ZOMBIE"

\* wait() and the error paths of fork() free an entry only when no thread is on its
\* kernel stack any more.
FreedIsIdle ==
    \A p \in Procs : state[p] \in {"UNUSED", "USED"} => pc[p] = "none"

\* Every process that exits is reaped when its parent is init, which waits between
\* starting one shell and the next (up to the bound on forks).
Reaped ==
    \A p \in Procs :
       state[p] = "ZOMBIE" /\ parent[p] = initproc ~> state[p] = "UNUSED" \/ panicked \/ Spent

\* kill() hits the process with the given pid and no other: a process is killed only
\* if kill() was called with its pid (or it faulted).
KilledByPid ==
    \A p \in Procs : killed[p] /\ pid[p] # 0 => pid[p] \in called

\* The victim exits: a process killed while it waits for its children does not wait on.
KilledExits ==
    \A p \in Procs : killed[p] /\ state[p] \in Alive ~> state[p] \notin Alive \/ panicked

\* exit() insists that init never exits.
InitStays == ~panicked

=============================================================================
