----------------------------- MODULE ProcProofs -----------------------------
(***************************************************************************)
(* Proofs about Proc for every size of the process table, and about the    *)
(* sleep() of its processes (Clock) for every width of the count of ticks. *)
(***************************************************************************)
EXTENDS Proc, Cpus, TLAPS

\* Zenon proves most leaves; the others name their prover.
USE Zenon

Places ==
    {"none", "user", "fork", "fork_run", "exit", "exit_zombie", "swtch", "wait", "scan", "sleep"}

Forking == {"fork", "fork_run"}

\* Where the thread of a process can be, by its state; and init never exits.
Threads ==
    /\ pc \in [Procs -> Places]
    /\ \A p \in Procs :
          /\ state[p] \in {"UNUSED", "USED"} => pc[p] = "none"
          /\ state[p] = "RUNNABLE" => pc[p] \notin {"none", "swtch"}
          /\ state[p] = "SLEEPING" => pc[p] = "wait"
          /\ state[p] = "ZOMBIE" => pc[p] \in {"swtch", "none"}
    /\ pc[initproc] \notin {"none", "exit", "exit_zombie", "swtch"}

\* wait_lock is held by the process that is between its acquire() and its release().
LockHeld == \A p \in Procs : pc[p] \in {"exit_zombie", "scan", "sleep"} <=> wait_lock = p

\* The new process of a fork() is nobody else's, and linked to its parent.
Forks ==
    /\ \A p \in Procs : pc[p] \in Forking => child[p] \in Procs /\ state[child[p]] = "USED"
    /\ \A p, q \in Procs : pc[p] \in Forking /\ pc[q] \in Forking /\ child[p] = child[q] => p = q
    /\ \A p \in Procs : pc[p] = "fork_run" => parent[child[p]] = p

\* An entry not in use has no parent, and no process is its parent.
Links ==
    /\ \A c \in Procs : state[c] = "UNUSED" => parent[c] = NULL
    /\ \A c \in Procs : state[c] = "USED" /\ parent[c] # NULL =>
          pc[parent[c]] = "fork_run" /\ child[parent[c]] = c

\* From reparent() to its last state a process has no children, and its parent is awake.
Exiting ==
    \A p \in Procs : pc[p] = "exit_zombie" =>
       /\ \A c \in Procs : parent[c] # p
       /\ state[parent[p]] # "SLEEPING"

\* From the scan that found no exited child to sleep() none exits.
Scanned ==
    \A p, c \in Procs : pc[p] = "sleep" /\ parent[c] = p => state[c] # "ZOMBIE"

ProcInv ==
    /\ TypeOK /\ Threads /\ LockHeld /\ Forks /\ Links /\ Exiting /\ Scanned
    /\ ParentAlive /\ NoMissedExit

\* One step of process p.
Step(p) ==
    \/ Kernel(p) \/ copy_fails(p) \/ reap_fails(p)
    \/ allocproc(p) \/ alloc_fails(p) \/ exit(p) \/ wait(p) \/ kill(p) \/ setkilled(p)

LEMMA StepOrSame == [Next]_vars => (\E p \in Procs : Step(p)) \/ UNCHANGED vars
BY DEF Next, Step, Halted

-----------------------------------------------------------------------------
(* Every part of the invariant is preserved by every step.                 *)

\* Every step keeps the types.
LEMMA TypeOKStep ==
    ASSUME TypeOK, Forks, ParentAlive, NEW p \in Procs, Step(p)
    PROVE  TypeOK'
<1> USE ProcAssumption DEF At, Goto, table, Forking, Places, TypeOK, Forks, ParentAlive
<1>1. CASE link(p)
  BY <1>1 DEF link
<1>2. CASE fork_run(p)
  BY <1>2 DEF fork_run
<1>3. CASE copy_fails(p)
  BY <1>3, SMT DEF freeproc, Fails, copy_fails
<1>4. CASE allocproc(p)
  BY <1>4, SMT DEF MayFork, allocpid, allocproc
<1>5. CASE exit_family(p)
  BY <1>5 DEF reparent, Woken, wakeup, Kids, exit_family
<1>6. CASE exit_zombie(p)
  BY <1>6 DEF exit_zombie
<1>7. CASE acquire_wait(p) \/ scan_ends(p) \/ reap_fails(p)
  BY <1>7 DEF Kids, acquire_wait, scan_ends, reap_fails
<1>8. CASE reap(p)
  BY <1>8, SMT DEF freeproc, Kids, Reapable, reap
<1>9. CASE sleep(p)
  BY <1>9 DEF sleep
<1>10. CASE kill(p)
  <2>1. UNCHANGED <<parent, pid, nextpid, wait_lock, child>>
    BY <1>10 DEF kill
  <2>2. killed' \in [Procs -> BOOLEAN]
    BY <1>10, ZenonT(30) DEF kill
  <2>3. state' \in [Procs -> {"UNUSED", "USED", "RUNNABLE", "SLEEPING", "ZOMBIE"}]
    BY <1>10, ZenonT(30) DEF kill, wakeup
  <2> QED
    BY <2>1, <2>2, <2>3
<1>11. CASE alloc_fails(p) \/ exit(p) \/ swtch(p) \/ wait(p) \/ setkilled(p)
  BY <1>11, ZenonT(30) DEF Fails, MayFork, alloc_fails, exit, swtch, wait, setkilled
<1> QED
  BY <1>1, <1>2, <1>3, <1>4, <1>5, <1>6, <1>7, <1>8, <1>9, <1>10, <1>11 DEF Step, Kernel

\* A thread is where the state of its process says, whatever the process or another one does.
LEMMA ThreadsStep ==
    ASSUME TypeOK, Threads, Forks, NEW p \in Procs, Step(p)
    PROVE  Threads'
<1> USE ProcAssumption DEF At, Goto, table, Forking, Places, TypeOK, Threads, Forks
<1>1. CASE link(p)
  BY <1>1 DEF link
<1>2. CASE fork_run(p)
  BY <1>2 DEF fork_run
<1>3. CASE copy_fails(p)
  BY <1>3, ZenonT(30) DEF freeproc, Fails, copy_fails
<1>4. CASE allocproc(p)
  BY <1>4, SMT DEF MayFork, allocpid, allocproc
<1>5. CASE exit_family(p)
  BY <1>5, ZenonT(30) DEF reparent, Woken, wakeup, Kids, exit_family
<1>6. CASE exit_zombie(p)
  BY <1>6 DEF exit_zombie
<1>7. CASE acquire_wait(p) \/ scan_ends(p) \/ reap_fails(p)
  BY <1>7, SMT DEF Kids, acquire_wait, scan_ends, reap_fails
<1>8. CASE reap(p)
  BY <1>8, SMT DEF freeproc, Kids, Reapable, reap
<1>9. CASE sleep(p)
  BY <1>9 DEF sleep
<1>10. CASE kill(p)
  BY <1>10, SMT DEF wakeup, Victim, kill
<1>11. CASE alloc_fails(p) \/ exit(p) \/ swtch(p) \/ wait(p) \/ setkilled(p)
  BY <1>11, SMT DEF Fails, MayFork, alloc_fails, exit, swtch, wait, setkilled
<1> QED
  BY <1>1, <1>2, <1>3, <1>4, <1>5, <1>6, <1>7, <1>8, <1>9, <1>10, <1>11 DEF Step, Kernel

\* wait_lock changes hands only where the code acquires and releases it.
LEMMA LockHeldStep ==
    ASSUME TypeOK, Threads, LockHeld, Forks, NEW p \in Procs, Step(p)
    PROVE  LockHeld'
<1> USE ProcAssumption DEF At, Goto, table, Forking, Places, TypeOK, Threads, LockHeld, Forks
<1>1. CASE link(p)
  BY <1>1 DEF link
<1>2. CASE fork_run(p)
  BY <1>2, ZenonT(30) DEF fork_run
<1>3. CASE copy_fails(p)
  BY <1>3 DEF freeproc, Fails, copy_fails
<1>4. CASE allocproc(p)
  BY <1>4, ZenonT(30) DEF MayFork, allocpid, allocproc
<1>5. CASE exit_family(p)
  BY <1>5 DEF reparent, Woken, wakeup, Kids, exit_family
<1>6. CASE exit_zombie(p)
  BY <1>6, ZenonT(30) DEF exit_zombie
<1>7. CASE acquire_wait(p) \/ scan_ends(p) \/ reap_fails(p)
  BY <1>7, SMT DEF Kids, acquire_wait, scan_ends, reap_fails
<1>8. CASE reap(p)
  BY <1>8, SMT DEF freeproc, Kids, Reapable, reap
<1>9. CASE sleep(p)
  BY <1>9, ZenonT(30) DEF sleep
<1>10. CASE kill(p)
  BY <1>10 DEF wakeup, Victim, kill
<1>11. CASE alloc_fails(p) \/ exit(p) \/ swtch(p) \/ wait(p) \/ setkilled(p)
  BY <1>11, SMT DEF Fails, MayFork, alloc_fails, exit, swtch, wait, setkilled
<1> QED
  BY <1>1, <1>2, <1>3, <1>4, <1>5, <1>6, <1>7, <1>8, <1>9, <1>10, <1>11 DEF Step, Kernel

\* No step of another process takes or frees the entry a fork() is filling.
LEMMA ForksStep ==
    ASSUME TypeOK, Threads, Forks, Links, NEW p \in Procs, Step(p)
    PROVE  Forks'
<1> USE ProcAssumption DEF At, Goto, table, Forking, Places, TypeOK, Threads, Forks, Links
<1>1. CASE link(p)
  BY <1>1, SMT DEF link
<1>2. CASE fork_run(p)
  BY <1>2, SMT DEF fork_run
<1>3. CASE copy_fails(p)
  BY <1>3, SMT DEF freeproc, Fails, copy_fails
<1>4. CASE allocproc(p)
  BY <1>4, SMT DEF MayFork, allocpid, allocproc
<1>5. CASE exit_family(p)
  BY <1>5, SMT DEF reparent, Woken, wakeup, Kids, exit_family
<1>6. CASE exit_zombie(p)
  BY <1>6, SMT DEF exit_zombie
<1>7. CASE acquire_wait(p) \/ scan_ends(p) \/ reap_fails(p)
  BY <1>7, SMT DEF Kids, acquire_wait, scan_ends, reap_fails
<1>8. CASE reap(p)
  BY <1>8, SMT DEF freeproc, Kids, Reapable, reap
<1>9. CASE sleep(p)
  BY <1>9, SMT DEF sleep
<1>10. CASE kill(p)
  BY <1>10, SMT DEF wakeup, Victim, kill
<1>11. CASE alloc_fails(p) \/ exit(p) \/ swtch(p) \/ wait(p) \/ setkilled(p)
  BY <1>11, SMT DEF Fails, MayFork, alloc_fails, exit, swtch, wait, setkilled
<1> QED
  BY <1>1, <1>2, <1>3, <1>4, <1>5, <1>6, <1>7, <1>8, <1>9, <1>10, <1>11 DEF Step, Kernel

\* freeproc() clears the parent, and only fork() sets it before the process runs.
LEMMA LinksStep ==
    ASSUME TypeOK, Threads, Forks, Links, NEW p \in Procs, Step(p)
    PROVE  Links'
<1> USE ProcAssumption DEF At, Goto, table, Forking, Places, TypeOK, Threads, Forks, Links
<1>1. CASE link(p)
  BY <1>1, SMT DEF link
<1>2. CASE fork_run(p)
  BY <1>2, SMT DEF fork_run
<1>3. CASE copy_fails(p)
  BY <1>3, SMT DEF freeproc, Fails, copy_fails
<1>4. CASE allocproc(p)
  BY <1>4, SMT DEF MayFork, allocpid, allocproc
<1>5. CASE exit_family(p)
  BY <1>5, SMT DEF reparent, Woken, wakeup, Kids, exit_family
<1>6. CASE exit_zombie(p)
  BY <1>6, SMT DEF exit_zombie
<1>7. CASE acquire_wait(p) \/ scan_ends(p) \/ reap_fails(p)
  BY <1>7, SMT DEF Kids, acquire_wait, scan_ends, reap_fails
<1>8. CASE reap(p)
  BY <1>8, SMT DEF freeproc, Kids, Reapable, reap
<1>9. CASE sleep(p)
  BY <1>9, SMT DEF sleep
<1>10. CASE kill(p)
  BY <1>10, SMT DEF wakeup, Victim, kill
<1>11. CASE alloc_fails(p) \/ exit(p) \/ swtch(p) \/ wait(p) \/ setkilled(p)
  BY <1>11, SMT DEF Fails, MayFork, alloc_fails, exit, swtch, wait, setkilled
<1> QED
  BY <1>1, <1>2, <1>3, <1>4, <1>5, <1>6, <1>7, <1>8, <1>9, <1>10, <1>11 DEF Step, Kernel

\* With wait_lock held nobody gets or gives away children, and the parent cannot fall asleep.
LEMMA ExitingStep ==
    ASSUME TypeOK, Threads, LockHeld, Forks, Links, Exiting, ParentAlive, NEW p \in Procs, Step(p)
    PROVE  Exiting'
<1> USE ProcAssumption DEF At, Goto, table, Forking, Places, TypeOK, Threads, LockHeld, Forks, Links, Exiting, ParentAlive, Alive
<1>1. CASE link(p)
  BY <1>1, SMT DEF link
<1>2. CASE fork_run(p)
  BY <1>2, SMT DEF fork_run
<1>3. CASE copy_fails(p)
  BY <1>3, SMT DEF freeproc, Fails, copy_fails
<1>4. CASE allocproc(p)
  BY <1>4, SMT DEF MayFork, allocpid, allocproc
<1>5. CASE exit_family(p)
  BY <1>5, SMT DEF reparent, Woken, wakeup, Kids, exit_family
<1>6. CASE exit_zombie(p)
  BY <1>6, SMT DEF exit_zombie
<1>7. CASE acquire_wait(p) \/ scan_ends(p) \/ reap_fails(p)
  BY <1>7, SMT DEF Kids, acquire_wait, scan_ends, reap_fails
<1>8. CASE reap(p)
  BY <1>8, SMT DEF freeproc, Kids, Reapable, reap
<1>9. CASE sleep(p)
  BY <1>9, SMT DEF sleep
<1>10. CASE kill(p)
  BY <1>10, SMT DEF wakeup, Victim, kill
<1>11. CASE alloc_fails(p) \/ exit(p) \/ swtch(p) \/ wait(p) \/ setkilled(p)
  BY <1>11, SMT DEF Fails, MayFork, alloc_fails, exit, swtch, wait, setkilled
<1> QED
  BY <1>1, <1>2, <1>3, <1>4, <1>5, <1>6, <1>7, <1>8, <1>9, <1>10, <1>11 DEF Step, Kernel

\* With wait_lock held nobody becomes a zombie.
LEMMA ScannedStep ==
    ASSUME TypeOK, Threads, LockHeld, Forks, Links, Scanned, NEW p \in Procs, Step(p)
    PROVE  Scanned'
<1> USE ProcAssumption DEF At, Goto, table, Forking, Places, TypeOK, Threads, LockHeld, Forks, Links, Scanned
<1>1. CASE link(p)
  BY <1>1, SMT DEF link
<1>2. CASE fork_run(p)
  BY <1>2, SMT DEF fork_run
<1>3. CASE copy_fails(p)
  BY <1>3, SMT DEF freeproc, Fails, copy_fails
<1>4. CASE allocproc(p)
  BY <1>4, SMT DEF MayFork, allocpid, allocproc
<1>5. CASE exit_family(p)
  BY <1>5, SMT DEF reparent, Woken, wakeup, Kids, exit_family
<1>6. CASE exit_zombie(p)
  BY <1>6, SMT DEF exit_zombie
<1>7. CASE acquire_wait(p) \/ scan_ends(p) \/ reap_fails(p)
  BY <1>7, SMT DEF Kids, acquire_wait, scan_ends, reap_fails
<1>8. CASE reap(p)
  BY <1>8, SMT DEF freeproc, Kids, Reapable, reap
<1>9. CASE sleep(p)
  BY <1>9, SMT DEF sleep
<1>10. CASE kill(p)
  BY <1>10, SMT DEF wakeup, Victim, kill
<1>11. CASE alloc_fails(p) \/ exit(p) \/ swtch(p) \/ wait(p) \/ setkilled(p)
  BY <1>11, SMT DEF Fails, MayFork, alloc_fails, exit, swtch, wait, setkilled
<1> QED
  BY <1>1, <1>2, <1>3, <1>4, <1>5, <1>6, <1>7, <1>8, <1>9, <1>10, <1>11 DEF Step, Kernel

\* A process becomes a zombie without children, and only zombies without children and
\* entries not yet in use are freed.
LEMMA ParentAliveStep ==
    ASSUME TypeOK, Threads, Forks, Links, Exiting, ParentAlive, NEW p \in Procs, Step(p)
    PROVE  ParentAlive'
<1> USE ProcAssumption DEF At, Goto, table, Forking, Places, TypeOK, Threads, Forks, Links, Exiting, ParentAlive, Alive
<1>1. CASE link(p)
  BY <1>1, SMT DEF link
<1>2. CASE fork_run(p)
  BY <1>2, SMT DEF fork_run
<1>3. CASE copy_fails(p)
  BY <1>3, SMT DEF freeproc, Fails, copy_fails
<1>4. CASE allocproc(p)
  BY <1>4, SMT DEF MayFork, allocpid, allocproc
<1>5. CASE exit_family(p)
  BY <1>5, SMT DEF reparent, Woken, wakeup, Kids, exit_family
<1>6. CASE exit_zombie(p)
  BY <1>6, SMT DEF exit_zombie
<1>7. CASE acquire_wait(p) \/ scan_ends(p) \/ reap_fails(p)
  BY <1>7 DEF Kids, acquire_wait, scan_ends, reap_fails
<1>8. CASE reap(p)
  BY <1>8, SMT DEF freeproc, Kids, Reapable, reap
<1>9. CASE sleep(p)
  BY <1>9, SMT DEF sleep
<1>10. CASE kill(p)
  BY <1>10, SMT DEF wakeup, Victim, kill
<1>11. CASE alloc_fails(p) \/ exit(p) \/ swtch(p) \/ wait(p) \/ setkilled(p)
  BY <1>11 DEF Fails, MayFork, alloc_fails, exit, swtch, wait, setkilled
<1> QED
  BY <1>1, <1>2, <1>3, <1>4, <1>5, <1>6, <1>7, <1>8, <1>9, <1>10, <1>11 DEF Step, Kernel

\* The parent of a process that becomes a zombie is awake, and who falls asleep has
\* no exited child.
LEMMA NoMissedExitStep ==
    ASSUME TypeOK, Threads, LockHeld, Forks, Links, Exiting, Scanned, ParentAlive, NoMissedExit, NEW p \in Procs, Step(p)
    PROVE  NoMissedExit'
<1> USE ProcAssumption DEF At, Goto, table, Forking, Places, TypeOK, Threads, LockHeld, Forks, Links, Exiting, Scanned, ParentAlive, NoMissedExit, Kids, Alive
<1>1. CASE link(p)
  BY <1>1, SMT DEF link
<1>2. CASE fork_run(p)
  BY <1>2, SMT DEF fork_run
<1>3. CASE copy_fails(p)
  BY <1>3, SMT DEF freeproc, Fails, copy_fails
<1>4. CASE allocproc(p)
  BY <1>4, SMT DEF MayFork, allocpid, allocproc
<1>5. CASE exit_family(p)
  BY <1>5, SMT DEF reparent, Woken, wakeup, exit_family
<1>6. CASE exit_zombie(p)
  BY <1>6, SMT DEF exit_zombie
<1>7. CASE acquire_wait(p) \/ scan_ends(p) \/ reap_fails(p)
  BY <1>7, SMT DEF acquire_wait, scan_ends, reap_fails
<1>8. CASE reap(p)
  BY <1>8, SMT DEF freeproc, Reapable, reap
<1>9. CASE sleep(p)
  BY <1>9, SMT DEF sleep
<1>10. CASE kill(p)
  BY <1>10, SMT DEF wakeup, Victim, kill
<1>11. CASE alloc_fails(p) \/ exit(p) \/ swtch(p) \/ wait(p) \/ setkilled(p)
  BY <1>11, SMT DEF Fails, MayFork, alloc_fails, exit, swtch, wait, setkilled
<1> QED
  BY <1>1, <1>2, <1>3, <1>4, <1>5, <1>6, <1>7, <1>8, <1>9, <1>10, <1>11, ZenonT(30) DEF Step, Kernel

-----------------------------------------------------------------------------
(* The theorems.                                                           *)

LEMMA InitInv == Init => ProcInv
<1> SUFFICES ASSUME Init PROVE ProcInv
  OBVIOUS
<1> USE ProcAssumption DEF Init
<1>1. TypeOK
  <2>1. killed \in [Procs -> BOOLEAN]
    OBVIOUS
  <2> QED
    BY <2>1, SMT DEF TypeOK
<1>2. Threads /\ LockHeld
  BY DEF Threads, LockHeld, Places
<1>3. Forks /\ Links
  BY DEF Forks, Links, Forking
<1>4. Exiting /\ Scanned /\ ParentAlive /\ NoMissedExit
  BY DEF Exiting, Scanned, ParentAlive, NoMissedExit, Kids, Alive
<1> QED
  BY <1>1, <1>2, <1>3, <1>4 DEF ProcInv

LEMMA InvStep == ProcInv /\ [Next]_vars => ProcInv'
<1> SUFFICES ASSUME ProcInv, [Next]_vars PROVE ProcInv'
  OBVIOUS
<1>1. CASE UNCHANGED vars
  BY <1>1, SMT DEF ProcInv, vars, table, TypeOK, Threads, LockHeld, Forks, Links, Exiting, Scanned,
     ParentAlive, NoMissedExit, Kids
<1>2. ASSUME NEW p \in Procs, Step(p) PROVE ProcInv'
  <2> USE <1>2 DEF ProcInv
  <2>1. TypeOK' /\ Threads' /\ LockHeld'
    BY TypeOKStep, ThreadsStep, LockHeldStep
  <2>2. Forks' /\ Links'
    BY ForksStep, LinksStep
  <2>3. Exiting' /\ Scanned'
    BY ExitingStep, ScannedStep
  <2>4. ParentAlive' /\ NoMissedExit'
    BY ParentAliveStep, NoMissedExitStep
  <2> QED
    BY <2>1, <2>2, <2>3, <2>4
<1> QED
  BY <1>1, <1>2, StepOrSame

\* The states the process table, wait_lock and the kernel threads can be in together.
THEOREM ProcInvariant == Spec => []ProcInv
BY InitInv, InvStep, PTL DEF Spec

\* exit() leaves no orphans: in every state the parent of a process that runs, sleeps or
\* is a zombie is alive, for any number of processes that fork, exit, wait and are
\* killed in any order.
THEOREM ProcParentAlive == Spec => []ParentAlive
<1>1. ProcInv => ParentAlive
  BY DEF ProcInv
<1> QED
  BY <1>1, ProcInvariant, PTL

\* wait() misses no exit(): no parent sleeps while one of its children is a zombie.
THEOREM ProcNoMissedExit == Spec => []NoMissedExit
<1>1. ProcInv => NoMissedExit
  BY DEF ProcInv
<1> QED
  BY <1>1, ProcInvariant, PTL

\* freeproc() never frees an entry whose thread is still on its kernel stack.
THEOREM ProcFreedIsIdle == Spec => []FreedIsIdle
<1>1. ProcInv => FreedIsIdle
  BY DEF ProcInv, Threads, FreedIsIdle
<1> QED
  BY <1>1, ProcInvariant, PTL

-----------------------------------------------------------------------------
(* kill().                                                                 *)

\* A free entry has pid 0 and is not marked.
FreeUnmarked == \A p \in Procs : state[p] = "UNUSED" => pid[p] = 0 /\ ~killed[p]

LEMMA MarkStep ==
    ASSUME 0 \notin BadPids, TypeOK, Forks, ParentAlive, FreeUnmarked, KilledByPid,
           NEW p \in Procs, Step(p)
    PROVE  FreeUnmarked' /\ KilledByPid'
<1> USE ProcAssumption DEF At, Goto, table, TypeOK, Forks, FreeUnmarked, KilledByPid
<1>1. CASE link(p) \/ fork_run(p)
  BY <1>1, SMT DEF link, fork_run, Forking
<1>2. CASE copy_fails(p) \/ reap(p)
  BY <1>2, SMT DEF copy_fails, reap, freeproc, Fails
<1>3. CASE allocproc(p)
  BY <1>3, SMT DEF allocproc, allocpid, MayFork
<1>4. CASE exit_family(p)
  BY <1>4, ZenonT(30) DEF exit_family, Woken, wakeup, ParentAlive, Alive
<1>5. CASE exit_zombie(p) \/ sleep(p)
  BY <1>5, SMT DEF exit_zombie, sleep
<1>6. CASE kill(p)
  BY <1>6, SMT DEF kill, wakeup, Victim
<1>7. CASE setkilled(p)
  BY <1>7, ZenonT(30) DEF setkilled
<1>8. CASE alloc_fails(p) \/ exit(p) \/ swtch(p) \/ wait(p) \/ acquire_wait(p) \/ scan_ends(p)
              \/ reap_fails(p)
  BY <1>8 DEF alloc_fails, exit, swtch, wait, acquire_wait, scan_ends, reap_fails, Fails
<1> QED
  BY <1>1, <1>2, <1>3, <1>4, <1>5, <1>6, <1>7, <1>8 DEF Step, Kernel

\* kill() hits the process with the given pid and no later one in the same entry, as
\* long as it is not called with 0, the pid of a free entry.
THEOREM ProcKilledByPid ==
    ASSUME 0 \notin BadPids
    PROVE  Spec => []KilledByPid
<1> DEFINE I == ProcInv /\ FreeUnmarked /\ KilledByPid
<1>1. Init => I
  <2>1. Init => FreeUnmarked /\ KilledByPid
    BY ZenonT(30) DEF Init, FreeUnmarked, KilledByPid
  <2> QED
    BY <2>1, InitInv
<1>2. I /\ [Next]_vars => I'
  <2> SUFFICES ASSUME I, [Next]_vars PROVE I'
    OBVIOUS
  <2>1. ProcInv'
    BY InvStep
  <2>2. CASE UNCHANGED vars
    <3>1. FreeUnmarked' /\ KilledByPid'
      BY <2>2 DEF vars, table, FreeUnmarked, KilledByPid
    <3> QED
      BY <2>1, <3>1
  <2>3. ASSUME NEW p \in Procs, Step(p) PROVE I'
    <3>1. FreeUnmarked' /\ KilledByPid'
      BY <2>3, MarkStep DEF ProcInv
    <3> QED
      BY <2>1, <3>1
  <2> QED
    BY <2>2, <2>3, StepOrSame
<1>3. I => KilledByPid
  OBVIOUS
<1> QED
  BY <1>1, <1>2, <1>3, PTL DEF Spec

-----------------------------------------------------------------------------
(* sleep() over a count of ticks that wraps.                               *)

\* How far every call of sleep() is.
Timed(p) ==
    /\ c_pc[p] = "user" => c_elapsed[p] = 0
    /\ c_pc[p] # "user" => c_elapsed[p] < UINT /\ (c_ticks - c_ticks0[p]) % UINT = c_elapsed[p]
    /\ c_pc[p] \in {"sleep", "asleep"} => c_elapsed[p] < c_n[p]
    /\ c_pc[p] = "woken" => c_elapsed[p] <= c_n[p] + c_lag[p]

ClockInv == Clock!TypeOK /\ \A p \in Sleepers : Timed(p)

\* Half of the range of a uint, twice, is all of it.
LEMMA Halves ==
    Clock!ClockAssumption => /\ UINT \in Nat /\ UINT >= 2 /\ UINT \div 2 \in Nat /\ UINT = 2 * (UINT \div 2)
                       /\ MAXLAG \in Nat /\ 1 <= MAXLAG /\ MAXLAG <= UINT \div 2 /\ 0 \in ClockHarts
<1> SUFFICES ASSUME Clock!ClockAssumption
             PROVE  /\ UINT \in Nat /\ UINT >= 2 /\ UINT \div 2 \in Nat /\ UINT = 2 * (UINT \div 2)
                    /\ MAXLAG \in Nat /\ 1 <= MAXLAG /\ MAXLAG <= UINT \div 2 /\ 0 \in ClockHarts
  OBVIOUS
<1>1. UINT \in Nat /\ UINT % 2 = 0 /\ MAXLAG \in 1 .. (UINT \div 2) /\ 0 \in ClockHarts
  BY DEF Clock!ClockAssumption
<1> QED
  BY <1>1, SMT

\* What % does with the difference of two uints.
LEMMA Difference ==
    ASSUME Clock!ClockAssumption, NEW a \in 0 .. UINT - 1, NEW b \in 0 .. UINT - 1
    PROVE  (a - b) % UINT = IF a >= b THEN a - b ELSE (a - b) + UINT
<1>1. UINT \in Nat /\ UINT >= 2
  BY Halves
<1> QED
  BY <1>1, SMT

\* One tick more, also when ticks wraps.
LEMMA TickMore ==
    ASSUME Clock!ClockAssumption, NEW a \in 0 .. UINT - 1, NEW b \in 0 .. UINT - 1, NEW e \in Nat,
           (a - b) % UINT = e, e + 1 < UINT
    PROVE  (a + 1) % UINT \in 0 .. UINT - 1 /\ (((a + 1) % UINT) - b) % UINT = e + 1
<1>1. UINT \in Nat /\ UINT >= 2
  BY Halves
<1>2. (a + 1) % UINT = IF a = UINT - 1 THEN 0 ELSE a + 1
  BY <1>1, SMT
<1>3. PICK c \in 0 .. UINT - 1 : c = (a + 1) % UINT
  BY <1>1, <1>2, SMT
<1>4. (c - b) % UINT = IF c >= b THEN c - b ELSE (c - b) + UINT
  BY Difference
<1>5. e = IF a >= b THEN a - b ELSE (a - b) + UINT
  BY Difference
<1>6. (c - b) % UINT = e + 1
  BY <1>1, <1>2, <1>3, <1>4, <1>5, SMT
<1> QED
  BY <1>3, <1>6

LEMMA ClockInit ==
    ASSUME Clock!ClockAssumption, Clock!Init
    PROVE  ClockInv
<1>1. 0 \in 0 .. UINT - 1 /\ 0 \in 0 .. (UINT \div 2) - 1 /\ 0 \in 0 .. UINT /\ 0 \in 0 .. MAXLAG
  BY Halves, SMT
<1> QED
  BY <1>1 DEF Clock!Init, ClockInv, Clock!TypeOK, Timed

\* What a step of one process leaves alone.
LEMMA OneSleeper ==
    ASSUME ClockInv, NEW p \in Sleepers, Clock!TypeOK', Timed(p)', c_ticks' = c_ticks,
           \A q \in Sleepers \ {p} : /\ c_pc'[q] = c_pc[q] /\ c_n'[q] = c_n[q] /\ c_ticks0'[q] = c_ticks0[q]
                                  /\ c_elapsed'[q] = c_elapsed[q] /\ c_lag'[q] = c_lag[q]
    PROVE  ClockInv'
<1>1. ASSUME NEW q \in Sleepers \ {p} PROVE Timed(q)'
  BY DEF ClockInv, Timed
<1> QED
  BY <1>1 DEF ClockInv

\* sys_sleep() starts.
LEMMA ClockCall ==
    ASSUME Clock!ClockAssumption, ClockInv, NEW p \in Sleepers, NEW a \in Clock!Ints, Clock!Call(p, a)
    PROVE  ClockInv'
<1>1. Clock!TypeOK /\ Timed(p)
  BY DEF ClockInv
<1>2. Clock!Clipped(a) \in 0 .. (UINT \div 2) - 1
  BY Halves, SMT DEF Clock!Clipped, Clock!Ints
<1>3. Clock!TypeOK'
  BY <1>1, <1>2 DEF Clock!TypeOK, Clock!Call
<1>4. (c_ticks - c_ticks) % UINT = 0 /\ 0 < UINT
  <2>1. c_ticks \in 0 .. UINT - 1 /\ UINT \in Nat /\ UINT >= 2
    BY <1>1, Halves DEF Clock!TypeOK
  <2> QED
    BY <2>1, Difference, SMT
<1>5. c_elapsed[p] = 0 /\ c_pc'[p] = "first" /\ c_ticks0'[p] = c_ticks
  BY <1>1 DEF Timed, Clock!Call, Clock!TypeOK
<1>6. Timed(p)'
  BY <1>4, <1>5 DEF Timed, Clock!Call
<1> QED
  BY <1>1, <1>3, <1>6, OneSleeper DEF Clock!Call, Clock!TypeOK

\* Over() compares the time that has passed.
LEMMA OverIs ==
    ASSUME ClockInv, NEW p \in Sleepers, c_pc[p] # "user"
    PROVE  Clock!Over(p) <=> c_elapsed[p] >= c_n[p]
BY DEF ClockInv, Timed, Clock!Over

\* The while loop of sys_sleep().
LEMMA ClockTest ==
    ASSUME Clock!ClockAssumption, ClockInv, NEW p \in Sleepers, Clock!Test(p)
    PROVE  ClockInv'
<1>1. Clock!TypeOK /\ Timed(p) /\ c_pc[p] # "user"
  BY DEF ClockInv, Clock!Test
<1>2. 0 \in 0 .. UINT - 1 /\ 0 \in 0 .. (UINT \div 2) - 1 /\ 0 \in 0 .. UINT /\ 0 \in 0 .. MAXLAG
  BY Halves, SMT
<1>3. CASE Clock!Return(p, 0) \/ Clock!Return(p, -1)
  <2>1. c_pc'[p] = "user" /\ c_elapsed'[p] = 0
    BY <1>1, <1>3, ZenonT(30) DEF Clock!Return, Clock!TypeOK
  <2>2. Clock!TypeOK'
    BY <1>1, <1>2, <1>3, SMT DEF Clock!Return, Clock!Test, Clock!TypeOK
  <2>3. Timed(p)'
    BY <2>1 DEF Timed
  <2> QED
    BY <1>1, <1>3, <2>2, <2>3, OneSleeper DEF Clock!Return, Clock!Test, Clock!TypeOK
<1>4. CASE ~Clock!Over(p) /\ c_pc' = [c_pc EXCEPT ![p] = "sleep"] /\ UNCHANGED <<c_n, c_ticks0, c_ret, c_elapsed>>
  <2>1. Clock!TypeOK'
    BY <1>1, <1>2, <1>4 DEF Clock!Test, Clock!TypeOK
  <2>2. ~(c_elapsed[p] >= c_n[p]) /\ c_elapsed[p] \in Nat /\ c_n[p] \in Nat
    <3>1. c_elapsed[p] \in 0 .. UINT /\ c_n[p] \in 0 .. (UINT \div 2) - 1
      BY <1>1 DEF Clock!TypeOK
    <3>2. c_elapsed[p] \in Nat /\ c_n[p] \in Nat
      BY <3>1, Halves, SMT
    <3> QED
      BY <1>1, <1>4, <3>2, OverIs
  <2>3. c_pc'[p] = "sleep" /\ c_elapsed'[p] < c_n'[p]
    BY <1>1, <1>4, <2>2, SMT DEF Clock!TypeOK
  <2>4. Timed(p)'
    BY <1>1, <1>4, <2>3 DEF Timed, Clock!Test
  <2> QED
    BY <1>1, <1>4, <2>1, <2>4, OneSleeper DEF Clock!Test, Clock!TypeOK
<1> QED
  BY <1>3, <1>4 DEF Clock!Test

\* sleep() and kill().
LEMMA ClockSleep ==
    ASSUME ClockInv, NEW p \in Sleepers, Clock!Sleep(p)
    PROVE  ClockInv'
<1>1. Clock!TypeOK /\ Timed(p)
  BY DEF ClockInv
<1>2. Clock!TypeOK'
  BY <1>1 DEF Clock!TypeOK, Clock!Sleep
<1>3. Timed(p)'
  BY <1>1 DEF Timed, Clock!Sleep, Clock!TypeOK
<1> QED
  BY <1>1, <1>2, <1>3, OneSleeper DEF Clock!Sleep, Clock!TypeOK

LEMMA ClockKill ==
    ASSUME Clock!ClockAssumption, ClockInv, NEW p \in Sleepers, Clock!kill(p)
    PROVE  ClockInv'
<1>1. Clock!TypeOK /\ Timed(p)
  BY DEF ClockInv
<1>2. Clock!TypeOK'
  BY <1>1 DEF Clock!TypeOK, Clock!kill
<1>3. CASE c_pc[p] = "asleep"
  <2>1. c_pc'[p] = "woken"
    BY <1>1, <1>3 DEF Clock!kill, Clock!TypeOK
  <2>2. c_elapsed[p] <= c_n[p] + c_lag[p]
    <3>1. c_elapsed[p] < c_n[p] /\ c_elapsed[p] \in 0 .. UINT /\ c_n[p] \in 0 .. (UINT \div 2) - 1 /\ c_lag[p] \in 0 .. MAXLAG
      BY <1>1, <1>3 DEF Timed, Clock!TypeOK
    <3> QED
      BY <3>1, Halves, SMT
  <2> QED
    BY <1>1, <1>2, <1>3, <2>1, <2>2, OneSleeper DEF Clock!kill, Clock!TypeOK, Timed
<1>4. CASE c_pc[p] # "asleep"
  <2>1. c_pc'[p] = c_pc[p]
    BY <1>1, <1>4 DEF Clock!kill, Clock!TypeOK
  <2> QED
    BY <1>1, <1>2, <2>1, OneSleeper DEF Clock!kill, Clock!TypeOK, Timed
<1> QED
  BY <1>3, <1>4

\* clockintr(): time passes for the sleepers and for those who were woken.
LEMMA ClockTick ==
    ASSUME Clock!ClockAssumption, ClockInv, NEW h \in ClockHarts, Clock!clockintr(h)
    PROVE  ClockInv'
<1>1. Clock!TypeOK /\ \A p \in Sleepers : Timed(p)
  BY DEF ClockInv
<1>2. CASE h # 0
  <2>1. UNCHANGED Clock!vars
    BY <1>2 DEF Clock!clockintr, Clock!Counts, Clock!vars
  <2> QED
    BY <1>1, <2>1 DEF ClockInv, Clock!TypeOK, Timed, Clock!vars
<1>3. CASE h = 0
  <2>1. /\ Clock!LockFree /\ c_ticks' = (c_ticks + 1) % UINT /\ c_pc' = Clock!Woken /\ Clock!Elapses
        /\ \A p \in Sleepers : c_lag[p] < MAXLAG
        /\ UNCHANGED <<c_n, c_ticks0, c_killed, c_ret>>
    BY <1>3 DEF Clock!clockintr, Clock!Counts
  <2>2. c_ticks' \in 0 .. UINT - 1
    <3>1. c_ticks \in 0 .. UINT - 1 /\ UINT \in Nat /\ UINT >= 2
      BY <1>1, Halves DEF Clock!TypeOK
    <3> QED
      BY <2>1, <3>1, SMT
  <2>3. ASSUME NEW p \in Sleepers
        PROVE  c_elapsed'[p] \in 0 .. UINT /\ c_lag'[p] \in 0 .. MAXLAG /\ Timed(p)'
    <3>1. /\ c_elapsed[p] \in 0 .. UINT /\ c_n[p] \in 0 .. (UINT \div 2) - 1 /\ c_lag[p] \in 0 .. MAXLAG
          /\ c_ticks \in 0 .. UINT - 1 /\ c_ticks0[p] \in 0 .. UINT - 1 /\ c_lag[p] < MAXLAG
          /\ c_pc[p] \in {"user", "asleep", "woken"}
      BY <1>1, <2>1 DEF Clock!TypeOK, Clock!LockFree
    <3>2. /\ c_elapsed'[p] = IF c_pc[p] = "user" THEN 0 ELSE IF c_elapsed[p] = UINT THEN UINT ELSE c_elapsed[p] + 1
          /\ c_lag'[p] = IF c_pc[p] = "woken" THEN c_lag[p] + 1 ELSE 0
          /\ c_pc'[p] = IF c_pc[p] = "asleep" THEN "woken" ELSE c_pc[p]
          /\ c_n'[p] = c_n[p] /\ c_ticks0'[p] = c_ticks0[p] /\ c_ticks' = (c_ticks + 1) % UINT
      BY <2>1 DEF Clock!Elapses, Clock!Woken
    <3>3. CASE c_pc[p] = "user"
      <4>1. c_elapsed'[p] = 0 /\ c_lag'[p] = 0 /\ c_pc'[p] = "user"
        BY <3>2, <3>3
      <4>2. 0 \in 0 .. UINT /\ 0 \in 0 .. MAXLAG
        BY Halves, SMT
      <4> QED
        BY <4>1, <4>2 DEF Timed
    <3>4. CASE c_pc[p] # "user"
      <4>1. c_elapsed[p] < UINT /\ (c_ticks - c_ticks0[p]) % UINT = c_elapsed[p]
        BY <1>1, <3>4 DEF Timed
      <4>2. c_pc[p] = "asleep" => c_elapsed[p] < c_n[p]
        BY <1>1 DEF Timed
      <4>3. c_pc[p] = "woken" => c_elapsed[p] <= c_n[p] + c_lag[p]
        BY <1>1 DEF Timed
      <4>4. /\ c_elapsed[p] \in Nat /\ c_elapsed[p] + 1 < UINT /\ c_elapsed[p] + 1 \in 0 .. UINT
            /\ c_elapsed[p] # UINT /\ c_lag[p] + 1 \in 0 .. MAXLAG /\ 0 \in 0 .. MAXLAG
            /\ c_pc[p] = "asleep" => c_elapsed[p] + 1 <= c_n[p] + 0
            /\ c_pc[p] = "woken" => c_elapsed[p] + 1 <= c_n[p] + (c_lag[p] + 1)
        BY <3>1, <3>4, <4>1, <4>2, <4>3, Halves, SMT
      <4>5. (c_ticks' - c_ticks0[p]) % UINT = c_elapsed[p] + 1
        BY <3>1, <3>2, <4>1, <4>4, TickMore
      <4>6. c_elapsed'[p] = c_elapsed[p] + 1 /\ c_pc'[p] = "woken"
        BY <3>1, <3>2, <3>4, <4>4
      <4>7. c_elapsed'[p] <= c_n'[p] + c_lag'[p] /\ c_lag'[p] \in 0 .. MAXLAG
        BY <3>1, <3>2, <3>4, <4>4, <4>6
      <4> QED
        BY <3>2, <4>4, <4>5, <4>6, <4>7 DEF Timed
    <3> QED
      BY <3>3, <3>4
  <2>4. c_elapsed' \in [Sleepers -> 0 .. UINT] /\ c_lag' \in [Sleepers -> 0 .. MAXLAG]
    BY <2>1, <2>3 DEF Clock!Elapses
  <2>5. c_pc' \in [Sleepers -> {"user", "first", "sleep", "asleep", "woken"}]
    BY <1>1, <2>1 DEF Clock!TypeOK, Clock!Woken
  <2> QED
    BY <1>1, <2>1, <2>2, <2>3, <2>4, <2>5 DEF ClockInv, Clock!TypeOK
<1> QED
  BY <1>2, <1>3

LEMMA ClockStep ==
    ASSUME Clock!ClockAssumption, ClockInv, [Clock!Next]_(Clock!vars)
    PROVE  ClockInv'
<1>1. CASE UNCHANGED Clock!vars
  BY <1>1 DEF ClockInv, Clock!TypeOK, Timed, Clock!vars
<1>2. ASSUME NEW p \in Sleepers, Clock!Test(p) \/ Clock!Sleep(p) \/ Clock!kill(p) PROVE ClockInv'
  BY <1>2, ClockTest, ClockSleep, ClockKill
<1>3. ASSUME NEW p \in Sleepers, NEW a \in Clock!Ints, Clock!Call(p, a) PROVE ClockInv'
  BY <1>3, ClockCall
<1>4. ASSUME NEW h \in ClockHarts, Clock!clockintr(h) PROVE ClockInv'
  BY <1>4, ClockTick
<1> QED
  BY <1>1, <1>2, <1>3, <1>4 DEF Clock!Next

\* The invariant says that nobody oversleeps.
LEMMA ClockSafe ==
    ClockInv => Clock!TypeOK /\ Clock!NotOverslept
BY DEF ClockInv, Timed, Clock!NotOverslept

\* A return is a return of Test().
LEMMA ClockReturns ==
    ASSUME ClockInv, [Clock!Next]_(Clock!vars)
    PROVE  Clock!SleepsEnough
<1> SUFFICES ASSUME NEW p \in Sleepers, c_pc[p] # "user", c_pc'[p] = "user"
             PROVE  IF c_ret'[p] = 0 THEN c_elapsed[p] >= c_n[p] ELSE c_killed[p]
  BY DEF Clock!SleepsEnough
<1>1. Clock!TypeOK
  BY DEF ClockInv
<1>2. ASSUME NEW q \in Sleepers, Clock!Test(q) PROVE q = p
  BY <1>1, <1>2 DEF Clock!Test, Clock!Return, Clock!TypeOK
<1>3. ASSUME Clock!Test(p) PROVE IF c_ret'[p] = 0 THEN c_elapsed[p] >= c_n[p] ELSE c_killed[p]
  <2>1. (Clock!Over(p) /\ Clock!Return(p, 0)) \/ (c_killed[p] /\ Clock!Return(p, -1))
    BY <1>1, <1>3 DEF Clock!Test, Clock!TypeOK
  <2> QED
    BY <1>1, <2>1, OverIs, SMT DEF Clock!Return, Clock!TypeOK
<1>4. ASSUME NEW q \in Sleepers, Clock!Sleep(q) \/ Clock!kill(q) PROVE FALSE
  BY <1>1, <1>4 DEF Clock!Sleep, Clock!kill, Clock!TypeOK
<1>5. ASSUME NEW q \in Sleepers, NEW a \in Clock!Ints, Clock!Call(q, a) PROVE FALSE
  BY <1>1, <1>5 DEF Clock!Call, Clock!TypeOK
<1>6. ASSUME NEW h \in ClockHarts, Clock!clockintr(h) PROVE FALSE
  BY <1>1, <1>6 DEF Clock!clockintr, Clock!Woken, Clock!TypeOK
<1>7. ~UNCHANGED Clock!vars
  BY DEF Clock!vars
<1> QED
  BY <1>2, <1>3, <1>4, <1>5, <1>6, <1>7 DEF Clock!Next

\* Every call of sleep() lasts as long as it has to and ends when it has to, for any
\* number of sleepers and any even width of ticks that is twice the lag of the
\* woken at least: sys_sleep() and clockintr().
THEOREM ClockSleeps == Clock!Spec => SleepsEnough
<1>1. Clock!Init => ClockInv
  BY CpusAssumption, ClockInit
<1>2. ClockInv /\ [Clock!Next]_(Clock!vars) => ClockInv'
  BY CpusAssumption, ClockStep
<1>3. ClockInv /\ [Clock!Next]_(Clock!vars) => [Clock!SleepsEnough]_clock_vars
  BY ClockReturns
<1> QED
  BY <1>1, <1>2, <1>3, ClockSafe, PTL DEF Clock!Spec, SleepsEnough

=============================================================================
