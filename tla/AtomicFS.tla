------------------------------ MODULE AtomicFS ------------------------------
(***************************************************************************)
(* What the log promises its users (the comment at the head of             *)
(* kernel/log.c): file-system calls update blocks in memory; their updates *)
(* become durable together, when no call is active; a crash brings back    *)
(* the blocks as they were at the last such moment.                        *)
(***************************************************************************)
CONSTANTS Procs, Blocks, Vals

VARIABLES
    fs,         \* the blocks a reboot would find
    view,       \* the blocks the running system sees
    active,     \* the processes inside a file-system call
    pending     \* the last call has ended, its group is not yet durable

avars == <<fs, view, active, pending>>

AInit ==
    /\ fs \in [Blocks -> Vals] /\ view = fs
    /\ active = {} /\ pending = FALSE

ABegin(p) ==
    /\ p \notin active /\ ~pending
    /\ active' = active \union {p}
    /\ UNCHANGED <<fs, view, pending>>

AUpdate(p, b, v) ==
    /\ p \in active
    /\ view' = [view EXCEPT ![b] = v]
    /\ UNCHANGED <<fs, active, pending>>

\* The last call to end leaves a group to commit, unless nothing changed.
AEnd(p) ==
    /\ p \in active
    /\ active' = active \ {p}
    /\ IF active' # {} THEN pending' = FALSE ELSE pending' = TRUE \/ (view = fs /\ pending' = FALSE)
    /\ UNCHANGED <<fs, view>>

ACommit ==
    /\ pending /\ active = {}
    /\ fs' = view /\ pending' = FALSE
    /\ UNCHANGED <<view, active>>

ACrash ==
    /\ view' = fs /\ active' = {} /\ pending' = FALSE
    /\ UNCHANGED fs

ANext ==
    \/ \E p \in Procs : ABegin(p) \/ AEnd(p)
    \/ \E p \in Procs, b \in Blocks, v \in Vals : AUpdate(p, b, v)
    \/ ACommit
    \/ ACrash

ASpec == AInit /\ [][ANext]_avars
=============================================================================
