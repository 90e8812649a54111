-------------------------------- MODULE Log ---------------------------------
(***************************************************************************)
(* The redo log of kernel/log.c and mkfs's choice of its size: concurrent  *)
(* file-system calls between begin_op() and end_op(), group commit by the  *)
(* last one, a crash at any moment and recovery at boot.                   *)
(*                                                                         *)
(* A step is one critical section of log.lock or one block written to      *)
(* disk.  A block's content is one value.  bread() finds the cached copy,  *)
(* or reads the home location; the cache may drop a block that nobody      *)
(* holds or pins (evict).                                                  *)
(***************************************************************************)
EXTENDS Integers, Sequences, FiniteSets

CONSTANTS
    Procs,          \* processes that make file-system calls
    Blocks,         \* home locations outside the log
    Vals,           \* contents of a block
    LOGSIZE,        \* param.h: blocks in struct logheader
    NLOG,           \* mkfs.c: sb.nlog, blocks of the log area with its header
    MAXOPBLOCKS     \* param.h: log_write() calls one system call may make

ASSUME LogAssumption ==
    /\ LOGSIZE \in Nat /\ NLOG \in Nat /\ MAXOPBLOCKS \in Nat
    /\ 0 < MAXOPBLOCKS /\ MAXOPBLOCKS <= LOGSIZE
    /\ IsFiniteSet(Procs)

VARIABLES
    lh,             \* log.lh: the block numbers logged so far
    outstanding,    \* log.outstanding
    committing,     \* log.committing
    pc,             \* where each process is: outside, in begin_op(), asleep, in a call, in commit()
    left,           \* log_write() calls a process may still make in its call
    cpc, tail,      \* progress of commit() and of recover_from_log()
    cache,          \* content of the buffer of each block
    pin,            \* references log_write() holds on each buffer
    home, logblk, head, \* disk: home locations, log blocks, log header
    panicked

mem  == <<lh, outstanding, committing, pc, left, cpc, tail, cache, pin>>
disk == <<home, logblk, head>>
vars == <<lh, outstanding, committing, pc, left, cpc, tail, cache, pin, home, logblk, head,
          panicked>>

Booting == cpc \in {"boot", "rinstall", "rclear"}
Running == ~Booting /\ ~panicked

\* (mutant) wakeup() on the wrong channel
Mut_wakeup == pc

\* wakeup(&log): every process asleep in begin_op() looks again.
wakeup == [q \in Procs |-> IF pc[q] = "sleep" THEN "begin" ELSE pc[q]]

-----------------------------------------------------------------------------
(* File-system calls.                                                      *)

\* begin_op(): this call might exhaust the log.
LogFull == Len(lh) + (outstanding + 1) * MAXOPBLOCKS > LOGSIZE

\* (mutant) begin_op() does not wait for a commit
Mut_begin_op(p) ==
    /\ Running /\ pc[p] \in {"out", "begin"} /\ ~LogFull
    /\ outstanding' = outstanding + 1
    /\ pc' = [pc EXCEPT ![p] = "op"]
    /\ left' = [left EXCEPT ![p] = MAXOPBLOCKS]
    /\ UNCHANGED <<lh, committing, cpc, tail, cache, pin, disk, panicked>>

\* begin_op(): one turn of its loop under log.lock.
begin_op(p) ==
    /\ Running /\ pc[p] \in {"out", "begin"}
    /\ \/ /\ committing \/ LogFull
          /\ pc' = [pc EXCEPT ![p] = "sleep"]
          /\ UNCHANGED <<outstanding, left>>
       \/ /\ ~committing /\ ~LogFull
          /\ outstanding' = outstanding + 1
          /\ pc' = [pc EXCEPT ![p] = "op"]
          /\ left' = [left EXCEPT ![p] = MAXOPBLOCKS]
    /\ UNCHANGED <<lh, committing, cpc, tail, cache, pin, disk, panicked>>

\* log_write(): the block is already in the transaction.
Absorbed(b) == \E i \in 1 .. Len(lh) : lh[i] = b

\* A call changes block b: bread(), the change, log_write() and brelse(), all
\* under b's sleep lock.
log_write(p, b, v) ==
    /\ Running /\ pc[p] = "op" /\ left[p] > 0
    /\ \/ /\ Len(lh) >= LOGSIZE \/ Len(lh) >= NLOG - 1 \/ outstanding < 1
          /\ panicked' = TRUE
          /\ UNCHANGED <<mem, disk>>
       \/ /\ ~(Len(lh) >= LOGSIZE \/ Len(lh) >= NLOG - 1 \/ outstanding < 1)
          /\ cache' = [cache EXCEPT ![b] = v]
          /\ IF Absorbed(b) THEN UNCHANGED <<lh, pin>>
             ELSE lh' = Append(lh, b) /\ pin' = [pin EXCEPT ![b] = @ + 1]
          /\ left' = [left EXCEPT ![p] = @ - 1]
          /\ UNCHANGED <<outstanding, committing, pc, cpc, tail, disk, panicked>>

\* end_op(): the last call commits, any other wakes the waiters.
end_op(p) ==
    /\ Running /\ pc[p] = "op"
    /\ outstanding' = outstanding - 1
    /\ left' = [left EXCEPT ![p] = 0]
    /\ panicked' = committing
    /\ IF outstanding' = 0
       THEN /\ committing' = TRUE
            /\ pc' = [pc EXCEPT ![p] = "commit"]
            /\ cpc' = IF lh = <<>> THEN "done" ELSE "wlog"
            /\ tail' = 0
       ELSE /\ pc' = [wakeup EXCEPT ![p] = "out"]
            /\ UNCHANGED <<committing, cpc, tail>>
    /\ UNCHANGED <<lh, cache, pin, disk>>

\* The cache drops the buffer of a block that is not pinned and reads it again.
evict(b) ==
    /\ Running /\ pin[b] = 0
    /\ cache' = [cache EXCEPT ![b] = home[b]]
    /\ UNCHANGED <<lh, outstanding, committing, pc, left, cpc, tail, pin, disk, panicked>>

-----------------------------------------------------------------------------
(* commit(), by the process whose end_op() was the last.                   *)

\* (mutant) the last block is not copied to the log
Mut_write_log ==
    /\ Running /\ cpc = "wlog"
    /\ logblk' = IF tail + 1 = Len(lh) THEN logblk
                 ELSE [logblk EXCEPT ![tail + 1] = cache[lh[tail + 1]]]
    /\ tail' = tail + 1
    /\ cpc' = IF tail' = Len(lh) THEN "whead" ELSE cpc
    /\ UNCHANGED <<lh, outstanding, committing, pc, left, cache, pin, home, head, panicked>>

\* write_log(): one block from the cache to the log.
write_log ==
    /\ Running /\ cpc = "wlog"
    /\ logblk' = [logblk EXCEPT ![tail + 1] = cache[lh[tail + 1]]]
    /\ tail' = tail + 1
    /\ cpc' = IF tail' = Len(lh) THEN "whead" ELSE cpc
    /\ UNCHANGED <<lh, outstanding, committing, pc, left, cache, pin, home, head, panicked>>

\* write_head(): the header block goes to disk, the true commit point.
write_head ==
    /\ Running /\ cpc = "whead"
    /\ head' = lh /\ cpc' = "install" /\ tail' = 0
    /\ UNCHANGED <<lh, outstanding, committing, pc, left, cache, pin, home, logblk, panicked>>

\* install_trans(0): one block from the log to its home, unpinned; after the
\* last one log.lh.n = 0.
install_trans ==
    LET b == lh[tail + 1] IN
    /\ Running /\ cpc = "install"
    /\ home' = [home EXCEPT ![b] = logblk[tail + 1]]
    /\ cache' = [cache EXCEPT ![b] = logblk[tail + 1]]
    /\ pin' = [pin EXCEPT ![b] = @ - 1]
    /\ tail' = tail + 1
    /\ IF tail' = Len(lh) THEN lh' = <<>> /\ cpc' = "clear" ELSE UNCHANGED <<lh, cpc>>
    /\ UNCHANGED <<outstanding, committing, pc, left, logblk, head, panicked>>

\* write_head() with an empty header erases the transaction.
clear_head ==
    /\ Running /\ cpc = "clear"
    /\ head' = <<>> /\ cpc' = "done" /\ tail' = 0
    /\ UNCHANGED <<lh, outstanding, committing, pc, left, cache, pin, home, logblk, panicked>>

\* (mutant) end_op() does not wake the processes that waited for the commit
Mut_end_commit(p) ==
    /\ Running /\ cpc = "done" /\ pc[p] = "commit"
    /\ committing' = FALSE /\ cpc' = "idle"
    /\ pc' = [pc EXCEPT ![p] = "out"]
    /\ UNCHANGED <<lh, outstanding, left, tail, cache, pin, disk, panicked>>

\* end_op(), after commit().
end_commit(p) ==
    /\ Running /\ cpc = "done" /\ pc[p] = "commit"
    /\ committing' = FALSE /\ cpc' = "idle"
    /\ pc' = [wakeup EXCEPT ![p] = "out"]
    /\ UNCHANGED <<lh, outstanding, left, tail, cache, pin, disk, panicked>>

-----------------------------------------------------------------------------
(* Crash (or a reset after a panic) and initlog().                         *)

crash ==
    /\ cpc' = "boot" /\ lh' = <<>> /\ tail' = 0
    /\ outstanding' = 0 /\ committing' = FALSE /\ panicked' = FALSE
    /\ pc' = [p \in Procs |-> "out"] /\ left' = [p \in Procs |-> 0]
    /\ pin' = [b \in Blocks |-> 0] /\ cache' = home
    /\ UNCHANGED disk

\* read_head()
read_head ==
    /\ cpc = "boot"
    /\ lh' = head /\ cpc' = "rinstall" /\ tail' = 0
    /\ UNCHANGED <<outstanding, committing, pc, left, cache, pin, disk, panicked>>

\* install_trans(1): one block, or the end of the loop.
recover_install ==
    /\ cpc = "rinstall"
    /\ IF tail < Len(lh)
       THEN /\ home' = [home EXCEPT ![lh[tail + 1]] = logblk[tail + 1]]
            /\ cache' = home'
            /\ tail' = tail + 1
            /\ UNCHANGED <<lh, cpc>>
       ELSE /\ lh' = <<>> /\ cpc' = "rclear" /\ tail' = 0
            /\ UNCHANGED <<home, cache>>
    /\ UNCHANGED <<outstanding, committing, pc, left, pin, logblk, head, panicked>>

\* write_head() clears the log; the system is up.
recover_clear ==
    /\ cpc = "rclear"
    /\ head' = <<>> /\ cpc' = "idle"
    /\ UNCHANGED <<lh, outstanding, committing, pc, left, tail, cache, pin, home, logblk,
                   panicked>>

-----------------------------------------------------------------------------

\* The disk as mkfs leaves it, before the first boot.
Init ==
    /\ home \in [Blocks -> Vals] /\ cache = home
    /\ logblk \in [1 .. LOGSIZE -> Vals] /\ \A i, j \in 1 .. LOGSIZE : logblk[i] = logblk[j]
    /\ head = <<>> /\ lh = <<>> /\ cpc = "boot" /\ tail = 0
    /\ outstanding = 0 /\ committing = FALSE /\ panicked = FALSE
    /\ pc = [p \in Procs |-> "out"] /\ left = [p \in Procs |-> 0]
    /\ pin = [b \in Blocks |-> 0]

Commit == write_log \/ write_head \/ install_trans \/ clear_head
Recover == read_head \/ recover_install \/ recover_clear

Next ==
    \/ \E p \in Procs : begin_op(p) \/ end_op(p) \/ end_commit(p)
    \/ \E p \in Procs, b \in Blocks, v \in Vals : log_write(p, b, v)
    \/ \E b \in Blocks : evict(b)
    \/ Commit
    \/ Recover
    \/ crash

Spec == Init /\ [][Next]_vars

\* Every system call ends, and commit() is not abandoned.
FairSpec ==
    /\ Spec
    /\ WF_vars(Commit)
    /\ \A p \in Procs : WF_vars(end_op(p)) /\ WF_vars(end_commit(p))

-----------------------------------------------------------------------------
(* Properties.                                                             *)

TypeOK ==
    /\ lh \in Seq(Blocks) /\ head \in Seq(Blocks)
    /\ outstanding \in Nat /\ committing \in BOOLEAN /\ panicked \in BOOLEAN
    /\ pc \in [Procs -> {"out", "begin", "sleep", "op", "commit"}]
    /\ left \in [Procs -> 0 .. MAXOPBLOCKS]
    /\ cpc \in {"idle", "wlog", "whead", "install", "clear", "done", "boot", "rinstall", "rclear"}
    /\ tail \in Nat
    /\ cache \in [Blocks -> Vals] /\ home \in [Blocks -> Vals]
    /\ pin \in [Blocks -> Nat]
    /\ logblk \in [1 .. LOGSIZE -> Vals]

\* A call that keeps to MAXOPBLOCKS finds room in struct logheader for each
\* block it may still log, however many calls run at once: begin_op()'s
\* reservation is enough.
Reserved == \A p \in Procs : pc[p] = "op" /\ left[p] > 0 => Len(lh) < LOGSIZE

\* A process asleep in begin_op() has somebody who will wake it: a call that
\* is still running, or the commit.
NoLostWakeup == (\E p \in Procs : pc[p] = "sleep") => outstanding > 0 \/ committing

\* Nothing but a full log area makes log_write() or end_op() panic: struct
\* logheader never overflows, log_write() is always inside a transaction and no
\* call ends during a commit.
PanicOnlyFull == panicked => Len(lh) >= NLOG - 1

\* log_write() and end_op() do not panic: begin_op() makes a call wait that
\* "might exhaust log space" (log.c:134).
NoPanic == ~panicked

\* A process asleep in begin_op() is woken.
Woken == \A p \in Procs : (pc[p] = "sleep") ~> (pc[p] # "sleep" \/ panicked)

\* The blocks at home overlaid with the log blocks l of the header h.
Overlay(h, l, m) ==
    [b \in Blocks |-> IF \E i \in 1 .. Len(h) : h[i] = b
                      THEN l[CHOOSE i \in 1 .. Len(h) : h[i] = b]
                      ELSE m[b]]

\* The log implements atomic, durable groups of calls: what a reboot would
\* find is the home locations overlaid with a committed log.
Durable == Overlay(head, logblk, home)
View == IF Booting THEN Durable ELSE cache
InOp == {p \in Procs : pc[p] = "op"}
Pending == cpc \in {"wlog", "whead"}
Abstract == INSTANCE AtomicFS WITH fs <- Durable, view <- View, active <- InOp, pending <- Pending

\* Calls take effect in groups, all or nothing, whatever the moment of a crash
\* (and of a crash during recovery), and nothing else changes a block.
Atomic == Abstract!ASpec
=============================================================================
