-------------------------------- MODULE Bio ---------------------------------
(***************************************************************************)
(* The buffer cache of kernel/bio.c with the sleep locks of                *)
(* kernel/sleeplock.c and the pins of the log.                             *)
(*                                                                         *)
(* A step is one critical section of bcache.lock or of a sleep lock's spin *)
(* lock, or one transfer of virtio_disk_rw().  A block is named by one     *)
(* value for its dev and blockno: the swap area (dev 0) and the file       *)
(* system (dev 1) use different blocks of the disk (fs.c:77, fs.c:727).    *)
(***************************************************************************)
EXTENDS Integers, FiniteSets

CONSTANTS
    Procs, Vals, NULL,
    Blocks,         \* block numbers; a process locks its blocks in ascending order
    NBUF,           \* param.h
    MaxHold,        \* buffers one process holds at a time
    MaxPins         \* blocks the log pins at a time (log.c: LOGSIZE)

Bufs == 1 .. NBUF

ASSUME BioAssumption ==
    /\ NBUF \in Nat \ {0} /\ MaxHold \in Nat /\ MaxPins \in Nat
    /\ Blocks \in SUBSET Nat /\ NULL \notin Blocks /\ NULL \notin Procs /\ NULL \notin Bufs
    /\ IsFiniteSet(Procs)

VARIABLES
    blockno, valid, refcnt, data,   \* struct buf
    owner,                          \* b->lock: the process that locked it, or NULL
    lru,                            \* bcache.head: most recently used first
    pins,                           \* how many times the log has pinned the buffer
    disk,
    pc, cur,                        \* where each process is, and with which buffer
    held,                           \* buffers a process got from bread()
    dirty,                          \* buffers it changed and has neither written nor pinned
    panicked

bufs  == <<blockno, valid, refcnt, data, owner, lru, pins, disk>>
vars  == <<bufs, pc, cur, held, dirty, panicked>>

TypeOK ==
    /\ blockno \in [Bufs -> Blocks \union {NULL}]
    /\ valid \in [Bufs -> BOOLEAN] /\ refcnt \in [Bufs -> Nat] /\ data \in [Bufs -> Vals]
    /\ owner \in [Bufs -> Procs \union {NULL}]
    /\ lru \in [1 .. NBUF -> Bufs]
    /\ pins \in [Bufs -> Nat] /\ disk \in [Blocks -> Vals]
    /\ pc \in [Procs -> {"run", "lock", "asleep", "fill", "brelse"}]
    /\ cur \in [Procs -> Bufs \union {NULL}]
    /\ held \in [Procs -> SUBSET Bufs] /\ dirty \in [Procs -> SUBSET Bufs]
    /\ panicked \in BOOLEAN

\* binit(): no block is cached (dev 0, block 0 is never read), buf[NBUF-1] is at
\* the head of the list.
Init ==
    /\ blockno = [b \in Bufs |-> NULL] /\ valid = [b \in Bufs |-> FALSE]
    /\ refcnt = [b \in Bufs |-> 0]
    /\ owner = [b \in Bufs |-> NULL]
    /\ lru = [k \in 1 .. NBUF |-> NBUF + 1 - k]
    /\ pins = [b \in Bufs |-> 0]
    /\ \E v \in Vals : data = [b \in Bufs |-> v] /\ disk = [k \in Blocks |-> v]
    /\ pc = [p \in Procs |-> "run"] /\ cur = [p \in Procs |-> NULL]
    /\ held = [p \in Procs |-> {}] /\ dirty = [p \in Procs |-> {}]
    /\ panicked = FALSE

-----------------------------------------------------------------------------
(* bread()                                                                 *)

\* A process asks for a block after the ones it holds.
Wants(p, k) ==
    /\ ~panicked /\ pc[p] = "run"
    /\ Cardinality(held[p]) < MaxHold
    /\ \A b \in held[p] : blockno[b] < k

Takes(p, b) ==
    /\ pc' = [pc EXCEPT ![p] = "lock"] /\ cur' = [cur EXCEPT ![p] = b]
    /\ UNCHANGED <<data, owner, lru, pins, disk, held, dirty, panicked>>

\* bget(): the block is cached.
bget_hit(p, k) ==
    /\ Wants(p, k)
    /\ \E b \in Bufs :
          /\ blockno[b] = k
          /\ refcnt' = [refcnt EXCEPT ![b] = @ + 1]
          /\ UNCHANGED <<blockno, valid>>
          /\ Takes(p, b)

\* bget(): the first loop finds nothing.
Uncached(k) == \A b \in Bufs : blockno[b] # k

\* bget(): b is the first unused buffer from bcache.head.prev on.
Oldest(b) ==
    \E k \in 1 .. NBUF : /\ lru[k] = b /\ refcnt[b] = 0
                         /\ \A j \in k + 1 .. NBUF : refcnt[lru[j]] # 0

\* bget(): the block is not cached.
bget_miss(p, k) ==
    /\ Wants(p, k) /\ Uncached(k)
    /\ \E b \in Bufs :
          /\ Oldest(b)
          /\ blockno' = [blockno EXCEPT ![b] = k]
          /\ valid' = [valid EXCEPT ![b] = FALSE]
          /\ refcnt' = [refcnt EXCEPT ![b] = 1]
          /\ Takes(p, b)

\* panic("bget: no buffers")
bget_panic(p, k) ==
    /\ Wants(p, k) /\ Uncached(k)
    /\ \A j \in 1 .. NBUF : refcnt[lru[j]] # 0
    /\ panicked' = TRUE
    /\ UNCHANGED <<bufs, pc, cur, held, dirty>>

\* (mutant) lk->locked is set, lk->pid is not
Mut_acquiresleep(p) ==
    /\ pc[p] = "lock"
    /\ pc' = [pc EXCEPT ![p] = IF owner[cur[p]] # NULL THEN "asleep" ELSE "fill"]
    /\ UNCHANGED <<bufs, cur, held, dirty, panicked>>

\* acquiresleep(): one turn of its loop; sleep() is atomic for releasesleep().
acquiresleep(p) ==
    /\ pc[p] = "lock"
    /\ IF owner[cur[p]] # NULL
       THEN pc' = [pc EXCEPT ![p] = "asleep"] /\ UNCHANGED owner
       ELSE /\ owner' = [owner EXCEPT ![cur[p]] = p]
            /\ pc' = [pc EXCEPT ![p] = "fill"]
    /\ UNCHANGED <<blockno, valid, refcnt, data, lru, pins, disk, cur, held, dirty, panicked>>

\* (mutant) bread() does not look at b->valid
Mut_fill(p) ==
    /\ pc[p] = "fill"
    /\ valid' = [valid EXCEPT ![cur[p]] = TRUE]
    /\ held' = [held EXCEPT ![p] = @ \union {cur[p]}]
    /\ pc' = [pc EXCEPT ![p] = "run"] /\ cur' = [cur EXCEPT ![p] = NULL]
    /\ UNCHANGED <<blockno, refcnt, data, owner, lru, pins, disk, dirty, panicked>>

\* bread(): read the block unless the buffer has it.
fill(p) ==
    LET b == cur[p]
    IN  /\ pc[p] = "fill"
        /\ data' = IF valid[b] THEN data ELSE [data EXCEPT ![b] = disk[blockno[b]]]
        /\ valid' = [valid EXCEPT ![b] = TRUE]
        /\ held' = [held EXCEPT ![p] = @ \union {b}]
        /\ pc' = [pc EXCEPT ![p] = "run"] /\ cur' = [cur EXCEPT ![p] = NULL]
        /\ UNCHANGED <<blockno, refcnt, owner, lru, pins, disk, dirty, panicked>>

-----------------------------------------------------------------------------
(* What holders do: change the block, then bwrite() it or let the log pin  *)
(* it (log_write()), and unpin it when it is on disk (install_trans()).    *)

Holds(p, b) == ~panicked /\ pc[p] = "run" /\ b \in held[p]

change(p, b, v) ==
    /\ Holds(p, b)
    /\ data' = [data EXCEPT ![b] = v] /\ dirty' = [dirty EXCEPT ![p] = @ \union {b}]
    /\ UNCHANGED <<blockno, valid, refcnt, owner, lru, pins, disk, pc, cur, held, panicked>>

\* bwrite(), or its panic.
bwrite(p, b) ==
    /\ Holds(p, b)
    /\ panicked' = (owner[b] # p)
    /\ disk' = IF owner[b] = p THEN [disk EXCEPT ![blockno[b]] = data[b]] ELSE disk
    /\ dirty' = [dirty EXCEPT ![p] = @ \ {b}]
    /\ UNCHANGED <<blockno, valid, refcnt, data, owner, lru, pins, pc, cur, held>>

\* bpin(), once per block of a transaction: log absorption (log.c:225).
bpin(p, b) ==
    /\ Holds(p, b) /\ b \in dirty[p]
    /\ IF pins[b] = 0
       THEN /\ Cardinality({c \in Bufs : pins[c] > 0}) < MaxPins
            /\ refcnt' = [refcnt EXCEPT ![b] = @ + 1] /\ pins' = [pins EXCEPT ![b] = @ + 1]
       ELSE UNCHANGED <<refcnt, pins>>
    /\ dirty' = [dirty EXCEPT ![p] = @ \ {b}]
    /\ UNCHANGED <<blockno, valid, data, owner, lru, disk, pc, cur, held, panicked>>

\* bunpin(), after install_trans() has written the block.
bunpin(p, b) ==
    /\ Holds(p, b) /\ pins[b] > 0 /\ disk[blockno[b]] = data[b]
    /\ refcnt' = [refcnt EXCEPT ![b] = @ - 1] /\ pins' = [pins EXCEPT ![b] = @ - 1]
    /\ UNCHANGED <<blockno, valid, data, owner, lru, disk, pc, cur, held, dirty, panicked>>

\* wakeup(lk): everybody asleep on the lock tries again.
Woken(b) == [q \in Procs |-> IF pc[q] = "asleep" /\ cur[q] = b THEN "lock" ELSE pc[q]]

\* brelse() up to releasesleep(), or its panic.
releasesleep(p, b) ==
    /\ Holds(p, b) /\ b \notin dirty[p]
    /\ panicked' = (owner[b] # p)
    /\ owner' = [owner EXCEPT ![b] = NULL]
    /\ pc' = [Woken(b) EXCEPT ![p] = "brelse"] /\ cur' = [cur EXCEPT ![p] = b]
    /\ held' = [held EXCEPT ![p] = @ \ {b}]
    /\ UNCHANGED <<blockno, valid, refcnt, data, lru, pins, disk, dirty>>

\* brelse(): the list with b taken out and put behind bcache.head.
AtHead(b) ==
    LET k == CHOOSE k \in 1 .. NBUF : lru[k] = b
    IN  [j \in 1 .. NBUF |-> IF j = 1 THEN b ELSE IF j <= k THEN lru[j - 1] ELSE lru[j]]

\* (mutant) the reference is dropped only when nobody has locked the buffer since
Mut_brelse(p) ==
    LET b == cur[p]
    IN  /\ pc[p] = "brelse"
        /\ refcnt' = [refcnt EXCEPT ![b] = IF owner[b] = NULL THEN @ - 1 ELSE @]
        /\ lru' = IF refcnt[b] = 1 THEN AtHead(b) ELSE lru
        /\ pc' = [pc EXCEPT ![p] = "run"] /\ cur' = [cur EXCEPT ![p] = NULL]
        /\ UNCHANGED <<blockno, valid, data, owner, pins, disk, held, dirty, panicked>>

\* brelse(): an unused buffer becomes the most recently used one.
brelse(p) ==
    LET b == cur[p]
    IN  /\ pc[p] = "brelse"
        /\ refcnt' = [refcnt EXCEPT ![b] = @ - 1]
        /\ lru' = IF refcnt[b] = 1 THEN AtHead(b) ELSE lru
        /\ pc' = [pc EXCEPT ![p] = "run"] /\ cur' = [cur EXCEPT ![p] = NULL]
        /\ UNCHANGED <<blockno, valid, data, owner, pins, disk, held, dirty, panicked>>

Kernel(p) == acquiresleep(p) \/ fill(p) \/ brelse(p)

Halted == panicked /\ UNCHANGED vars

Next ==
    \/ \E p \in Procs :
          \/ ~panicked /\ Kernel(p)
          \/ \E k \in Blocks : bget_hit(p, k) \/ bget_miss(p, k) \/ bget_panic(p, k)
          \/ \E b \in Bufs : bwrite(p, b) \/ bpin(p, b) \/ bunpin(p, b) \/ releasesleep(p, b)
          \/ \E b \in Bufs, v \in Vals : change(p, b, v)
    \/ Halted

Spec == Init /\ [][Next]_vars

-----------------------------------------------------------------------------
(* Properties.                                                             *)

\* bread() returns what the last holder of the block left, and to one process at
\* a time, through any sequence of evictions and refills: the cache implements
\* BlockStore.
View(bn, va, da, di) ==
    [k \in Blocks |-> IF \E b \in Bufs : bn[b] = k /\ va[b]
                      THEN da[CHOOSE b \in Bufs : bn[b] = k /\ va[b]] ELSE di[k]]
Holder(bn, ow) ==
    [k \in Blocks |-> IF \E b \in Bufs : bn[b] = k /\ ow[b] # NULL
                      THEN ow[CHOOSE b \in Bufs : bn[b] = k /\ ow[b] # NULL] ELSE NULL]
Store == INSTANCE BlockStore WITH
    view <- View(blockno, valid, data, disk), holder <- Holder(blockno, owner)
ReadsLatest == Store!SSpec

\* bget() never caches a block twice, although it releases bcache.lock before it
\* locks the buffer.
OneBufferPerBlock ==
    \A b, c \in Bufs : blockno[b] = blockno[c] /\ blockno[b] # NULL => b = c

Users(b) == {p \in Procs : cur[p] = b \/ b \in held[p]}

\* b->refcnt is exactly the processes between bget() and the end of brelse() plus
\* the log's pins, so a buffer in use is never recycled and an idle one always is.
RefcntExact ==
    \A b \in Bufs : refcnt[b] = pins[b] + Cardinality(Users(b))

\* A process asleep in acquiresleep() sleeps on a lock somebody holds, who will
\* call wakeup() in releasesleep().
NoLostWakeup == \A p \in Procs : pc[p] = "asleep" => owner[cur[p]] # NULL

\* Nothing but bget() with all buffers in use panics: bwrite() and brelse() find
\* the lock held by their caller, and the list that bget() scans lacks no buffer.
PanicOnlyFull == panicked => \A b \in Bufs : refcnt[b] > 0

=============================================================================
