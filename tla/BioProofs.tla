----------------------------- MODULE BioProofs ------------------------------
(***************************************************************************)
(* Proofs about Bio for every number of processes, blocks and buffers.     *)
(***************************************************************************)
EXTENDS Bio, FiniteSetTheorems, TLAPS

\* Zenon proves most leaves; the others name their prover.
USE Zenon

\* Where a process is, and which buffers it has.
Places ==
    \A p \in Procs : /\ pc[p] = "run" <=> cur[p] = NULL
                     /\ cur[p] \notin held[p]
                     /\ dirty[p] \subseteq held[p]

\* A sleep lock is held from acquiresleep() to releasesleep().
Locked ==
    \A p \in Procs, b \in Bufs : owner[b] = p <=> b \in held[p] \/ (pc[p] = "fill" /\ cur[p] = b)

\* A buffer that somebody has is the buffer of a block, and has been read once bread()
\* returned it or the log pinned it.
Cached ==
    /\ \A p \in Procs, b \in Bufs : cur[p] = b => blockno[b] # NULL
    /\ \A p \in Procs : \A b \in held[p] : valid[b]
    /\ \A b \in Bufs : pins[b] > 0 => valid[b]
    /\ \A b \in Bufs : valid[b] => blockno[b] # NULL

\* The contents of a buffer that is neither pinned nor being changed are on disk.
Clean ==
    \A b \in Bufs : valid[b] /\ pins[b] = 0 /\ (\A p \in Procs : b \notin dirty[p])
                       => data[b] = disk[blockno[b]]

\* Every buffer is on the list that bget() scans.
Listed == \A b \in Bufs : \E k \in 1 .. NBUF : lru[k] = b

BioInv ==
    /\ TypeOK /\ Places /\ Locked /\ Cached /\ Clean /\ Listed
    /\ OneBufferPerBlock /\ RefcntExact /\ NoLostWakeup

\* What most proofs need of RefcntExact.
Covers ==
    \A b \in Bufs : refcnt[b] >= pins[b] /\ (Users(b) # {} => refcnt[b] > pins[b])

\* One step of process p.
Step(p) ==
    \/ ~panicked /\ Kernel(p)
    \/ \E k \in Blocks : bget_hit(p, k) \/ bget_miss(p, k) \/ bget_panic(p, k)
    \/ \E b \in Bufs : bwrite(p, b) \/ bpin(p, b) \/ bunpin(p, b) \/ releasesleep(p, b)
    \/ \E b \in Bufs, v \in Vals : change(p, b, v)

LEMMA StepOrSame == [Next]_vars => (\E p \in Procs : Step(p)) \/ UNCHANGED vars
BY DEF Next, Step, Halted

-----------------------------------------------------------------------------
(* Helpers.                                                                *)

\* A process inside bget(), bread() or brelse() has a buffer.
LEMMA CurIs ==
    ASSUME TypeOK, Places, NEW p \in Procs, pc[p] # "run"
    PROVE  cur[p] \in Bufs
BY DEF TypeOK, Places

\* Moving a buffer to the head loses none.
LEMMA AtHeadIs ==
    ASSUME TypeOK, Listed, NEW b \in Bufs
    PROVE  /\ AtHead(b) \in [1 .. NBUF -> Bufs]
           /\ \A c \in Bufs : \E j \in 1 .. NBUF : AtHead(b)[j] = c
<1>n. NBUF \in Nat \ {0}
  BY BioAssumption
<1> DEFINE k == CHOOSE k \in 1 .. NBUF : lru[k] = b
<1>1. k \in 1 .. NBUF /\ lru[k] = b
  BY DEF Listed
<1>2. AtHead(b) = [j \in 1 .. NBUF |-> IF j = 1 THEN b ELSE IF j <= k THEN lru[j - 1] ELSE lru[j]]
  BY DEF AtHead
<1> HIDE DEF k
<1>3. AtHead(b) \in [1 .. NBUF -> Bufs]
  BY <1>n, <1>1, <1>2, SMT DEF TypeOK
<1>4. ASSUME NEW c \in Bufs PROVE \E j \in 1 .. NBUF : AtHead(b)[j] = c
  <2>1. PICK m \in 1 .. NBUF : lru[m] = c
    BY DEF Listed
  <2>2. CASE c = b
    BY <1>n, <1>2, <2>2, SMT
  <2>3. CASE m < k
    <3>1. m + 1 \in 1 .. NBUF /\ m + 1 # 1 /\ m + 1 <= k /\ (m + 1) - 1 = m
      BY <1>n, <1>1, <2>3, SMT
    <3> QED
      BY <1>2, <2>1, <3>1
  <2>4. CASE m > k
    BY <1>n, <1>1, <1>2, <2>1, <2>4, SMT
  <2> QED
    BY <1>n, <1>1, <2>1, <2>2, <2>3, <2>4, SMT
<1> QED
  BY <1>3, <1>4

\* Nobody has an unused buffer.
LEMMA UnusedIs ==
    ASSUME BioInv, Covers, NEW b \in Bufs, refcnt[b] = 0
    PROVE  /\ pins[b] = 0 /\ owner[b] = NULL /\ Users(b) = {}
           /\ \A p \in Procs : cur[p] # b /\ b \notin held[p] /\ b \notin dirty[p]
<1>0. refcnt[b] >= pins[b] /\ (Users(b) # {} => refcnt[b] > pins[b]) /\ pins[b] \in Nat
  BY DEF Covers, BioInv, TypeOK
<1>1. pins[b] = 0 /\ Users(b) = {}
  BY <1>0, SMT
<1>2. \A p \in Procs : cur[p] # b /\ b \notin held[p]
  BY <1>1 DEF Users
<1>3. \A p \in Procs : b \notin dirty[p]
  BY <1>2 DEF BioInv, Places
<1>4. owner[b] = NULL
  BY <1>2, SMT DEF BioInv, Locked, TypeOK
<1> QED
  BY <1>1, <1>2, <1>3, <1>4

\* bget() never gives a process a buffer that it has.
LEMMA HitIs ==
    ASSUME BioInv, NEW p \in Procs, NEW k \in Blocks, bget_hit(p, k)
    PROVE  \E b \in Bufs : /\ blockno[b] = k /\ b \notin held[p] /\ cur[p] = NULL
                           /\ refcnt' = [refcnt EXCEPT ![b] = @ + 1]
                           /\ UNCHANGED <<blockno, valid>> /\ Takes(p, b)
<1>1. ASSUME NEW b \in Bufs, blockno[b] = k PROVE b \notin held[p]
  BY <1>1, BioAssumption, SMT DEF bget_hit, Wants
<1>2. cur[p] = NULL
  BY DEF BioInv, Places, bget_hit, Wants
<1> QED
  BY <1>1, <1>2 DEF bget_hit

\* bget() recycles a buffer that nobody has.
LEMMA MissIs ==
    ASSUME BioInv, Covers, NEW p \in Procs, NEW k \in Blocks, bget_miss(p, k)
    PROVE  \E b \in Bufs : /\ pins[b] = 0 /\ owner[b] = NULL /\ Users(b) = {} /\ cur[p] = NULL
                           /\ \A q \in Procs : cur[q] # b /\ b \notin held[q] /\ b \notin dirty[q]
                           /\ refcnt' = [refcnt EXCEPT ![b] = 1] /\ Takes(p, b)
                           /\ blockno' = [blockno EXCEPT ![b] = k]
                           /\ \A c \in Bufs : blockno'[c] = IF c = b THEN k ELSE blockno[c]
                           /\ \A c \in Bufs : valid'[c] <=> c # b /\ valid[c]
<1>t. TypeOK
  BY DEF BioInv
<1>1. PICK b \in Bufs : /\ refcnt[b] = 0
                        /\ blockno' = [blockno EXCEPT ![b] = k] /\ valid' = [valid EXCEPT ![b] = FALSE]
                        /\ refcnt' = [refcnt EXCEPT ![b] = 1] /\ Takes(p, b)
  BY DEF bget_miss, Oldest
<1>2. \A c \in Bufs : blockno'[c] = IF c = b THEN k ELSE blockno[c]
  BY <1>t, <1>1 DEF TypeOK
<1>3. \A c \in Bufs : valid'[c] <=> c # b /\ valid[c]
  BY <1>t, <1>1 DEF TypeOK
<1>4. cur[p] = NULL
  BY DEF BioInv, Places, bget_miss, Wants
<1> QED
  BY <1>1, <1>2, <1>3, <1>4, UnusedIs

-----------------------------------------------------------------------------
(* The inductive invariant.                                                *)

\* A step keeps the types.
LEMMA TypesStep ==
    ASSUME BioInv, Covers, NEW p \in Procs, Step(p)
    PROVE  TypeOK'
<1>t. TypeOK /\ Places /\ Listed
  BY DEF BioInv
<1>1. ASSUME pc[p] = "lock", acquiresleep(p) PROVE TypeOK'
  <2>1. cur[p] \in Bufs
    BY <1>t, <1>1, CurIs
  <2>2. owner' \in [Bufs -> Procs \union {NULL}] /\ pc' \in [Procs -> {"run", "lock", "asleep", "fill", "brelse"}]
    <3>1. CASE owner[cur[p]] # NULL
      BY <1>t, <1>1, <3>1 DEF TypeOK, acquiresleep
    <3>2. CASE owner[cur[p]] = NULL
      <4>1. owner' = [owner EXCEPT ![cur[p]] = p] /\ pc' = [pc EXCEPT ![p] = "fill"]
        BY <1>1, <3>2 DEF acquiresleep
      <4>2. owner \in [Bufs -> Procs \union {NULL}] /\ pc \in [Procs -> {"run", "lock", "asleep", "fill", "brelse"}]
        BY <1>t DEF TypeOK
      <4> QED
        BY <2>1, <4>1, <4>2
    <3> QED
      BY <3>1, <3>2
  <2> QED
    BY <1>t, <1>1, <2>2 DEF TypeOK, acquiresleep
<1>2. ASSUME pc[p] = "fill", fill(p) PROVE TypeOK'
  <2>1. cur[p] \in Bufs
    BY <1>t, <1>2, CurIs
  <2>2. blockno[cur[p]] \in Blocks
    BY <1>t, <2>1 DEF BioInv, Cached, TypeOK
  <2> QED
    BY <1>t, <1>2, <2>1, <2>2, ZenonT(30) DEF TypeOK, fill
<1>3. ASSUME pc[p] = "brelse", brelse(p) PROVE TypeOK'
  <2>1. cur[p] \in Bufs
    BY <1>t, <1>3, CurIs
  <2>2. refcnt[cur[p]] - 1 \in Nat
    <3>1. p \in Users(cur[p])
      BY DEF Users
    <3>2. refcnt[cur[p]] > pins[cur[p]] /\ pins[cur[p]] \in Nat /\ refcnt[cur[p]] \in Nat
      BY <1>t, <2>1, <3>1 DEF Covers, TypeOK
    <3> QED
      BY <3>2, SMT
  <2>3. lru' \in [1 .. NBUF -> Bufs]
    BY <1>t, <1>3, <2>1, AtHeadIs DEF brelse, TypeOK
  <2>4. refcnt' \in [Bufs -> Nat] /\ pc' \in [Procs -> {"run", "lock", "asleep", "fill", "brelse"}]
        /\ cur' \in [Procs -> Bufs \union {NULL}]
    BY <1>t, <1>3, <2>1, <2>2 DEF brelse, TypeOK
  <2> QED
    BY <1>t, <1>3, <2>3, <2>4 DEF brelse, TypeOK
<1>4. ASSUME NEW k \in Blocks, bget_hit(p, k) PROVE TypeOK'
  BY <1>t, <1>4, SMT DEF TypeOK, bget_hit, Takes
<1>5. ASSUME NEW k \in Blocks, bget_miss(p, k) PROVE TypeOK'
  BY <1>t, <1>5, SMT DEF TypeOK, bget_miss, Takes
<1>6. ASSUME NEW k \in Blocks, bget_panic(p, k) PROVE TypeOK'
  BY <1>t, <1>6 DEF TypeOK, bget_panic, bufs
<1>7. ASSUME NEW b \in Bufs, bwrite(p, b) PROVE TypeOK'
  <2>1. blockno[b] \in Blocks
    BY <1>t, <1>7 DEF BioInv, Cached, TypeOK, bwrite, Holds
  <2> QED
    BY <1>t, <1>7, <2>1 DEF TypeOK, bwrite
<1>8. ASSUME NEW b \in Bufs, bpin(p, b) PROVE TypeOK'
  <2>1. refcnt' \in [Bufs -> Nat] /\ pins' \in [Bufs -> Nat] /\ dirty' \in [Procs -> SUBSET Bufs]
    <3>1. refcnt \in [Bufs -> Nat] /\ pins \in [Bufs -> Nat] /\ dirty \in [Procs -> SUBSET Bufs]
      BY <1>t DEF TypeOK
    <3>2. dirty' = [dirty EXCEPT ![p] = @ \ {b}]
      BY <1>8 DEF bpin
    <3>3. \/ refcnt' = [refcnt EXCEPT ![b] = @ + 1] /\ pins' = [pins EXCEPT ![b] = @ + 1]
          \/ refcnt' = refcnt /\ pins' = pins
      BY <1>8 DEF bpin
    <3> QED
      BY <3>1, <3>2, <3>3, SMT
  <2> QED
    BY <1>t, <1>8, <2>1 DEF TypeOK, bpin
<1>9. ASSUME NEW b \in Bufs, bunpin(p, b) PROVE TypeOK'
  <2>1. pins[b] - 1 \in Nat /\ refcnt[b] - 1 \in Nat
    BY <1>t, <1>9, SMT DEF Covers, TypeOK, bunpin
  <2> QED
    BY <1>t, <1>9, <2>1 DEF TypeOK, bunpin
<1>10. ASSUME NEW b \in Bufs, releasesleep(p, b) PROVE TypeOK'
  BY <1>t, <1>10 DEF TypeOK, releasesleep, Woken
<1>11. ASSUME NEW b \in Bufs, NEW v \in Vals, change(p, b, v) PROVE TypeOK'
  BY <1>t, <1>11 DEF TypeOK, change
<1> QED
  BY <1>1, <1>2, <1>3, <1>4, <1>5, <1>6, <1>7, <1>8, <1>9, <1>10, <1>11 DEF Step, Kernel, acquiresleep, fill, brelse

\* A step of p changes where p is and what it has, and wakes who sleeps on the lock
\* that p releases; the others stay.
LEMMA Others ==
    ASSUME BioInv, NEW p \in Procs, Step(p), NEW q \in Procs, q # p
    PROVE  /\ cur'[q] = cur[q] /\ held'[q] = held[q] /\ dirty'[q] = dirty[q]
           /\ pc'[q] = pc[q] \/ (pc[q] = "asleep" /\ pc'[q] = "lock")
<1>t. TypeOK
  BY DEF BioInv
<1>1. ASSUME Kernel(p) PROVE cur'[q] = cur[q] /\ held'[q] = held[q] /\ dirty'[q] = dirty[q] /\ pc'[q] = pc[q]
  BY <1>t, <1>1, ZenonT(30) DEF Kernel, acquiresleep, fill, brelse, TypeOK
<1>2. ASSUME NEW k \in Blocks, bget_hit(p, k) \/ bget_miss(p, k) \/ bget_panic(p, k)
      PROVE  cur'[q] = cur[q] /\ held'[q] = held[q] /\ dirty'[q] = dirty[q] /\ pc'[q] = pc[q]
  BY <1>t, <1>2, ZenonT(30) DEF bget_hit, bget_miss, bget_panic, Takes, TypeOK
<1>3. ASSUME NEW b \in Bufs, bwrite(p, b) \/ bpin(p, b) \/ bunpin(p, b) \/ \E v \in Vals : change(p, b, v)
      PROVE  cur'[q] = cur[q] /\ held'[q] = held[q] /\ dirty'[q] = dirty[q] /\ pc'[q] = pc[q]
  BY <1>t, <1>3 DEF bwrite, bpin, bunpin, change, TypeOK
<1>4. ASSUME NEW b \in Bufs, releasesleep(p, b)
      PROVE  /\ cur'[q] = cur[q] /\ held'[q] = held[q] /\ dirty'[q] = dirty[q]
             /\ pc'[q] = pc[q] \/ (pc[q] = "asleep" /\ pc'[q] = "lock")
  <2>1. pc'[q] = Woken(b)[q]
    BY <1>t, <1>4 DEF releasesleep, Woken, TypeOK
  <2> QED
    BY <1>t, <1>4, <2>1 DEF releasesleep, Woken, TypeOK
<1> QED
  BY <1>1, <1>2, <1>3, <1>4 DEF Step

\* A step keeps pc, cur, held and dirty in agreement.
LEMMA PlacesStep ==
    ASSUME BioInv, Covers, NEW p \in Procs, Step(p)
    PROVE  Places'
<1> DEFINE P(q) == /\ pc[q] = "run" <=> cur[q] = NULL
                   /\ cur[q] \notin held[q]
                   /\ dirty[q] \subseteq held[q]
<1>t. TypeOK /\ \A q \in Procs : P(q)
  BY DEF BioInv, Places
<1>n. NULL \notin Bufs
  BY BioAssumption
<1>0. ASSUME NEW q \in Procs, q # p PROVE P(q)'
  BY <1>0, <1>t, Others, ZenonT(30)
<1>1. CASE acquiresleep(p)
  <2>1. pc'[p] # "run" /\ pc[p] # "run" /\ cur' = cur /\ held' = held /\ dirty' = dirty
    BY <1>t, <1>1, ZenonT(30) DEF acquiresleep, TypeOK
  <2> QED
    BY <1>t, <1>0, <2>1 DEF Places
<1>2. CASE fill(p)
  <2>1. pc'[p] = "run" /\ cur'[p] = NULL /\ held'[p] = held[p] \union {cur[p]} /\ dirty' = dirty
        /\ pc[p] # "run" /\ held[p] \subseteq Bufs
    BY <1>t, <1>2 DEF fill, TypeOK
  <2>2. P(p)'
    BY <1>t, <1>n, <2>1 DEF TypeOK
  <2> QED
    BY <1>0, <2>2 DEF Places
<1>3. CASE brelse(p)
  <2>1. pc'[p] = "run" /\ cur'[p] = NULL /\ held' = held /\ dirty' = dirty /\ held[p] \subseteq Bufs
    BY <1>t, <1>3 DEF brelse, TypeOK
  <2>2. P(p)'
    BY <1>t, <1>n, <2>1
  <2> QED
    BY <1>0, <2>2 DEF Places
<1>4. ASSUME NEW k \in Blocks, bget_hit(p, k) \/ bget_miss(p, k) PROVE Places'
  <2>1. PICK b \in Bufs : b \notin held[p] /\ Takes(p, b)
    BY <1>4, HitIs, MissIs
  <2>2. pc'[p] = "lock" /\ cur'[p] = b /\ held' = held /\ dirty' = dirty
    BY <1>t, <2>1 DEF Takes, TypeOK
  <2>3. P(p)'
    BY <1>t, <1>n, <2>1, <2>2
  <2> QED
    BY <1>0, <2>3 DEF Places
<1>5. ASSUME NEW k \in Blocks, bget_panic(p, k) PROVE Places'
  BY <1>t, <1>5 DEF bget_panic, Places
<1>6. ASSUME NEW b \in Bufs, bwrite(p, b) \/ bpin(p, b) \/ bunpin(p, b) PROVE Places'
  <2>1. pc' = pc /\ cur' = cur /\ held' = held /\ dirty'[p] \subseteq dirty[p]
    BY <1>t, <1>6, SMT DEF bwrite, bpin, bunpin, TypeOK
  <2>2. P(p)'
    BY <1>t, <2>1
  <2> QED
    BY <1>0, <2>2 DEF Places
<1>7. ASSUME NEW b \in Bufs, releasesleep(p, b) PROVE Places'
  <2>1. pc'[p] = "brelse" /\ cur'[p] = b /\ held'[p] = held[p] \ {b} /\ dirty' = dirty /\ b \notin dirty[p]
    BY <1>t, <1>7 DEF releasesleep, Woken, TypeOK
  <2>2. P(p)'
    BY <1>t, <1>n, <2>1
  <2> QED
    BY <1>0, <2>2 DEF Places
<1>8. ASSUME NEW b \in Bufs, NEW v \in Vals, change(p, b, v) PROVE Places'
  <2>1. pc' = pc /\ cur' = cur /\ held' = held /\ dirty'[p] = dirty[p] \union {b} /\ b \in held[p]
    BY <1>t, <1>8 DEF change, Holds, TypeOK
  <2>2. P(p)'
    BY <1>t, <2>1
  <2> QED
    BY <1>0, <2>2 DEF Places
<1> QED
  BY <1>1, <1>2, <1>3, <1>4, <1>5, <1>6, <1>7, <1>8 DEF Step, Kernel

\* A step keeps the sleep locks with those who have their buffers.
LEMMA LockedStep ==
    ASSUME BioInv, NEW p \in Procs, Step(p)
    PROVE  Locked'
<1> DEFINE L(q, b) == owner[b] = q <=> b \in held[q] \/ (pc[q] = "fill" /\ cur[q] = b)
<1>t. TypeOK /\ Places /\ \A q \in Procs, b \in Bufs : L(q, b)
  BY DEF BioInv, Locked
<1>n. NULL \notin Procs /\ NULL \notin Bufs
  BY BioAssumption
<1>0. ASSUME NEW q \in Procs, q # p, NEW b \in Bufs, (owner'[b] = q) <=> (owner[b] = q) PROVE L(q, b)'
  BY <1>0, <1>t, Others, SMT
<1>1. CASE acquiresleep(p)
  <2>c. cur[p] \in Bufs /\ pc[p] = "lock"
    BY <1>t, <1>1, CurIs DEF acquiresleep
  <2>1. CASE owner[cur[p]] # NULL
    <3>1. owner' = owner /\ pc'[p] = "asleep" /\ cur' = cur /\ held' = held
      BY <1>t, <1>1, <2>1, SMT DEF acquiresleep, TypeOK
    <3> QED
      BY <1>t, <1>0, <2>c, <3>1, SMT DEF Locked
  <2>2. CASE owner[cur[p]] = NULL
    <3>1. owner' = [owner EXCEPT ![cur[p]] = p] /\ pc'[p] = "fill" /\ cur' = cur /\ held' = held
      BY <1>t, <1>1, <2>2, SMT DEF acquiresleep, TypeOK
    <3>2. \A b \in Bufs : owner'[b] = IF b = cur[p] THEN p ELSE owner[b]
      BY <1>t, <3>1, SMT DEF TypeOK
    <3>3. ASSUME NEW q \in Procs, NEW b \in Bufs PROVE L(q, b)'
      <4>1. CASE q = p
        BY <1>t, <2>c, <3>1, <3>2, <4>1, SMT
      <4>2. CASE q # p
        BY <1>0, <1>n, <2>2, <3>2, <4>2, SMT
      <4> QED
        BY <4>1, <4>2
    <3> QED
      BY <3>3 DEF Locked
  <2> QED
    BY <2>1, <2>2
<1>2. CASE fill(p)
  <2>1. owner' = owner /\ pc'[p] = "run" /\ held'[p] = held[p] \union {cur[p]} /\ pc[p] = "fill"
    BY <1>t, <1>2, SMT DEF fill, TypeOK
  <2> QED
    BY <1>t, <1>0, <2>1, SMT DEF Locked
<1>3. CASE brelse(p)
  <2>1. owner' = owner /\ pc'[p] = "run" /\ held' = held /\ pc[p] = "brelse"
    BY <1>t, <1>3, SMT DEF brelse, TypeOK
  <2> QED
    BY <1>t, <1>0, <2>1, SMT DEF Locked
<1>4. ASSUME NEW k \in Blocks, bget_hit(p, k) \/ bget_miss(p, k) PROVE Locked'
  <2>1. owner' = owner /\ pc'[p] = "lock" /\ held' = held /\ pc[p] = "run"
    BY <1>t, <1>4, SMT DEF bget_hit, bget_miss, Wants, Takes, TypeOK
  <2> QED
    BY <1>t, <1>0, <2>1, SMT DEF Locked
<1>5. ASSUME NEW k \in Blocks, bget_panic(p, k) PROVE Locked'
  BY <1>t, <1>5 DEF bget_panic, bufs, Locked
<1>6. ASSUME NEW b \in Bufs, bwrite(p, b) \/ bpin(p, b) \/ bunpin(p, b) \/ \E v \in Vals : change(p, b, v)
      PROVE  Locked'
  BY <1>t, <1>6, SMT DEF bwrite, bpin, bunpin, change, Locked
<1>7. ASSUME NEW b \in Bufs, releasesleep(p, b) PROVE Locked'
  <2>1. pc'[p] = "brelse" /\ held'[p] = held[p] \ {b} /\ pc[p] = "run" /\ b \in held[p]
    BY <1>t, <1>7, SMT DEF releasesleep, Woken, Holds, TypeOK
  <2>2. \A c \in Bufs : owner'[c] = IF c = b THEN NULL ELSE owner[c]
    BY <1>t, <1>7, SMT DEF releasesleep, TypeOK
  <2>3. owner[b] = p
    BY <1>t, <2>1
  <2>4. ASSUME NEW q \in Procs, NEW c \in Bufs PROVE L(q, c)'
    <3>1. CASE q = p
      BY <1>t, <1>n, <2>1, <2>2, <3>1, SMT
    <3>2. CASE q # p
      BY <1>0, <1>n, <2>2, <2>3, <3>2, SMT
    <3> QED
      BY <3>1, <3>2
  <2> QED
    BY <2>4 DEF Locked
<1> QED
  BY <1>1, <1>2, <1>3, <1>4, <1>5, <1>6, <1>7 DEF Step, Kernel

\* A step leaves nobody asleep on a lock that is free.
LEMMA WakeStep ==
    ASSUME BioInv, NEW p \in Procs, Step(p)
    PROVE  NoLostWakeup'
<1>t. TypeOK /\ Places /\ NoLostWakeup
  BY DEF BioInv
<1>n. NULL \notin Procs
  BY BioAssumption
<1> SUFFICES ASSUME NEW q \in Procs, pc'[q] = "asleep" PROVE owner'[cur'[q]] # NULL
  BY DEF NoLostWakeup
<1>1. CASE acquiresleep(p)
  <2>c. cur[p] \in Bufs /\ cur' = cur
    BY <1>t, <1>1, CurIs DEF acquiresleep
  <2>1. CASE owner[cur[p]] # NULL
    <3>1. owner' = owner
      BY <1>1, <2>1 DEF acquiresleep
    <3>2. CASE q = p
      BY <2>c, <2>1, <3>1, <3>2
    <3>3. CASE q # p
      BY <1>t, <2>c, <3>1, <3>3, Others DEF NoLostWakeup
    <3> QED
      BY <3>2, <3>3
  <2>2. CASE owner[cur[p]] = NULL
    <3>1. owner' = [owner EXCEPT ![cur[p]] = p] /\ pc'[p] = "fill"
      BY <1>t, <1>1, <2>2 DEF acquiresleep, TypeOK
    <3>2. q # p /\ pc[q] = "asleep"
      BY <3>1, Others
    <3>3. cur[q] \in Bufs /\ owner[cur[q]] # NULL
      BY <1>t, <3>2, CurIs DEF NoLostWakeup
    <3> QED
      BY <1>t, <1>n, <2>c, <3>1, <3>3 DEF TypeOK
  <2> QED
    BY <2>1, <2>2
<1>2. ASSUME NEW b \in Bufs, releasesleep(p, b) PROVE owner'[cur'[q]] # NULL
  <2>1. pc'[p] = "brelse" /\ owner' = [owner EXCEPT ![b] = NULL]
    BY <1>t, <1>2 DEF releasesleep, Woken, TypeOK
  <2>2. q # p /\ pc[q] = "asleep" /\ cur'[q] = cur[q]
    BY <2>1, Others
  <2>3. pc'[q] = Woken(b)[q]
    BY <1>t, <1>2, <2>2 DEF releasesleep, Woken, TypeOK
  <2>4. cur[q] # b /\ cur[q] \in Bufs /\ owner[cur[q]] # NULL
    BY <1>t, <2>2, <2>3, CurIs DEF Woken, NoLostWakeup
  <2> QED
    BY <1>t, <2>1, <2>2, <2>4 DEF TypeOK
<1>3. ASSUME owner' = owner, pc'[p] = pc[p] \/ pc'[p] # "asleep", pc'[p] = pc[p] => cur'[p] = cur[p]
      PROVE  owner'[cur'[q]] # NULL
  <2>1. pc[q] = "asleep" /\ cur'[q] = cur[q]
    BY <1>3, Others
  <2> QED
    BY <1>t, <1>3, <2>1 DEF NoLostWakeup
<1>4. CASE fill(p) \/ brelse(p)
  BY <1>t, <1>3, <1>4 DEF fill, brelse, TypeOK
<1>5. ASSUME NEW k \in Blocks, bget_hit(p, k) \/ bget_miss(p, k) PROVE owner'[cur'[q]] # NULL
  BY <1>t, <1>3, <1>5, SMT DEF bget_hit, bget_miss, Wants, Takes, TypeOK
<1>6. ASSUME NEW k \in Blocks, bget_panic(p, k) PROVE owner'[cur'[q]] # NULL
  BY <1>3, <1>6 DEF bget_panic, bufs
<1>7. ASSUME NEW b \in Bufs, bwrite(p, b) \/ bpin(p, b) \/ bunpin(p, b) \/ \E v \in Vals : change(p, b, v)
      PROVE  owner'[cur'[q]] # NULL
  BY <1>3, <1>7 DEF bwrite, bpin, bunpin, change
<1> QED
  BY <1>1, <1>2, <1>4, <1>5, <1>6, <1>7 DEF Step, Kernel

\* A step leaves every buffer that somebody has with its block, and read if it must be.
LEMMA CachedStep ==
    ASSUME BioInv, Covers, NEW p \in Procs, Step(p)
    PROVE  Cached'
<1>t. TypeOK /\ Places /\ Cached
  BY DEF BioInv
<1>n. NULL \notin Bufs /\ NULL \notin Blocks
  BY BioAssumption
<1>h. ASSUME NEW q \in Procs, NEW b \in held[q] PROVE b \in Bufs /\ valid[b] /\ blockno[b] # NULL
  BY <1>t DEF Cached, TypeOK
<1>0. ASSUME blockno' = blockno, valid' = valid, pins' = pins, held'[p] \subseteq held[p],
             cur'[p] \in {cur[p], NULL} \union held[p]
      PROVE  Cached'
  <2>1. ASSUME NEW q \in Procs, NEW b \in Bufs, cur'[q] = b PROVE blockno'[b] # NULL
    BY <1>t, <1>n, <1>h, <1>0, <2>1, Others, SMT DEF Cached
  <2>2. ASSUME NEW q \in Procs, NEW b \in held'[q] PROVE valid'[b]
    BY <1>h, <1>0, Others
  <2> QED
    BY <1>t, <1>0, <2>1, <2>2 DEF Cached
<1>1. CASE acquiresleep(p) \/ brelse(p)
  BY <1>0, <1>t, <1>1 DEF acquiresleep, brelse, TypeOK
<1>2. CASE fill(p)
  <2>c. cur[p] \in Bufs
    BY <1>t, <1>2, CurIs DEF fill
  <2>1. blockno' = blockno /\ pins' = pins /\ cur'[p] = NULL /\ held'[p] = held[p] \union {cur[p]}
    BY <1>t, <1>2 DEF fill, TypeOK
  <2>2. \A b \in Bufs : valid'[b] <=> b = cur[p] \/ valid[b]
    BY <1>t, <1>2, <2>c DEF fill, TypeOK
  <2>3. ASSUME NEW q \in Procs, NEW b \in Bufs, cur'[q] = b PROVE blockno'[b] # NULL
    BY <1>t, <1>n, <2>1, <2>3, Others DEF Cached
  <2>4. ASSUME NEW q \in Procs, NEW b \in held'[q] PROVE valid'[b]
    <3>1. b \in Bufs /\ (b = cur[p] \/ valid[b])
      BY <1>h, <2>c, <2>1, Others, SMT
    <3> QED
      BY <2>2, <3>1
  <2>5. blockno[cur[p]] # NULL
    BY <1>t, <2>c DEF Cached
  <2> QED
    BY <1>t, <2>1, <2>2, <2>3, <2>4, <2>5 DEF Cached
<1>3. ASSUME NEW k \in Blocks, bget_hit(p, k) PROVE Cached'
  <2>1. PICK b \in Bufs : blockno[b] = k /\ UNCHANGED <<blockno, valid>> /\ Takes(p, b)
    BY <1>3, HitIs
  <2>2. cur'[p] = b /\ held' = held /\ pins' = pins
    BY <1>t, <2>1 DEF Takes, TypeOK
  <2>3. ASSUME NEW q \in Procs, NEW c \in Bufs, cur'[q] = c PROVE blockno'[c] # NULL
    BY <1>t, <1>n, <2>1, <2>2, <2>3, Others DEF Cached
  <2> QED
    BY <1>t, <2>1, <2>2, <2>3 DEF Cached
<1>4. ASSUME NEW k \in Blocks, bget_miss(p, k) PROVE Cached'
  <2>1. PICK o \in Bufs : /\ pins[o] = 0 /\ Takes(p, o) /\ \A q \in Procs : o \notin held[q]
                          /\ \A b \in Bufs : blockno'[b] = IF b = o THEN k ELSE blockno[b]
                          /\ \A b \in Bufs : valid'[b] <=> b # o /\ valid[b]
    BY <1>4, MissIs, SMT
  <2>2. cur'[p] = o /\ held' = held /\ pins' = pins
    BY <1>t, <2>1 DEF Takes, TypeOK
  <2>3. ASSUME NEW q \in Procs, NEW c \in Bufs, cur'[q] = c PROVE blockno'[c] # NULL
    BY <1>t, <1>n, <2>1, <2>2, <2>3, Others, SMT DEF Cached
  <2>4. ASSUME NEW q \in Procs, NEW b \in held'[q] PROVE valid'[b]
    <3>1. b \in Bufs /\ b # o /\ valid[b]
      BY <1>h, <2>1, <2>2, ZenonT(30)
    <3> QED
      BY <2>1, <3>1
  <2>5. \A b \in Bufs : pins'[b] > 0 => valid'[b]
    <3> SUFFICES ASSUME NEW b \in Bufs, pins[b] > 0 PROVE valid'[b]
      BY <2>2
    <3>1. b # o /\ valid[b]
      BY <1>t, <2>1, SMT DEF Cached
    <3> QED
      BY <2>1, <3>1
  <2>6. \A b \in Bufs : valid'[b] => blockno'[b] # NULL
    BY <1>t, <2>1 DEF Cached
  <2> QED
    BY <2>3, <2>4, <2>5, <2>6 DEF Cached
<1>5. ASSUME NEW k \in Blocks, bget_panic(p, k) PROVE Cached'
  BY <1>t, <1>5 DEF bget_panic, bufs, Cached
<1>6. ASSUME NEW b \in Bufs, bwrite(p, b) \/ \E v \in Vals : change(p, b, v) PROVE Cached'
  BY <1>t, <1>6 DEF bwrite, change, Cached
<1>7. ASSUME NEW b \in Bufs, bpin(p, b) \/ bunpin(p, b) PROVE Cached'
  <2>1. blockno' = blockno /\ valid' = valid /\ cur' = cur /\ held' = held /\ b \in held[p]
    BY <1>7 DEF bpin, bunpin, Holds
  <2>2. \A c \in Bufs : c # b => pins'[c] = pins[c]
    BY <1>t, <1>7, ZenonT(30) DEF bpin, bunpin, TypeOK
  <2>3. \A c \in Bufs : pins'[c] > 0 => valid[c]
    BY <1>t, <1>h, <2>1, <2>2 DEF Cached
  <2> QED
    BY <1>t, <2>1, <2>3 DEF Cached
<1>8. ASSUME NEW b \in Bufs, releasesleep(p, b) PROVE Cached'
  <2>1. blockno' = blockno /\ valid' = valid /\ pins' = pins /\ cur'[p] = b /\ b \in held[p] /\ held'[p] \subseteq held[p]
    BY <1>t, <1>8 DEF releasesleep, Holds, TypeOK
  <2> QED
    BY <1>0, <2>1
<1> QED
  BY <1>1, <1>2, <1>3, <1>4, <1>5, <1>6, <1>7, <1>8 DEF Step, Kernel

\* A step caches no block twice.
LEMMA OneStep ==
    ASSUME BioInv, Covers, NEW p \in Procs, Step(p)
    PROVE  OneBufferPerBlock'
<1>t. TypeOK /\ OneBufferPerBlock
  BY DEF BioInv
<1>1. ASSUME NEW k \in Blocks, bget_miss(p, k) PROVE OneBufferPerBlock'
  <2>1. PICK o \in Bufs : \A b \in Bufs : blockno'[b] = IF b = o THEN k ELSE blockno[b]
    BY <1>1, MissIs, SMT
  <2>2. \A b \in Bufs : blockno[b] # k
    BY <1>1 DEF bget_miss, Uncached
  <2> QED
    BY <1>t, <2>1, <2>2 DEF OneBufferPerBlock
<1>2. CASE blockno' = blockno
  BY <1>t, <1>2 DEF OneBufferPerBlock
<1>3. \/ blockno' = blockno
      \/ \E k \in Blocks : bget_miss(p, k)
  BY DEF Step, Kernel, acquiresleep, fill, brelse, bget_hit, bget_panic, bufs, bwrite, bpin, bunpin, releasesleep, change
<1> QED
  BY <1>1, <1>2, <1>3

\* A step leaves on disk what no pin or change keeps in memory.
LEMMA CleanStep ==
    ASSUME BioInv, Covers, NEW p \in Procs, Step(p)
    PROVE  Clean'
<1> DEFINE C(b) == valid[b] /\ pins[b] = 0 /\ (\A q \in Procs : b \notin dirty[q]) => data[b] = disk[blockno[b]]
<1>t. TypeOK /\ Places /\ Cached /\ OneBufferPerBlock /\ \A b \in Bufs : C(b)
  BY DEF BioInv, Clean
<1>0. ASSUME UNCHANGED <<blockno, valid, pins, dirty, data, disk>> PROVE Clean'
  BY <1>t, <1>0 DEF Clean
<1>1. CASE acquiresleep(p) \/ brelse(p)
  BY <1>0, <1>1 DEF acquiresleep, brelse
<1>2. CASE fill(p)
  <2>c. cur[p] \in Bufs
    BY <1>t, <1>2, CurIs DEF fill
  <2>1. blockno' = blockno /\ pins' = pins /\ dirty' = dirty /\ disk' = disk
    BY <1>2 DEF fill
  <2>2. \A b \in Bufs : b # cur[p] => (valid'[b] <=> valid[b]) /\ data'[b] = data[b]
    BY <1>t, <1>2 DEF fill, TypeOK
  <2>3. \/ valid[cur[p]] /\ data'[cur[p]] = data[cur[p]]
        \/ data'[cur[p]] = disk[blockno[cur[p]]]
    BY <1>t, <1>2, <2>c DEF fill, TypeOK
  <2>4. ASSUME NEW b \in Bufs PROVE C(b)'
    BY <1>t, <2>1, <2>2, <2>3
  <2> QED
    BY <2>4 DEF Clean
<1>3. ASSUME NEW k \in Blocks, bget_hit(p, k) \/ bget_panic(p, k) PROVE Clean'
  BY <1>0, <1>3 DEF bget_hit, bget_panic, bufs, Takes
<1>4. ASSUME NEW k \in Blocks, bget_miss(p, k) PROVE Clean'
  <2>1. PICK o \in Bufs : /\ Takes(p, o)
                          /\ \A b \in Bufs : blockno'[b] = IF b = o THEN k ELSE blockno[b]
                          /\ \A b \in Bufs : valid'[b] <=> b # o /\ valid[b]
    BY <1>4, MissIs, SMT
  <2>2. pins' = pins /\ dirty' = dirty /\ disk' = disk /\ data' = data
    BY <2>1 DEF Takes
  <2>3. ASSUME NEW b \in Bufs PROVE C(b)'
    BY <1>t, <2>1, <2>2
  <2> QED
    BY <2>3 DEF Clean
<1>5. ASSUME NEW b \in Bufs, bwrite(p, b) PROVE Clean'
  <2>1. b \in held[p] /\ owner[b] = p /\ blockno[b] # NULL
    BY <1>t, <1>5 DEF bwrite, Holds, BioInv, Locked, Cached
  <2>2. /\ disk' = [disk EXCEPT ![blockno[b]] = data[b]]
        /\ blockno' = blockno /\ valid' = valid /\ pins' = pins /\ data' = data
    BY <1>5, <2>1 DEF bwrite
  <2>3. \A q \in Procs, c \in Bufs : c # b => (c \in dirty'[q] <=> c \in dirty[q])
    BY <1>t, <1>5 DEF bwrite, TypeOK
  <2>4. ASSUME NEW c \in Bufs PROVE C(c)'
    <3>1. CASE c = b
      BY <1>t, <2>1, <2>2, <3>1 DEF TypeOK
    <3>2. ASSUME c # b, valid[c] PROVE blockno[c] # blockno[b] /\ blockno[c] \in Blocks
      BY <1>t, <3>2, ZenonT(30) DEF OneBufferPerBlock, Cached, TypeOK
    <3>3. ASSUME c # b, valid[c] PROVE disk'[blockno[c]] = disk[blockno[c]]
      BY <1>t, <2>2, <3>2, <3>3 DEF TypeOK
    <3> QED
      BY <1>t, <2>2, <2>3, <3>1, <3>3
  <2> QED
    BY <2>4 DEF Clean
<1>6. ASSUME NEW b \in Bufs, bpin(p, b) PROVE Clean'
  <2>1. blockno' = blockno /\ valid' = valid /\ data' = data /\ disk' = disk
    BY <1>6 DEF bpin
  <2>2. pins'[b] # 0 /\ \A c \in Bufs : c # b => pins'[c] = pins[c]
    <3>1. CASE pins[b] = 0
      <4>1. pins' = [pins EXCEPT ![b] = @ + 1] /\ pins \in [Bufs -> Nat]
        BY <1>t, <1>6, <3>1 DEF bpin, TypeOK
      <4> QED
        BY <3>1, <4>1, SMT
    <3>2. CASE pins[b] # 0
      BY <1>6, <3>2 DEF bpin
    <3> QED
      BY <3>1, <3>2
  <2>3. \A q \in Procs, c \in Bufs : c # b => (c \in dirty'[q] <=> c \in dirty[q])
    BY <1>t, <1>6 DEF bpin, TypeOK
  <2>4. ASSUME NEW c \in Bufs PROVE C(c)'
    BY <1>t, <2>1, <2>2, <2>3
  <2> QED
    BY <2>4 DEF Clean
<1>7. ASSUME NEW b \in Bufs, bunpin(p, b) PROVE Clean'
  <2>1. /\ blockno' = blockno /\ valid' = valid /\ data' = data /\ disk' = disk /\ dirty' = dirty
        /\ data[b] = disk[blockno[b]]
    BY <1>7 DEF bunpin
  <2>2. \A c \in Bufs : c # b => pins'[c] = pins[c]
    BY <1>t, <1>7 DEF bunpin, TypeOK
  <2>3. ASSUME NEW c \in Bufs PROVE C(c)'
    BY <1>t, <2>1, <2>2
  <2> QED
    BY <2>3 DEF Clean
<1>8. ASSUME NEW b \in Bufs, releasesleep(p, b) PROVE Clean'
  BY <1>0, <1>8 DEF releasesleep
<1>9. ASSUME NEW b \in Bufs, NEW v \in Vals, change(p, b, v) PROVE Clean'
  <2>1. blockno' = blockno /\ valid' = valid /\ pins' = pins /\ disk' = disk
    BY <1>9 DEF change
  <2>2. b \in dirty'[p] /\ \A c \in Bufs : c # b => data'[c] = data[c]
    BY <1>t, <1>9 DEF change, TypeOK
  <2>3. \A q \in Procs, c \in Bufs : c # b => (c \in dirty'[q] <=> c \in dirty[q])
    BY <1>t, <1>9 DEF change, TypeOK
  <2>4. ASSUME NEW c \in Bufs PROVE C(c)'
    BY <1>t, <2>1, <2>2, <2>3
  <2> QED
    BY <2>4 DEF Clean
<1> QED
  BY <1>1, <1>2, <1>3, <1>4, <1>5, <1>6, <1>7, <1>8, <1>9 DEF Step, Kernel

\* A step keeps every buffer on the list.
LEMMA ListedStep ==
    ASSUME BioInv, NEW p \in Procs, Step(p)
    PROVE  Listed'
<1>t. TypeOK /\ Places /\ Listed
  BY DEF BioInv
<1>1. CASE brelse(p)
  <2>1. cur[p] \in Bufs
    BY <1>t, <1>1, CurIs DEF brelse
  <2>2. lru' = AtHead(cur[p]) \/ lru' = lru
    BY <1>1 DEF brelse
  <2> QED
    <3>1. CASE lru' = lru
      BY <1>t, <3>1 DEF Listed
    <3>2. CASE lru' = AtHead(cur[p])
      BY <1>t, <2>1, <3>2, AtHeadIs DEF Listed
    <3> QED
      BY <2>2, <3>1, <3>2
<1>2. CASE lru' = lru
  BY <1>t, <1>2 DEF Listed
<1>3. lru' = lru \/ brelse(p)
  BY DEF Step, Kernel, acquiresleep, fill, bget_hit, bget_miss, bget_panic, Takes, bufs, bwrite, bpin, bunpin, releasesleep, change
<1> QED
  BY <1>1, <1>2, <1>3

\* Process p joins or leaves the users of a buffer, the others stay.
LEMMA UsersStep ==
    ASSUME BioInv, NEW p \in Procs, Step(p), NEW c \in Bufs
    PROVE  Users(c)' = IF cur'[p] = c \/ c \in held'[p] THEN Users(c) \union {p} ELSE Users(c) \ {p}
<1>1. \A q \in Procs : q # p => cur'[q] = cur[q] /\ held'[q] = held[q]
  BY Others
<1>2. Users(c)' = {q \in Procs : cur'[q] = c \/ c \in held'[q]}
  BY DEF Users
<1> QED
  BY <1>1, <1>2 DEF Users

-----------------------------------------------------------------------------
(* Every step of the cache maps to a step of BlockStore.                   *)

\* No block has two buffers, in the array bn.
Single(bn) == \A b, c \in Bufs : bn[b] = bn[c] /\ bn[b] # NULL => b = c

\* The contents of a block are those of its buffer, if that has been read, and else
\* those of the disk.
LEMMA ViewIs ==
    ASSUME NEW bn, NEW va, NEW da, NEW di, Single(bn), NEW k \in Blocks
    PROVE  /\ \A b \in Bufs : bn[b] = k /\ va[b] => View(bn, va, da, di)[k] = da[b]
           /\ (\A b \in Bufs : ~(bn[b] = k /\ va[b])) => View(bn, va, da, di)[k] = di[k]
<1>n. k # NULL
  BY BioAssumption
<1>1. ASSUME NEW b \in Bufs, bn[b] = k, va[b] PROVE View(bn, va, da, di)[k] = da[b]
  <2>1. (CHOOSE c \in Bufs : bn[c] = k /\ va[c]) = b
    <3>1. \E c \in Bufs : bn[c] = k /\ va[c]
      BY <1>1
    <3> DEFINE d == CHOOSE c \in Bufs : bn[c] = k /\ va[c]
    <3>2. d \in Bufs /\ bn[d] = k
      BY <3>1
    <3> HIDE DEF d
    <3>3. d = b
      BY <1>n, <1>1, <3>2 DEF Single
    <3> QED
      BY <3>3 DEF d
  <2>2. View(bn, va, da, di)[k] = da[CHOOSE c \in Bufs : bn[c] = k /\ va[c]]
    BY <1>1 DEF View
  <2> QED
    BY <2>1, <2>2
<1>2. ASSUME \A b \in Bufs : ~(bn[b] = k /\ va[b]) PROVE View(bn, va, da, di)[k] = di[k]
  BY <1>2 DEF View
<1> QED
  BY <1>1, <1>2

\* The holder of a block is who has locked its buffer.
LEMMA HolderIs ==
    ASSUME NEW bn, NEW ow, Single(bn), NEW k \in Blocks
    PROVE  /\ \A b \in Bufs : bn[b] = k => Holder(bn, ow)[k] = ow[b]
           /\ (\A b \in Bufs : bn[b] # k) => Holder(bn, ow)[k] = NULL
<1>n. k # NULL
  BY BioAssumption
<1>1. ASSUME NEW b \in Bufs, bn[b] = k, ow[b] # NULL PROVE Holder(bn, ow)[k] = ow[b]
  <2>1. (CHOOSE c \in Bufs : bn[c] = k /\ ow[c] # NULL) = b
    <3>1. \E c \in Bufs : bn[c] = k /\ ow[c] # NULL
      BY <1>1
    <3> DEFINE d == CHOOSE c \in Bufs : bn[c] = k /\ ow[c] # NULL
    <3>2. d \in Bufs /\ bn[d] = k
      BY <3>1
    <3> HIDE DEF d
    <3>3. d = b
      BY <1>n, <1>1, <3>2 DEF Single
    <3> QED
      BY <3>3 DEF d
  <2>2. Holder(bn, ow)[k] = ow[CHOOSE c \in Bufs : bn[c] = k /\ ow[c] # NULL]
    BY <1>1 DEF Holder
  <2> QED
    BY <2>1, <2>2
<1>2. ASSUME NEW b \in Bufs, bn[b] = k, ow[b] = NULL PROVE Holder(bn, ow)[k] = NULL
  <2>1. \A c \in Bufs : bn[c] = k => c = b
    BY <1>n, <1>2 DEF Single
  <2> QED
    BY <1>2, <2>1 DEF Holder
<1>3. ASSUME \A b \in Bufs : bn[b] # k PROVE Holder(bn, ow)[k] = NULL
  BY <1>3 DEF Holder
<1> QED
  BY <1>1, <1>2, <1>3

\* A block whose buffer, or without one whose place on disk, stays as it is.
LEMMA ViewSame ==
    ASSUME NEW bn, NEW va, NEW da, NEW di, NEW bn2, NEW va2, NEW da2, NEW di2, NEW k \in Blocks,
           Single(bn), Single(bn2),
           \A b \in Bufs : bn[b] = k /\ va[b] <=> bn2[b] = k /\ va2[b],
           \A b \in Bufs : bn[b] = k /\ va[b] => da2[b] = da[b],
           (\A b \in Bufs : ~(bn[b] = k /\ va[b])) => di2[k] = di[k]
    PROVE  View(bn2, va2, da2, di2)[k] = View(bn, va, da, di)[k]
<1>1. CASE \E b \in Bufs : bn[b] = k /\ va[b]
  <2>1. PICK b \in Bufs : bn[b] = k /\ va[b]
    BY <1>1
  <2>2. bn2[b] = k /\ va2[b] /\ da2[b] = da[b]
    BY <2>1
  <2>3. View(bn, va, da, di)[k] = da[b]
    BY <2>1, ViewIs, SMT
  <2>4. View(bn2, va2, da2, di2)[k] = da2[b]
    BY <2>2, ViewIs, SMT
  <2> QED
    BY <2>2, <2>3, <2>4
<1>2. CASE \A b \in Bufs : ~(bn[b] = k /\ va[b])
  <2>1. View(bn, va, da, di)[k] = di[k]
    BY <1>2, ViewIs, SMT
  <2>2. \A b \in Bufs : ~(bn2[b] = k /\ va2[b])
    BY <1>2
  <2>3. View(bn2, va2, da2, di2)[k] = di2[k]
    BY <2>2, ViewIs, SMT
  <2> QED
    BY <1>2, <2>1, <2>3
<1> QED
  BY <1>1, <1>2

\* Views that agree on every block are the same.
LEMMA ViewEqual ==
    ASSUME NEW bn, NEW va, NEW da, NEW di, NEW bn2, NEW va2, NEW da2, NEW di2,
           \A k \in Blocks : View(bn2, va2, da2, di2)[k] = View(bn, va, da, di)[k]
    PROVE  View(bn2, va2, da2, di2) = View(bn, va, da, di)
<1>1. View(bn, va, da, di) = [k \in Blocks |-> View(bn, va, da, di)[k]]
  BY DEF View
<1>2. View(bn2, va2, da2, di2) = [k \in Blocks |-> View(bn2, va2, da2, di2)[k]]
  BY DEF View
<1> QED
  BY <1>1, <1>2

\* A change of one buffer leaves the other blocks.
LEMMA ViewOthers ==
    ASSUME NEW bn, NEW va, NEW da, NEW di, NEW d2, Single(bn), NEW b \in Bufs,
           \A c \in Bufs : c # b => d2[c] = da[c]
    PROVE  \A k \in Blocks : k # bn[b] => View(bn, va, d2, di)[k] = View(bn, va, da, di)[k]
<1> DEFINE V == View(bn, va, da, di)
           W == View(bn, va, d2, di)
<1>2. ASSUME NEW k \in Blocks, k # bn[b] PROVE W[k] = V[k]
  <2>1. CASE \E c \in Bufs : bn[c] = k /\ va[c]
    <3>1. PICK c \in Bufs : bn[c] = k /\ va[c]
      BY <2>1
    <3>2. W[k] = d2[c] /\ V[k] = da[c]
      BY <3>1, ViewIs, SMT
    <3> QED
      BY <1>2, <3>1, <3>2
  <2>2. CASE \A c \in Bufs : ~(bn[c] = k /\ va[c])
    BY <2>2, ViewIs, SMT
  <2> QED
    BY <2>1, <2>2
<1> QED
  BY <1>2

\* A change of one lock leaves the holders of the other blocks.
LEMMA HolderOthers ==
    ASSUME NEW bn, NEW ow, NEW o2, Single(bn), NEW b \in Bufs,
           \A c \in Bufs : c # b => o2[c] = ow[c]
    PROVE  \A k \in Blocks : k # bn[b] => Holder(bn, o2)[k] = Holder(bn, ow)[k]
<1> DEFINE V == Holder(bn, ow)
           W == Holder(bn, o2)
<1>2. ASSUME NEW k \in Blocks, k # bn[b] PROVE W[k] = V[k]
  <2>1. CASE \E c \in Bufs : bn[c] = k
    <3>1. PICK c \in Bufs : bn[c] = k
      BY <2>1
    <3>2. W[k] = o2[c] /\ V[k] = ow[c]
      BY <3>1, HolderIs, SMT
    <3> QED
      BY <1>2, <3>1, <3>2
  <2>2. CASE \A c \in Bufs : bn[c] # k
    BY <2>2, HolderIs, SMT
  <2> QED
    BY <2>1, <2>2
<1> QED
  BY <1>2

\* bget() recycles a buffer without a change of any block or holder: what it held is on
\* disk, and nobody had it.
LEMMA MissHidden ==
    ASSUME BioInv, BioInv', Covers, NEW p \in Procs, NEW k0 \in Blocks, bget_miss(p, k0)
    PROVE  /\ View(blockno', valid', data', disk') = View(blockno, valid, data, disk)
           /\ Holder(blockno', owner') = Holder(blockno, owner)
<1>t. TypeOK /\ Single(blockno) /\ Single(blockno') /\ Clean
  BY DEF BioInv, OneBufferPerBlock, Single
<1>o. PICK o \in Bufs : /\ pins[o] = 0 /\ owner[o] = NULL /\ Takes(p, o)
                        /\ \A q \in Procs : o \notin dirty[q]
                        /\ \A b \in Bufs : blockno'[b] = IF b = o THEN k0 ELSE blockno[b]
                        /\ \A b \in Bufs : valid'[b] <=> b # o /\ valid[b]
  BY MissIs, SMT
<1>1. data' = data /\ disk' = disk /\ owner' = owner
  BY <1>o DEF Takes
<1>2. \A b \in Bufs : b # o => blockno'[b] = blockno[b] /\ (valid'[b] <=> valid[b])
  BY <1>o
<1>3. ~valid'[o]
  BY <1>o
<1>4. ASSUME NEW k \in Blocks
      PROVE  View(blockno', valid', data', disk')[k] = View(blockno, valid, data, disk)[k]
  <2>1. CASE blockno[o] = k /\ valid[o]
    <3>1. View(blockno, valid, data, disk)[k] = data[o]
      BY <1>t, <1>o, <2>1, ViewIs, SMT
    <3>2. data[o] = disk[k]
      BY <1>t, <1>o, <2>1 DEF Clean
    <3>3. \A b \in Bufs : ~(blockno'[b] = k /\ valid'[b])
      <4>1. k # NULL
        BY BioAssumption
      <4>2. \A b \in Bufs : b # o => blockno[b] # k
        BY <1>t, <1>o, <2>1, <4>1 DEF Single
      <4> QED
        BY <1>2, <1>3, <4>2
    <3>4. View(blockno', valid', data', disk')[k] = disk'[k]
      BY <1>t, <3>3, ViewIs, SMT
    <3> QED
      BY <1>1, <3>1, <3>2, <3>4
  <2>2. CASE ~(blockno[o] = k /\ valid[o])
    <3>1. \A b \in Bufs : blockno[b] = k /\ valid[b] <=> blockno'[b] = k /\ valid'[b]
      BY <1>2, <1>3, <2>2
    <3>2. ASSUME NEW b \in Bufs, blockno[b] = k, valid[b]
          PROVE  View(blockno', valid', data', disk')[k] = View(blockno, valid, data, disk)[k]
      <4>1. View(blockno, valid, data, disk)[k] = data[b]
        BY <1>t, <3>2, ViewIs, SMT
      <4>2. View(blockno', valid', data', disk')[k] = data'[b]
        BY <1>t, <3>1, <3>2, ViewIs, SMT
      <4> QED
        BY <1>1, <4>1, <4>2
    <3>3. ASSUME \A b \in Bufs : ~(blockno[b] = k /\ valid[b])
          PROVE  View(blockno', valid', data', disk')[k] = View(blockno, valid, data, disk)[k]
      <4>1. View(blockno, valid, data, disk)[k] = disk[k]
        BY <1>t, <3>3, ViewIs, SMT
      <4>2. View(blockno', valid', data', disk')[k] = disk'[k]
        BY <1>t, <3>1, <3>3, ViewIs, SMT
      <4> QED
        BY <1>1, <4>1, <4>2
    <3> QED
      BY <3>2, <3>3
  <2> QED
    BY <2>1, <2>2
<1>5. ASSUME NEW k \in Blocks PROVE Holder(blockno', owner')[k] = Holder(blockno, owner)[k]
  <2>1. CASE \E b \in Bufs : b # o /\ blockno[b] = k
    <3>1. PICK b \in Bufs : b # o /\ blockno[b] = k
      BY <2>1
    <3>2. Holder(blockno, owner)[k] = owner[b]
      BY <1>t, <3>1, HolderIs, SMT
    <3>3. Holder(blockno', owner')[k] = owner'[b]
      BY <1>t, <1>2, <3>1, HolderIs, SMT
    <3> QED
      BY <1>1, <3>2, <3>3
  <2>2. CASE \A b \in Bufs : b # o => blockno[b] # k
    <3>1. Holder(blockno, owner)[k] = NULL
      BY <1>t, <1>o, <2>2, HolderIs, SMT
    <3>2. \A b \in Bufs : b # o => blockno'[b] # k
      BY <1>2, <2>2
    <3>o. owner'[o] = NULL
      BY <1>o, <1>1
    <3>3. Holder(blockno', owner')[k] = NULL
      <4>1. CASE blockno'[o] = k
        BY <1>t, <1>o, <3>o, <4>1, HolderIs, SMT
      <4>2. CASE blockno'[o] # k
        <5>1. \A b \in Bufs : blockno'[b] # k
          BY <3>2, <4>2
        <5> QED
          BY <1>t, <5>1, HolderIs, SMT
      <4> QED
        BY <4>1, <4>2
    <3> QED
      BY <3>1, <3>3
  <2> QED
    BY <2>1, <2>2
<1>6. Holder(blockno, owner) = [k \in Blocks |-> Holder(blockno, owner)[k]]
  BY DEF Holder
<1>7. Holder(blockno', owner') = [k \in Blocks |-> Holder(blockno', owner')[k]]
  BY DEF Holder
<1>8. Holder(blockno', owner') = Holder(blockno, owner)
  BY <1>5, <1>6, <1>7
<1> QED
  BY <1>4, <1>8, ViewEqual, SMT

\* bread() reads a block without a change of any.
LEMMA FillHidden ==
    ASSUME BioInv, NEW p \in Procs, fill(p)
    PROVE  View(blockno', valid', data', disk') = View(blockno, valid, data, disk)
<1> DEFINE b == cur[p]
<1>t. TypeOK /\ Single(blockno) /\ Single(blockno')
  BY DEF BioInv, OneBufferPerBlock, Single, fill
<1>b. b \in Bufs
  BY CurIs DEF BioInv, fill
<1>1. /\ data' = IF valid[b] THEN data ELSE [data EXCEPT ![b] = disk[blockno[b]]]
      /\ valid' = [valid EXCEPT ![b] = TRUE] /\ blockno' = blockno /\ disk' = disk
  BY DEF fill
<1> HIDE DEF b
<1>2. \A c \in Bufs : c # b => data'[c] = data[c] /\ (valid'[c] <=> valid[c])
  BY <1>t, <1>1 DEF TypeOK
<1>3. valid'[b] /\ (valid[b] => data'[b] = data[b]) /\ (~valid[b] => data'[b] = disk[blockno[b]])
  BY <1>t, <1>b, <1>1 DEF TypeOK
<1>4. ASSUME NEW k \in Blocks
      PROVE  View(blockno', valid', data', disk')[k] = View(blockno, valid, data, disk)[k]
  <2>1. CASE blockno[b] = k /\ ~valid[b]
    <3>1. k # NULL
      BY BioAssumption
    <3>2. \A c \in Bufs : ~(blockno[c] = k /\ valid[c])
      BY <1>t, <1>b, <2>1, <3>1 DEF Single
    <3>3. View(blockno, valid, data, disk)[k] = disk[k]
      BY <1>t, <3>2, ViewIs, SMT
    <3>4. View(blockno', valid', data', disk')[k] = data'[b]
      <4>1. blockno'[b] = k
        BY <1>1, <2>1
      <4> QED
        BY <1>t, <1>b, <1>3, <4>1, ViewIs, SMT
    <3> QED
      BY <1>3, <2>1, <3>3, <3>4
  <2>2. CASE ~(blockno[b] = k /\ ~valid[b])
    <3>1. \A c \in Bufs : blockno[c] = k /\ valid[c] <=> blockno'[c] = k /\ valid'[c]
      BY <1>1, <1>2, <1>3, <2>2
    <3>2. \A c \in Bufs : blockno[c] = k /\ valid[c] => data'[c] = data[c]
      BY <1>2, <1>3
    <3>3. disk'[k] = disk[k]
      BY <1>1
    <3> QED
      BY <1>t, <3>1, <3>2, <3>3, ViewSame, SMT
  <2> QED
    BY <2>1, <2>2
<1> QED
  BY <1>4, ViewEqual, SMT

\* bwrite() writes what the buffer has, without a change of any block.
LEMMA WriteHidden ==
    ASSUME BioInv, NEW p \in Procs, NEW b \in Bufs, bwrite(p, b)
    PROVE  View(blockno', valid', data', disk') = View(blockno, valid, data, disk)
<1>t. TypeOK /\ Single(blockno) /\ Single(blockno')
  BY DEF BioInv, OneBufferPerBlock, Single, bwrite
<1>1. valid[b] /\ blockno[b] # NULL
  BY DEF BioInv, Cached, bwrite, Holds
<1>2. /\ blockno' = blockno /\ valid' = valid /\ data' = data
      /\ disk' = disk \/ disk' = [disk EXCEPT ![blockno[b]] = data[b]]
  BY DEF bwrite
<1>3. ASSUME NEW k \in Blocks
      PROVE  View(blockno', valid', data', disk')[k] = View(blockno, valid, data, disk)[k]
  <2>1. k # blockno[b] => disk'[k] = disk[k]
    BY <1>t, <1>2 DEF TypeOK
  <2>2. (\A c \in Bufs : ~(blockno[c] = k /\ valid[c])) => disk'[k] = disk[k]
    BY <1>1, <2>1
  <2>3. \A c \in Bufs : (blockno[c] = k /\ valid[c] <=> blockno'[c] = k /\ valid'[c]) /\ data'[c] = data[c]
    BY <1>2
  <2>4. Single(blockno) /\ Single(blockno')
    BY <1>t
  <2> QED
    BY <2>2, <2>3, <2>4, ViewSame, SMT
<1> QED
  BY <1>3, ViewEqual, SMT

\* Every step of the cache is a step of BlockStore, or changes nothing there.
LEMMA StoreStep ==
    ASSUME BioInv, BioInv', Covers, NEW p \in Procs, Step(p)
    PROVE  [Store!SNext]_Store!svars
<1> DEFINE V == View(blockno, valid, data, disk)
           H == Holder(blockno, owner)
<1>f. V = [k \in Blocks |-> V[k]] /\ H = [k \in Blocks |-> H[k]]
  BY DEF View, Holder
<1>v. View(blockno, valid, data', disk) = [k \in Blocks |-> View(blockno, valid, data', disk)[k]]
  BY DEF View
<1>h. Holder(blockno, owner') = [k \in Blocks |-> Holder(blockno, owner')[k]]
  BY DEF Holder
<1>t. TypeOK /\ Places /\ Locked /\ Cached /\ Single(blockno)
  BY DEF BioInv, OneBufferPerBlock, Single
<1>s. Single(blockno)
  BY <1>t
<1>0. ASSUME View(blockno', valid', data', disk') = V, Holder(blockno', owner') = H PROVE [Store!SNext]_Store!svars
  BY <1>0 DEF Store!svars
<1>1. CASE acquiresleep(p)
  <2>b. cur[p] \in Bufs /\ blockno[cur[p]] \in Blocks
    BY <1>t, <1>1, CurIs, ZenonT(30) DEF acquiresleep, Cached, TypeOK
  <2>1. CASE owner[cur[p]] # NULL
    BY <1>0, <1>1, <2>1 DEF acquiresleep
  <2>2. CASE owner[cur[p]] = NULL
    <3>1. owner' = [owner EXCEPT ![cur[p]] = p] /\ blockno' = blockno /\ valid' = valid /\ data' = data /\ disk' = disk
      BY <1>1, <2>2 DEF acquiresleep
    <3>2. owner \in [Bufs -> Procs \union {NULL}]
      BY <1>t DEF TypeOK
    <3>3. Holder(blockno', owner') = [H EXCEPT ![blockno[cur[p]]] = p]
      <4>0. owner'[cur[p]] = p /\ \A c \in Bufs : c # cur[p] => owner'[c] = owner[c]
        BY <2>b, <3>1, <3>2
      <4> DEFINE W == Holder(blockno, owner')
      <4>a. W[blockno[cur[p]]] = p
        BY <1>s, <2>b, <4>0, HolderIs, SMT
      <4>w. \A k \in Blocks : k # blockno[cur[p]] => W[k] = H[k]
        BY <1>s, <2>b, <4>0, HolderOthers, SMT
      <4> HIDE DEF H, W
      <4>1. W = [H EXCEPT ![blockno[cur[p]]] = p]
        BY <1>f, <1>h, <2>b, <4>a, <4>w DEF W
      <4> QED
        BY <3>1, <4>1 DEF W
    <3>4. H[blockno[cur[p]]] = NULL
      BY <1>t, <2>b, <2>2, HolderIs, SMT
    <3>5. Store!Get(p, blockno[cur[p]])
      BY <3>1, <3>3, <3>4 DEF Store!Get
    <3> QED
      BY <2>b, <3>5 DEF Store!SNext
  <2> QED
    BY <2>1, <2>2
<1>2. CASE fill(p)
  BY <1>0, <1>2, FillHidden DEF fill
<1>3. CASE brelse(p)
  BY <1>0, <1>3 DEF brelse
<1>4. ASSUME NEW k \in Blocks, bget_hit(p, k) \/ bget_panic(p, k) PROVE [Store!SNext]_Store!svars
  BY <1>0, <1>4 DEF bget_hit, bget_panic, Takes, bufs
<1>5. ASSUME NEW k \in Blocks, bget_miss(p, k) PROVE [Store!SNext]_Store!svars
  BY <1>0, <1>5, MissHidden
<1>6. ASSUME NEW b \in Bufs, bwrite(p, b) PROVE [Store!SNext]_Store!svars
  BY <1>0, <1>6, WriteHidden DEF bwrite
<1>7. ASSUME NEW b \in Bufs, bpin(p, b) \/ bunpin(p, b) PROVE [Store!SNext]_Store!svars
  BY <1>0, <1>7 DEF bpin, bunpin
<1>8. ASSUME NEW b \in Bufs, releasesleep(p, b) PROVE [Store!SNext]_Store!svars
  <2>b. blockno[b] \in Blocks /\ owner[b] = p
    BY <1>t, <1>8, SMT DEF releasesleep, Holds, Cached, TypeOK, Locked
  <2>1. owner' = [owner EXCEPT ![b] = NULL] /\ blockno' = blockno /\ valid' = valid /\ data' = data /\ disk' = disk
    BY <1>8 DEF releasesleep
  <2>2. owner \in [Bufs -> Procs \union {NULL}]
    BY <1>t DEF TypeOK
  <2>3. Holder(blockno', owner') = [H EXCEPT ![blockno[b]] = NULL]
    <3>0. owner'[b] = NULL /\ \A c \in Bufs : c # b => owner'[c] = owner[c]
      BY <2>1, <2>2
    <3> DEFINE W == Holder(blockno, owner')
    <3>a. W[blockno[b]] = NULL
      BY <1>s, <2>b, <3>0, HolderIs, SMT
    <3>w. \A k \in Blocks : k # blockno[b] => W[k] = H[k]
      BY <1>s, <2>b, <3>0, HolderOthers, SMT
    <3> HIDE DEF H, W
    <3>1. W = [H EXCEPT ![blockno[b]] = NULL]
      BY <1>f, <1>h, <2>b, <3>a, <3>w DEF W
    <3> QED
      BY <2>1, <3>1 DEF W
  <2>4. H[blockno[b]] = p
    BY <1>s, <2>b, HolderIs, SMT
  <2>5. Store!Put(p, blockno[b])
    BY <2>1, <2>3, <2>4 DEF Store!Put
  <2> QED
    BY <2>b, <2>5 DEF Store!SNext
<1>9. ASSUME NEW b \in Bufs, NEW v \in Vals, change(p, b, v) PROVE [Store!SNext]_Store!svars
  <2>b. blockno[b] \in Blocks /\ owner[b] = p /\ valid[b]
    BY <1>t, <1>9, SMT DEF change, Holds, Cached, TypeOK, Locked
  <2>1. data' = [data EXCEPT ![b] = v] /\ owner' = owner /\ blockno' = blockno /\ valid' = valid /\ disk' = disk
    BY <1>9 DEF change
  <2>2. data \in [Bufs -> Vals]
    BY <1>t DEF TypeOK
  <2>3. View(blockno', valid', data', disk') = [V EXCEPT ![blockno[b]] = v]
    <3>0. data'[b] = v /\ \A c \in Bufs : c # b => data'[c] = data[c]
      BY <2>1, <2>2
    <3> DEFINE W == View(blockno, valid, data', disk)
    <3>a. W[blockno[b]] = v
      BY <1>s, <2>b, <3>0, ViewIs, SMT
    <3>w. \A k \in Blocks : k # blockno[b] => W[k] = V[k]
      BY <1>s, <2>b, <3>0, ViewOthers, SMT
    <3> HIDE DEF V, W
    <3>1. W = [V EXCEPT ![blockno[b]] = v]
      BY <1>f, <1>v, <2>b, <3>a, <3>w DEF W
    <3> QED
      BY <2>1, <3>1 DEF W
  <2>4. H[blockno[b]] = p
    BY <1>s, <2>b, HolderIs, SMT
  <2>5. Store!Update(p, blockno[b], v)
    BY <2>1, <2>3, <2>4 DEF Store!Update
  <2> QED
    BY <2>b, <2>5 DEF Store!SNext
<1> QED
  BY <1>1, <1>2, <1>3, <1>4, <1>5, <1>6, <1>7, <1>8, <1>9 DEF Step, Kernel

-----------------------------------------------------------------------------
(* The reference counts.                                                   *)

\* b->refcnt counts the users and the pins.
LEMMA Counted ==
    ASSUME BioInv, NEW b \in Bufs
    PROVE  /\ IsFiniteSet(Users(b)) /\ Cardinality(Users(b)) \in Nat /\ pins[b] \in Nat
           /\ refcnt[b] = pins[b] + Cardinality(Users(b))
           /\ Users(b) # {} => Cardinality(Users(b)) # 0
<1>1. IsFiniteSet(Users(b))
  <2>1. Users(b) \in SUBSET Procs
    BY DEF Users
  <2> QED
    BY <2>1, BioAssumption, FS_Subset
<1>2. Cardinality(Users(b)) \in Nat /\ (Users(b) # {} => Cardinality(Users(b)) # 0)
  BY <1>1, FS_CardinalityType, FS_EmptySet
<1>3. refcnt[b] = pins[b] + Cardinality(Users(b)) /\ pins[b] \in Nat
  BY DEF BioInv, RefcntExact, TypeOK
<1> QED
  BY <1>1, <1>2, <1>3

\* A buffer has at least as many references as pins, and more while somebody has it.
LEMMA CoversAll == BioInv => Covers
<1> SUFFICES ASSUME BioInv, NEW b \in Bufs
             PROVE  refcnt[b] >= pins[b] /\ (Users(b) # {} => refcnt[b] > pins[b])
  BY DEF Covers
<1> QED
  BY Counted, SMT

\* A step keeps the count of each buffer.
LEMMA CountStep ==
    ASSUME BioInv, Covers, NEW p \in Procs, Step(p)
    PROVE  RefcntExact'
<1>t. TypeOK /\ Places
  BY DEF BioInv
<1>n. NULL \notin Bufs
  BY BioAssumption
<1> DEFINE N(c) == Cardinality(Users(c))
<1>c. ASSUME NEW c \in Bufs
      PROVE IsFiniteSet(Users(c)) /\ N(c) \in Nat /\ refcnt[c] = pins[c] + N(c) /\ pins[c] \in Nat /\ refcnt[c] \in Nat
  BY <1>t, Counted DEF TypeOK
<1> SUFFICES ASSUME NEW c \in Bufs PROVE refcnt'[c] = pins'[c] + N(c)'
  BY DEF RefcntExact
<1>0. ASSUME refcnt'[c] = refcnt[c], pins'[c] = pins[c],
             (cur'[p] = c \/ c \in held'[p]) <=> (cur[p] = c \/ c \in held[p])
      PROVE  refcnt'[c] = pins'[c] + N(c)'
  <2>1. Users(c)' = Users(c)
    BY <1>0, UsersStep, SMT DEF Users
  <2> QED
    BY <1>0, <1>c, <2>1
<1>1. CASE acquiresleep(p)
  BY <1>0, <1>1 DEF acquiresleep
<1>2. CASE fill(p)
  <2>1. cur'[p] = NULL /\ held'[p] = held[p] \union {cur[p]} /\ refcnt' = refcnt /\ pins' = pins
    BY <1>t, <1>2 DEF fill, TypeOK
  <2> QED
    BY <1>0, <1>n, <2>1
<1>3. CASE brelse(p)
  <2>c. cur[p] \in Bufs
    BY <1>t, <1>3, CurIs DEF brelse
  <2>1. cur'[p] = NULL /\ held' = held /\ pins' = pins /\ refcnt' = [refcnt EXCEPT ![cur[p]] = @ - 1]
    BY <1>t, <1>3 DEF brelse, TypeOK
  <2>2. CASE c = cur[p]
    <3>1. c \notin held[p] /\ p \in Users(c)
      BY <1>t, <2>2 DEF Places, Users
    <3>2. Users(c)' = Users(c) \ {p}
      BY <1>n, <2>1, <3>1, UsersStep
    <3>3. N(c)' = N(c) - 1
      BY <1>c, <3>1, <3>2, FS_RemoveElement, ZenonT(30)
    <3>4. refcnt'[c] = refcnt[c] - 1
      BY <1>t, <2>1, <2>2 DEF TypeOK
    <3> QED
      BY <1>c, <2>1, <3>3, <3>4, SMT
  <2>3. CASE c # cur[p]
    <3>1. refcnt'[c] = refcnt[c]
      BY <1>t, <2>1, <2>3 DEF TypeOK
    <3> QED
      BY <1>0, <1>n, <2>1, <2>3, <3>1
  <2> QED
    BY <2>2, <2>3
<1>4. ASSUME NEW k \in Blocks, bget_hit(p, k) PROVE refcnt'[c] = pins'[c] + N(c)'
  <2>1. PICK b \in Bufs : b \notin held[p] /\ refcnt' = [refcnt EXCEPT ![b] = @ + 1] /\ Takes(p, b) /\ cur[p] = NULL
    BY <1>4, HitIs
  <2>2. cur'[p] = b /\ held' = held /\ pins' = pins
    BY <1>t, <2>1, ZenonT(30) DEF Takes, TypeOK
  <2>3. CASE c = b
    <3>1. p \notin Users(c) /\ Users(c)' = Users(c) \union {p}
      BY <1>n, <2>1, <2>2, <2>3, UsersStep DEF Users
    <3>2. N(c)' = N(c) + 1
      BY <1>c, <3>1, FS_AddElement
    <3>3. refcnt'[c] = refcnt[c] + 1
      BY <1>t, <2>1, <2>3 DEF TypeOK
    <3> QED
      BY <1>c, <2>2, <3>2, <3>3, SMT
  <2>4. CASE c # b
    <3>1. refcnt'[c] = refcnt[c]
      BY <1>t, <2>1, <2>4 DEF TypeOK
    <3> QED
      BY <1>0, <1>n, <2>1, <2>2, <2>4, <3>1
  <2> QED
    BY <2>3, <2>4
<1>5. ASSUME NEW k \in Blocks, bget_miss(p, k) PROVE refcnt'[c] = pins'[c] + N(c)'
  <2>1. PICK o \in Bufs : /\ pins[o] = 0 /\ Users(o) = {} /\ o \notin held[p] /\ cur[p] = NULL
                          /\ refcnt' = [refcnt EXCEPT ![o] = 1] /\ Takes(p, o)
    BY <1>5, MissIs
  <2>2. cur'[p] = o /\ held' = held /\ pins' = pins
    BY <1>t, <2>1 DEF Takes, TypeOK
  <2>3. CASE c = o
    <3>1. Users(c)' = {p}
      BY <2>1, <2>2, <2>3, UsersStep
    <3>2. N(c)' = 1
      BY <3>1, FS_Singleton
    <3>3. refcnt'[c] = 1
      BY <1>t, <2>1, <2>3, ZenonT(30) DEF TypeOK
    <3> QED
      BY <2>1, <2>2, <2>3, <3>2, <3>3, SMT
  <2>4. CASE c # o
    <3>1. refcnt'[c] = refcnt[c]
      BY <1>t, <2>1, <2>4 DEF TypeOK
    <3> QED
      BY <1>0, <1>n, <2>1, <2>2, <2>4, <3>1
  <2> QED
    BY <2>3, <2>4
<1>6. ASSUME NEW k \in Blocks, bget_panic(p, k) PROVE refcnt'[c] = pins'[c] + N(c)'
  BY <1>0, <1>6 DEF bget_panic, bufs
<1>7. ASSUME NEW b \in Bufs, bwrite(p, b) \/ \E v \in Vals : change(p, b, v) PROVE refcnt'[c] = pins'[c] + N(c)'
  BY <1>0, <1>7 DEF bwrite, change
<1>8. ASSUME NEW b \in Bufs, bpin(p, b) \/ bunpin(p, b) PROVE refcnt'[c] = pins'[c] + N(c)'
  <2>1. Users(c)' = Users(c)
    BY <1>8 DEF bpin, bunpin, Users
  <2>2. \/ refcnt' = [refcnt EXCEPT ![b] = @ + 1] /\ pins' = [pins EXCEPT ![b] = @ + 1]
        \/ refcnt' = [refcnt EXCEPT ![b] = @ - 1] /\ pins' = [pins EXCEPT ![b] = @ - 1]
        \/ refcnt' = refcnt /\ pins' = pins
    BY <1>8 DEF bpin, bunpin
  <2>3. \/ refcnt'[c] = refcnt[c] + 1 /\ pins'[c] = pins[c] + 1
        \/ refcnt'[c] = refcnt[c] - 1 /\ pins'[c] = pins[c] - 1
        \/ refcnt'[c] = refcnt[c] /\ pins'[c] = pins[c]
    BY <1>t, <2>2, SMT DEF TypeOK
  <2> QED
    BY <1>c, <2>1, <2>3, SMT
<1>9. ASSUME NEW b \in Bufs, releasesleep(p, b) PROVE refcnt'[c] = pins'[c] + N(c)'
  <2>1. /\ cur'[p] = b /\ held'[p] = held[p] \ {b} /\ refcnt' = refcnt /\ pins' = pins
        /\ b \in held[p] /\ cur[p] = NULL
    BY <1>t, <1>9 DEF releasesleep, Holds, TypeOK, Places
  <2> QED
    BY <1>0, <1>n, <2>1
<1> QED
  BY <1>1, <1>2, <1>3, <1>4, <1>5, <1>6, <1>7, <1>8, <1>9 DEF Step, Kernel

\* binit() leaves the cache in a state that satisfies the invariant.
LEMMA InitInv == Init => BioInv
<1> SUFFICES ASSUME Init PROVE BioInv
  OBVIOUS
<1>n. NBUF \in Nat \ {0} /\ NULL \notin Blocks /\ NULL \notin Procs /\ NULL \notin Bufs
  BY BioAssumption
<1>1. PICK v \in Vals : data = [b \in Bufs |-> v] /\ disk = [k \in Blocks |-> v]
  BY DEF Init
<1>2. lru \in [1 .. NBUF -> Bufs] /\ Listed
  <2>1. lru = [k \in 1 .. NBUF |-> NBUF + 1 - k]
    BY DEF Init
  <2>2. \A b \in Bufs : NBUF + 1 - b \in 1 .. NBUF /\ NBUF + 1 - (NBUF + 1 - b) = b
    BY <1>n, SMT DEF Bufs
  <2>3. lru \in [1 .. NBUF -> Bufs]
    BY <1>n, <2>1, <2>2 DEF Bufs
  <2>4. \A b \in Bufs : lru[NBUF + 1 - b] = b
    BY <2>1, <2>2
  <2> QED
    BY <2>2, <2>3, <2>4 DEF Listed
<1>3. TypeOK
  BY <1>1, <1>2 DEF Init, TypeOK
<1>4. Places /\ Locked /\ Cached /\ Clean /\ OneBufferPerBlock /\ NoLostWakeup
  BY <1>n, SMT DEF Init, Places, Locked, Cached, Clean, OneBufferPerBlock, NoLostWakeup
<1>5. RefcntExact
  <2>1. \A b \in Bufs : Users(b) = {}
    BY <1>n, SMT DEF Init, Users
  <2>2. Cardinality({}) = 0
    BY FS_EmptySet
  <2>3. ASSUME NEW b \in Bufs PROVE refcnt[b] = pins[b] + Cardinality(Users(b))
    <3>1. Cardinality(Users(b)) = 0 /\ refcnt[b] = 0 /\ pins[b] = 0
      BY <2>1, <2>2 DEF Init
    <3> QED
      BY <3>1, SMT
  <2> QED
    BY <2>3 DEF RefcntExact
<1> QED
  BY <1>2, <1>3, <1>4, <1>5 DEF BioInv

\* A step keeps the invariant.
LEMMA InvStep == BioInv /\ [Next]_vars => BioInv'
<1>1. ASSUME BioInv, NEW p \in Procs, Step(p) PROVE BioInv'
  BY <1>1, CoversAll, ListedStep, TypesStep, PlacesStep, LockedStep, CachedStep, CleanStep, OneStep, CountStep, WakeStep DEF BioInv
<1>2. ASSUME BioInv, UNCHANGED vars PROVE BioInv'
  BY <1>2, SMT DEF BioInv, vars, bufs, TypeOK, Places, Locked, Cached, Clean, Listed, OneBufferPerBlock, RefcntExact, Users, NoLostWakeup
<1> QED
  BY <1>1, <1>2, StepOrSame

-----------------------------------------------------------------------------
(* The theorems.                                                           *)

\* The invariant holds always.
THEOREM BioInvariant == Spec => []BioInv
BY InitInv, InvStep, PTL DEF Spec

\* b->refcnt is exactly the processes between bget() and the end of brelse() plus the
\* pins of the log: bget() never recycles a buffer in use.
THEOREM BioRefcntExact == Spec => []RefcntExact
<1>1. BioInv => RefcntExact
  BY DEF BioInv
<1> QED
  BY <1>1, BioInvariant, PTL

\* bget() caches no block twice, and nobody sleeps in acquiresleep() on a free lock.
THEOREM BioOneBuffer == Spec => [](OneBufferPerBlock /\ NoLostWakeup)
<1>1. BioInv => OneBufferPerBlock /\ NoLostWakeup
  BY DEF BioInv
<1> QED
  BY <1>1, BioInvariant, PTL

\* bwrite() and brelse() never panic, and bget() only with every buffer in use.
THEOREM BioPanicOnlyFull == Spec => []PanicOnlyFull
<1>1. Init => PanicOnlyFull
  BY DEF Init, PanicOnlyFull
<1>2. ASSUME BioInv, NEW p \in Procs, Step(p) PROVE PanicOnlyFull'
  <2>1. ASSUME NEW b \in Bufs, Holds(p, b) PROVE owner[b] = p
    BY <1>2, <2>1 DEF BioInv, Locked, Holds
  <2>2. ASSUME NEW b \in Bufs, bwrite(p, b) \/ releasesleep(p, b) PROVE ~panicked'
    BY <2>1, <2>2 DEF bwrite, releasesleep
  <2>3. ASSUME NEW k \in Blocks, bget_panic(p, k) PROVE \A b \in Bufs : refcnt'[b] > 0
    <3>1. \A b \in Bufs : refcnt[b] # 0 /\ refcnt[b] \in Nat
      BY <1>2, <2>3 DEF bget_panic, BioInv, Listed, TypeOK
    <3> QED
      BY <2>3, <3>1, SMT DEF bget_panic, bufs
  <2>4. ASSUME NEW k \in Blocks, bget_hit(p, k) \/ bget_miss(p, k) PROVE ~panicked'
    BY <2>4 DEF bget_hit, bget_miss, Wants, Takes
  <2>5. ASSUME NEW b \in Bufs, bpin(p, b) \/ bunpin(p, b) \/ \E v \in Vals : change(p, b, v) PROVE ~panicked'
    BY <2>5 DEF bpin, bunpin, change, Holds
  <2>6. ASSUME ~panicked, Kernel(p) PROVE ~panicked'
    BY <2>6 DEF Kernel, acquiresleep, fill, brelse
  <2> QED
    BY <1>2, <2>2, <2>3, <2>4, <2>5, <2>6 DEF Step, PanicOnlyFull
<1>3. PanicOnlyFull /\ UNCHANGED vars => PanicOnlyFull'
  BY DEF PanicOnlyFull, vars, bufs
<1>4. BioInv /\ PanicOnlyFull /\ [Next]_vars => PanicOnlyFull'
  BY <1>2, <1>3, StepOrSame
<1> QED
  BY <1>1, <1>4, BioInvariant, PTL DEF Spec

\* bread() gives one process at a time the block, with what its last holder left there,
\* through any evictions: the cache implements BlockStore.
THEOREM BioReadsLatest == Spec => ReadsLatest
<1>1. Init => Store!SInit
  <2> SUFFICES ASSUME Init PROVE Store!SInit
    OBVIOUS
  <2>1. PICK v \in Vals : disk = [k \in Blocks |-> v]
    BY DEF Init
  <2>2. View(blockno, valid, data, disk) = [k \in Blocks |-> disk[k]]
    BY DEF Init, View
  <2>3. Holder(blockno, owner) = [k \in Blocks |-> NULL]
    BY DEF Init, Holder
  <2> QED
    BY <2>1, <2>2, <2>3 DEF Store!SInit
<1>2. BioInv /\ BioInv' /\ [Next]_vars => [Store!SNext]_Store!svars
  <2>1. ASSUME UNCHANGED vars PROVE [Store!SNext]_Store!svars
    BY <2>1 DEF vars, bufs, Store!svars
  <2> QED
    BY <2>1, StoreStep, StepOrSame, CoversAll
<1> QED
  BY <1>1, <1>2, BioInvariant, PTL DEF Spec, ReadsLatest, Store!SSpec

=============================================================================
