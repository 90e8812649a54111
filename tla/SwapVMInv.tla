------------------------------ MODULE SwapVMInv -----------------------------
(***************************************************************************)
(* The inductive invariant of SwapVM and the steps of kalloc(), swapout(), *)
(* uvmalloc(), uvmcopy(), mappages(), swapin(), uvmunmap() and sbrk() that *)
(* keep it, for every number of processes, frames, slots and pages and     *)
(* every workload.  SwapVMProofs has the other steps and the theorems.     *)
(***************************************************************************)
EXTENDS SwapVM, TLAPS

\* Zenon proves most leaves; the others name their prover.
USE Zenon

-----------------------------------------------------------------------------
(* The inductive invariant.                                                *)

\* Labels inside kalloc(), inside swapout() with a victim chosen, and the
\* labels kalloc() returns to.
InKalloc == {"kalloc", "swapout", "scan", "slot", "putback", "write", "evict", "vfree", "vclear"}
Evicting == {"scan", "slot", "putback", "write", "evict", "vfree", "vclear"}
Callers  == {"allocproc", "uvmalloc", "copypage", "walk", "swapin"}

\* Where a thread is, or will be when its kalloc() returns.
Resume(t) == IF t.pc \in InKalloc THEN t.ret ELSE t.pc

\* Labels with a page in hand or about to be unmapped; labels that use th.va.
Holding == {"walk", "map", "link", "slotfree", "swapmap", "unlink", "ufree"}
Paging  == {"uvmalloc", "uvmcopy", "copypage", "walk", "map", "link", "swapin", "slotfree",
            "swapmap", "unlink", "ufree", "uclear", "copyout"}
Copying == {"uvmcopy", "copypage", "walk", "map", "link"}

\* Which call a thread can be in at each label.
OpAt(label) ==
    CASE label = "allocproc" -> {"fork"}
      [] label = "uvmalloc" -> {"grow"}
      [] label \in {"uvmcopy", "copypage"} -> {"fork"}
      [] label \in {"walk", "map"} -> {"grow", "fork"}
      [] label = "link" -> {"grow", "fork", "fault"}
      [] label \in {"swapin", "slotfree", "swapmap"} -> {"fault"}
      [] label \in {"unmap", "unlink", "ufree", "uclear"} -> {"grow", "shrink", "fork", "reap"}
      [] label = "freeproc" -> {"fork", "reap"}
      [] label \in {"copyout", "efault"} -> {"copy"}
      [] OTHER -> {"none"}

\* The locals of a thread are what its label needs.
ThreadOK(p, t) ==
    /\ t \in Threads
    /\ t.pc = "user" => t = Idle
    /\ t.pc \in InKalloc => t.ret \in Callers
    /\ t.pc \in Evicting => t.vic \in Frames
    /\ t.pc \in {"write", "evict"} => t.slot \in Slots
    /\ t.op \in OpAt(Resume(t))
    /\ t.op \in {"grow", "shrink", "fault"} => t.as = p
    /\ t.op \in {"fork", "reap"} => t.as \in Procs \ {p}
    /\ t.lim <= MaxPages
    /\ Resume(t) \in Paging => t.va \in Pages
    /\ Resume(t) \in Holding => t.mem \in Frames
    /\ Resume(t) \in Copying \union {"uvmalloc"} /\ t.op # "fault" => t.va < t.lim
    /\ Resume(t) = "copypage" => t.src.k # "none"
    /\ Resume(t) \in {"swapin", "slotfree"} => t.src.k = "swap"
    /\ Resume(t) = "copyout" => t.src.k = "mem"

LocalsOK == \A p \in Procs : ThreadOK(p, th[p])

\* The scan works on a list nobody else can touch.
ScanOK == \A p \in Procs : th[p].pc = "scan" => lru_lock = p /\ th[p].vic \in Range(lru)

\* Only live processes run in the kernel; a child being built or buried is
\* nobody else's, and has its trapframe when it needs one.
Reaped(c) == \E q \in Procs : th[q].op = "reap" /\ th[q].as = c
FamilyOK ==
    /\ \A p \in Procs : th[p].pc # "user" => state[p] = "live"
    /\ \A p \in Procs : state[p] = "live" => sz[p] > 0
    /\ \A p \in Procs : th[p].op = "shrink" => sz[p] > 1
    /\ \A p \in Procs : th[p].op = "fork" =>
          /\ state[th[p].as] = "used"
          /\ Resume(th[p]) \in Copying => kpg[th[p].as][0] \in Frames
    /\ \A p \in Procs : th[p].op = "reap" => state[th[p].as] = "zombie"
    /\ \A p, q \in Procs : /\ p # q
                           /\ th[p].op \in {"fork", "reap"} /\ th[q].op \in {"fork", "reap"}
                           => th[p].as # th[q].as
    /\ \A c \in Procs : state[c] \in {"live", "zombie"} /\ ~Reaped(c) => kpg[c][0] \in Frames

SwapInv == TypeOK /\ LocalsOK /\ ScanOK /\ FamilyOK

-----------------------------------------------------------------------------
(* What FamilyOK says, one fact at a time: how fork(), exit() and wait()   *)
(* of proc.c share the processes.                                          *)

\* Only live processes are in the kernel.
LEMMA InKernelLive ==
    ASSUME SwapInv
    PROVE  \A q \in Procs : th[q].pc # "user" => state[q] = "live"
  BY DEF SwapInv, FamilyOK

\* A live process has a page.
LEMMA LiveHasPages ==
    ASSUME SwapInv
    PROVE  \A q \in Procs : state[q] = "live" => sz[q] > 0
  BY DEF SwapInv, FamilyOK

\* A process that shrinks keeps a page.
LEMMA ShrinkHasPages ==
    ASSUME SwapInv
    PROVE  \A q \in Procs : th[q].op = "shrink" => sz[q] > 1
  BY DEF SwapInv, FamilyOK

\* fork() works on a child that allocproc() has given out.
LEMMA ForkOn ==
    ASSUME SwapInv
    PROVE  \A q \in Procs : th[q].op = "fork" =>
              /\ state[th[q].as] = "used"
              /\ Resume(th[q]) \in Copying => kpg[th[q].as][0] \in Frames
  BY DEF SwapInv, FamilyOK

\* wait() buries a zombie.
LEMMA ReapOn ==
    ASSUME SwapInv
    PROVE  \A q \in Procs : th[q].op = "reap" => state[th[q].as] = "zombie"
  BY DEF SwapInv, FamilyOK

\* No two calls work on the same child.
LEMMA OneFamily ==
    ASSUME SwapInv
    PROVE  \A q, r \in Procs : /\ q # r
                              /\ th[q].op \in {"fork", "reap"} /\ th[r].op \in {"fork", "reap"}
                              => th[q].as # th[r].as
  BY DEF SwapInv, FamilyOK

\* A live or zombie process that nobody is burying has its trapframe.
LEMMA HasTrapframe ==
    ASSUME SwapInv
    PROVE  \A c \in Procs : state[c] \in {"live", "zombie"} /\ ~Reaped(c) => kpg[c][0] \in Frames
  BY DEF SwapInv, FamilyOK

-----------------------------------------------------------------------------
(* Lemmas about the operators of SwapVM.                                   *)

\* What a page-table entry can be.
LEMMA PteType ==
    ASSUME NEW e \in PTEs
    PROVE  /\ e.k \in {"none", "mem", "swap"}
           /\ e.a \in BOOLEAN
           /\ e.k = "mem" => e.n \in Frames
           /\ e.k = "swap" => e.n \in Slots
<1>1. CASE e = Unmapped
  BY <1>1 DEF Unmapped
<1>2. ASSUME NEW f \in Frames, NEW b \in BOOLEAN, e = Present(f, b)
      PROVE  e.k = "mem" /\ e.a = b /\ e.n = f
  BY <1>2 DEF Present
<1>3. ASSUME NEW s \in Slots, e = Swapped(s)
      PROVE  e.k = "swap" /\ e.a = FALSE /\ e.n = s
  BY <1>3 DEF Swapped
<1>4. \/ e = Unmapped
      \/ \E f \in Frames, b \in BOOLEAN : e = Present(f, b)
      \/ \E s \in Slots : e = Swapped(s)
  BY SMT DEF PTEs
<1>5. CASE \E f \in Frames, b \in BOOLEAN : e = Present(f, b)
  <2>1. PICK f \in Frames, b \in BOOLEAN : e = Present(f, b)
    BY <1>5
  <2>2. e.k = "mem" /\ e.a = b /\ e.n = f
    BY <2>1, <1>2
  <2>3. e.a \in BOOLEAN
    BY <2>2
  <2> QED
    BY <2>2, <2>3
<1>6. CASE \E s \in Slots : e = Swapped(s)
  BY <1>6, <1>3
<1> QED
  BY <1>1, <1>4, <1>5, <1>6

\* PTE_A may be set or cleared in a valid entry.
LEMMA PteAccessed ==
    ASSUME NEW e \in PTEs, e.k = "mem", NEW a \in BOOLEAN
    PROVE  [e EXCEPT !.a = a] \in PTEs
<1>1. PICK f \in Frames, b \in BOOLEAN : e = Present(f, b)
  BY SMT DEF PTEs, Unmapped, Present, Swapped
<1>2. [e EXCEPT !.a = a] = Present(f, a)
  BY <1>1, SMT DEF Present
<1> QED
  BY <1>2, SMT DEF PTEs

\* What the three kinds of page-table entries are.
LEMMA PteKinds ==
    /\ Unmapped \in PTEs /\ Unmapped.k = "none" /\ Unmapped.a = FALSE
    /\ \A f \in Frames, a \in BOOLEAN : Present(f, a) \in PTEs
    /\ \A s \in Slots : Swapped(s) \in PTEs
<1>1. /\ Unmapped \in PTEs
      /\ \A f \in Frames, a \in BOOLEAN : Present(f, a) \in PTEs
      /\ \A s \in Slots : Swapped(s) \in PTEs
  BY SMT DEF PTEs
<1>2. Unmapped.k = "none" /\ Unmapped.a = FALSE
  BY DEF Unmapped
<1> QED
  BY <1>1, <1>2

\* Every page has a page-table page, which is not the trapframe's.
LEMMA LeafType ==
    ASSUME NEW va \in Pages
    PROVE  Leaf(va) \in KPages /\ Leaf(va) \in Nat /\ Leaf(va) # 0
<1>1. va \in Nat /\ LeafSpan \in Nat /\ LeafSpan > 0
  BY SwapAssumption, SMT DEF Pages
<1>2. va \div LeafSpan \in Nat
  BY <1>1, SMT
<1> QED
  BY <1>2, SMT DEF Leaf, KPages

\* The page-table pages are numbered from 0, the trapframe.
LEMMA KPagesNat == KPages \subseteq Nat /\ 0 \in KPages
BY LeafType, SMT DEF KPages

\* The list operations keep a list of frames; the scan's next candidate is on
\* the list.
LEMMA LruTypes ==
    ASSUME lru \in Seq(Frames), NEW f
    PROVE  /\ LruWithout(f) \in Seq(Frames)
           /\ f \in Range(lru) => /\ LruAfter(f) \in Range(lru) /\ LruAfter(f) \in Frames
                                  /\ LruRotated(f) \in Seq(Frames)
                                  /\ LruAfter(f) \in Range(LruRotated(f))
<1> DEFINE n == Len(lru)
<1>0. n \in Nat /\ DOMAIN lru = 1 .. n /\ \A i \in 1 .. n : lru[i] \in Frames
  BY SMT
<1>1. CASE f \notin Range(lru)
  BY <1>1 DEF LruWithout
<1>2. CASE f \in Range(lru)
  <2>1. \E i \in DOMAIN lru : lru[i] = f
    BY <1>2 DEF Range
  <2>2. Position(f) \in 1 .. n /\ lru[Position(f)] = f
    BY <1>0, <2>1 DEF Position
  <2> DEFINE k == Position(f)
  <2> HIDE DEF k, n
  <2>3. n \in Nat /\ n > 0 /\ k \in Nat
    BY <1>0, <2>2, SMT DEF k
  <2>4. \A j \in Nat : (j % n) + 1 \in 1 .. n
    BY <2>3, SMT
  <2>5. LruWithout(f) \in Seq(Frames)
    <3>1. LruWithout(f) = [i \in 1 .. n - 1 |-> IF i < k THEN lru[i] ELSE lru[i + 1]]
      BY <1>2 DEF LruWithout, k, n
    <3>2. \A i \in 1 .. n - 1 : (IF i < k THEN lru[i] ELSE lru[i + 1]) \in Frames
      BY <1>0, <2>3, SMT DEF n
    <3>3. n - 1 \in Nat
      BY <2>3, SMT
    <3> HIDE DEF k, n
    <3> QED
      BY <3>1, <3>2, <3>3, SMT
  <2>6. LruAfter(f) \in Range(lru) /\ LruAfter(f) \in Frames
    <3>1. (k % n) + 1 \in 1 .. n
      BY <2>3, <2>4
    <3>2. LruAfter(f) = lru[(k % n) + 1]
      BY DEF LruAfter, k, n
    <3> QED
      BY <3>1, <3>2, <1>0 DEF Range, n
  <2>7. LruRotated(f) = [i \in 1 .. n |-> lru[((i - 1 + k) % n) + 1]]
    BY DEF LruRotated, k, n
  <2>8. \A i \in 1 .. n : lru[((i - 1 + k) % n) + 1] \in Frames
    <3> SUFFICES ASSUME NEW i \in 1 .. n PROVE lru[((i - 1 + k) % n) + 1] \in Frames
      OBVIOUS
    <3>1. i - 1 + k \in Nat
      BY <2>3, SMT
    <3> QED
      BY <3>1, <2>4, <1>0 DEF n
  <2>9. LruRotated(f) \in Seq(Frames)
    BY <2>3, <2>7, <2>8, SMT
  <2>10. LruAfter(f) \in Range(LruRotated(f))
    <3>1. LruRotated(f)[1] = lru[((1 - 1 + k) % n) + 1]
      BY <2>3, <2>7, SMT
    <3>2. 1 - 1 + k = k
      BY <2>3, SMT
    <3>3. LruRotated(f)[1] = LruAfter(f)
      BY <3>1, <3>2 DEF LruAfter, k, n
    <3>4. 1 \in DOMAIN LruRotated(f)
      BY <2>3, <2>7, SMT
    <3> QED
      BY <3>3, <3>4 DEF Range
  <2> QED
    BY <2>5, <2>6, <2>9, <2>10
<1> QED
  BY <1>1, <1>2

-----------------------------------------------------------------------------
(* Steps of one thread.                                                    *)

\* A step that gives thread p good locals keeps everybody's locals good.
LEMMA ThreadStep ==
    ASSUME SwapInv, NEW p \in Procs, NEW t, ThreadOK(p, t), th' = [th EXCEPT ![p] = t]
    PROVE  /\ th' \in [Procs -> Threads] /\ LocalsOK'
           /\ th'[p] = t /\ \A q \in Procs \ {p} : th'[q] = th[q]
<1>1. th \in [Procs -> Threads] /\ t \in Threads
  BY DEF SwapInv, TypeOK, ThreadOK
<1>2. th'[p] = t /\ \A q \in Procs \ {p} : th'[q] = th[q]
  BY <1>1
<1>3. th' \in [Procs -> Threads]
  BY <1>1
<1>4. \A q \in Procs : ThreadOK(q, th'[q])
  BY <1>2 DEF SwapInv, LocalsOK
<1>5. LocalsOK'
  BY <1>4 DEF LocalsOK, ThreadOK, Resume
<1> QED
  BY <1>2, <1>3, <1>5

\* A step outside the scan that changes the list only when nobody scans it.
LEMMA ScanKept ==
    ASSUME SwapInv, NEW p \in Procs, NEW t, th' = [th EXCEPT ![p] = t], t.pc # "scan",
           UNCHANGED lru \/ lru_lock = NULL,
           UNCHANGED lru_lock
    PROVE  ScanOK'
<1>1. th \in [Procs -> Threads]
  BY DEF SwapInv, TypeOK
<1>2. \A q \in Procs : th'[q].pc = "scan" => q # p /\ th[q].pc = "scan" /\ th'[q] = th[q]
  BY <1>1
<1>3. NULL \notin Procs
  BY SwapAssumption
<1>4. \A q \in Procs : th[q].pc = "scan" => UNCHANGED lru
  BY <1>3 DEF SwapInv, ScanOK
<1> QED
  BY <1>2, <1>4 DEF SwapInv, ScanOK

\* A step inside a call that leaves processes, sizes and trapframes alone.
LEMMA FamilyKept ==
    ASSUME SwapInv, NEW p \in Procs, NEW t, th' = [th EXCEPT ![p] = t],
           th[p].pc # "user", t.op = th[p].op, t.as = th[p].as,
           t.op = "fork" /\ Resume(t) \in Copying => Resume(th[p]) \in Copying,
           UNCHANGED <<state, sz>>,
           \A c \in Procs : kpg'[c][0] = kpg[c][0]
    PROVE  FamilyOK'
<1>1. th \in [Procs -> Threads]
  BY DEF SwapInv, TypeOK
<1>2. \A q \in Procs : /\ th'[q].op = th[q].op /\ th'[q].as = th[q].as
                       /\ th'[q].pc # "user" => th[q].pc # "user"
                       /\ th[q].op = "fork" /\ Resume(th'[q]) \in Copying
                             => Resume(th[q]) \in Copying
  BY <1>1
<1>3. \A c \in Procs : Reaped(c)' <=> Reaped(c)
  BY <1>2 DEF Reaped
<1>4. \A q \in Procs : th[q].op = "fork" => th[q].as \in Procs
  BY DEF SwapInv, LocalsOK, ThreadOK
<1>5. \A q \in Procs : Resume(th[q])' = Resume(th'[q])
  BY DEF Resume
<1>6. /\ \A q \in Procs : th'[q].pc # "user" => state'[q] = "live"
      /\ \A q \in Procs : state'[q] = "live" => sz'[q] > 0
      /\ \A q \in Procs : th'[q].op = "shrink" => sz'[q] > 1
  BY <1>2, InKernelLive, LiveHasPages, ShrinkHasPages
<1>7. \A q \in Procs : th'[q].op = "fork" =>
         /\ state'[th'[q].as] = "used"
         /\ Resume(th'[q]) \in Copying => kpg'[th'[q].as][0] \in Frames
  BY <1>2, <1>4, ForkOn, SMT
<1>8. \A q \in Procs : th'[q].op = "reap" => state'[th'[q].as] = "zombie"
  BY <1>2, ReapOn
<1>9. \A q, r \in Procs : /\ q # r
                          /\ th'[q].op \in {"fork", "reap"} /\ th'[r].op \in {"fork", "reap"}
                          => th'[q].as # th'[r].as
  BY <1>2, OneFamily, SMT
<1>10. \A c \in Procs : state'[c] \in {"live", "zombie"} /\ ~Reaped(c)' => kpg'[c][0] \in Frames
  BY <1>3, HasTrapframe
<1> QED
  BY <1>5, <1>6, <1>7, <1>8, <1>9, <1>10 DEF FamilyOK

\* What a step must keep besides the list, the processes and the threads.
StoreOK ==
    /\ freelist \in Seq(Frames) /\ mem \in [Frames -> Data]
    /\ disk \in [Slots -> Data] /\ swap_bitmap \subseteq Slots
    /\ pages \in [Frames -> (Procs \X Pages) \union {NULL}]
    /\ pt \in [Procs -> [Pages -> PTEs]]
    /\ oops \in {"no"} \union Stops /\ shadow \in [Procs -> [Pages -> Data]]

\* The step of a thread inside a call.
LEMMA CallStep ==
    ASSUME SwapInv, NEW p \in Procs, NEW t, ThreadOK(p, t), th' = [th EXCEPT ![p] = t],
           th[p].pc # "user", t.op = th[p].op, t.as = th[p].as,
           t.op = "fork" /\ Resume(t) \in Copying => Resume(th[p]) \in Copying,
           UNCHANGED <<state, sz>>, StoreOK', ScanOK',
           lru' \in Seq(Frames), lru_lock' \in Procs \union {NULL},
           kpg' \in [Procs -> [KPages -> Frames \union {NULL}]],
           \A c \in Procs : kpg'[c][0] = kpg[c][0]
    PROVE  SwapInv'
<1>1. th' \in [Procs -> Threads] /\ LocalsOK'
  BY ThreadStep
<1>2. FamilyOK'
  BY FamilyKept
<1>3. sz' \in [Procs -> 0 .. MaxPages]
      /\ state' \in [Procs -> {"unused", "used", "live", "zombie"}]
  BY DEF SwapInv, TypeOK
<1>4. TypeOK'
  BY <1>1, <1>3 DEF TypeOK, StoreOK
<1> QED
  BY <1>1, <1>2, <1>4 DEF SwapInv

\* A step that moves no thread, list or table keeps what is said of them.
LEMMA Unmoved ==
    ASSUME SwapInv, UNCHANGED <<th, lru, lru_lock, state, sz, kpg>>
    PROVE  LocalsOK' /\ ScanOK' /\ FamilyOK'
<1>1. \A q \in Procs : ThreadOK(q, th'[q])
  BY DEF SwapInv, LocalsOK
<1>2. LocalsOK'
  BY <1>1 DEF LocalsOK, ThreadOK, Resume
<1>3. ScanOK'
  BY DEF SwapInv, ScanOK
<1>4. FamilyOK'
  BY DEF SwapInv, FamilyOK, Reaped, Resume
<1> QED
  BY <1>2, <1>3, <1>4

\* A panic changes nothing else.
LEMMA Panics ==
    ASSUME SwapInv, NEW why \in Stops, Panic(why)
    PROVE  SwapInv'
<1>1. /\ UNCHANGED <<freelist, mem, disk, swap_bitmap, lru, lru_lock, pages, pt, kpg, sz,
                     state, th, shadow>>
      /\ oops' \in {"no"} \union Stops
  BY DEF Panic, ram, swap, clock, tables, procs
<1>2. TypeOK'
  BY <1>1 DEF SwapInv, TypeOK
<1>3. LocalsOK' /\ ScanOK' /\ FamilyOK'
  BY <1>1, Unmoved
<1> QED
  BY <1>2, <1>3 DEF SwapInv

\* Inside kalloc() the locals of the caller do not change.
LEMMA SameCall ==
    ASSUME NEW p \in Procs, NEW s, ThreadOK(p, s), NEW t \in Threads,
           Resume(t) = Resume(s), t.pc # "user",
           t.op = s.op, t.as = s.as, t.va = s.va, t.lim = s.lim, t.mem = s.mem, t.src = s.src,
           t.pc \in InKalloc => t.ret \in Callers,
           t.pc \in Evicting => t.vic \in Frames,
           t.pc \in {"write", "evict"} => t.slot \in Slots
    PROVE  ThreadOK(p, t)
BY DEF ThreadOK

\* kalloc() and swapout() go from label to label on behalf of the caller.
LEMMA KallocStep ==
    ASSUME SwapInv, NEW p \in Procs, th[p].pc \in InKalloc,
           NEW t \in Threads, th' = [th EXCEPT ![p] = t],
           t.op = th[p].op, t.as = th[p].as, t.va = th[p].va, t.lim = th[p].lim,
           t.mem = th[p].mem, t.src = th[p].src,
           \/ t.pc \in InKalloc /\ t.ret = th[p].ret
           \/ t.pc = th[p].ret,
           t.pc \in Evicting => t.vic \in Frames,
           t.pc \in {"write", "evict"} => t.slot \in Slots,
           UNCHANGED <<state, sz, kpg>>, StoreOK', ScanOK',
           lru' \in Seq(Frames), lru_lock' \in Procs \union {NULL}
    PROVE  SwapInv'
<1>1. ThreadOK(p, th[p]) /\ th[p].ret \in Callers
  BY DEF SwapInv, LocalsOK, ThreadOK
<1>2. th[p].ret \notin InKalloc /\ th[p].ret # "user" /\ "user" \notin InKalloc
  BY <1>1 DEF InKalloc, Callers
<1>3. Resume(t) = Resume(th[p]) /\ t.pc # "user" /\ th[p].pc # "user"
  BY <1>2 DEF Resume
<1>4. t.pc \in InKalloc => t.ret \in Callers
  BY <1>1, <1>2
<1>5. ThreadOK(p, t)
  BY <1>1, <1>3, <1>4, SameCall
<1>6. kpg' \in [Procs -> [KPages -> Frames \union {NULL}]]
  BY DEF SwapInv, TypeOK
<1> QED
  BY <1>3, <1>5, <1>6, CallStep

\* kalloc() finds a page on the free list.
LEMMA KallocHit ==
    ASSUME SwapInv, NEW p \in Procs, kalloc_hit(p)
    PROVE  SwapInv'
<1> DEFINE t == [th[p] EXCEPT !.pc = th[p].ret, !.ret = "user", !.r = Head(freelist)]
<1>1. th' = [th EXCEPT ![p] = t]
  BY DEF kalloc_hit
<1>2. TypeOK /\ th[p] \in Threads /\ th[p].pc = "kalloc" /\ freelist # <<>>
      /\ th[p].ret \in Callers
  BY DEF kalloc_hit, At, SwapInv, LocalsOK, ThreadOK, InKalloc
<1>3. Head(freelist) \in Frames /\ Tail(freelist) \in Seq(Frames)
  BY <1>2, SMT DEF TypeOK
<1>4. /\ t \in Threads
      /\ t.pc = th[p].ret /\ t.op = th[p].op /\ t.as = th[p].as /\ t.va = th[p].va
      /\ t.lim = th[p].lim /\ t.mem = th[p].mem /\ t.src = th[p].src
  BY <1>2, <1>3, ZenonT(30) DEF Threads, Labels
<1>5. t.pc \notin Evicting /\ t.pc \notin {"write", "evict", "scan"} /\ th[p].pc \in InKalloc
  BY <1>2, <1>4 DEF Evicting, Callers, InKalloc
<1> HIDE DEF t
<1>6. UNCHANGED <<disk, swap_bitmap, lru, lru_lock, pages, pt, kpg, state, sz, oops, shadow>>
      /\ freelist' = Tail(freelist) /\ mem' = [mem EXCEPT ![Head(freelist)] = Junk]
  BY DEF kalloc_hit, swap, clock, tables, procs
<1>7. mem' \in [Frames -> Data]
  BY <1>2, <1>3, <1>6 DEF TypeOK, Data
<1>8. StoreOK' /\ lru' \in Seq(Frames) /\ lru_lock' \in Procs \union {NULL}
  BY <1>2, <1>3, <1>6, <1>7 DEF StoreOK, TypeOK
<1>9. ScanOK'
  BY <1>1, <1>5, <1>6, ScanKept
<1> QED
  BY <1>1, <1>4, <1>5, <1>6, <1>8, <1>9, KallocStep

\* kalloc() finds none and calls swapout().
LEMMA KallocMiss ==
    ASSUME SwapInv, NEW p \in Procs, kalloc_miss(p)
    PROVE  SwapInv'
<1> DEFINE t == [th[p] EXCEPT !.pc = "swapout"]
<1>1. TypeOK /\ th[p] \in Threads /\ th[p].pc = "kalloc" /\ th' = [th EXCEPT ![p] = t]
  BY DEF kalloc_miss, Goto, At, SwapInv, LocalsOK, ThreadOK
<1>2. UNCHANGED <<freelist, mem, disk, swap_bitmap, lru, lru_lock, pages, pt, kpg, state, sz,
                  oops, shadow>>
  BY DEF kalloc_miss, Goto, ram, swap, clock, tables, procs
<1>3. /\ t \in Threads
      /\ t.pc = "swapout" /\ t.op = th[p].op /\ t.as = th[p].as /\ t.va = th[p].va
      /\ t.lim = th[p].lim /\ t.mem = th[p].mem /\ t.src = th[p].src /\ t.ret = th[p].ret
  BY <1>1, SMT DEF Threads, Labels
<1> HIDE DEF t
<1>4. t.pc \notin Evicting /\ t.pc \in InKalloc /\ t.pc # "scan" /\ th[p].pc \in InKalloc
      /\ t.pc \notin {"write", "evict"}
  BY <1>1, <1>3 DEF Evicting, InKalloc
<1>5. StoreOK' /\ lru' \in Seq(Frames) /\ lru_lock' \in Procs \union {NULL}
  BY <1>1, <1>2 DEF StoreOK, TypeOK
<1>6. ScanOK'
  BY <1>1, <1>2, <1>4, ScanKept
<1> QED
  BY <1>1, <1>2, <1>3, <1>4, <1>5, <1>6, KallocStep

\* kalloc() returning 0.
LEMMA Fails ==
    ASSUME SwapInv, NEW p \in Procs, th[p].pc \in InKalloc, th' = KallocFails(p),
           UNCHANGED <<state, sz, kpg, lru_lock>>, StoreOK',
           lru' \in Seq(Frames), UNCHANGED lru \/ lru_lock = NULL
    PROVE  SwapInv'
<1> DEFINE t == [th[p] EXCEPT !.pc = th[p].ret, !.ret = "user", !.r = NULL, !.vic = NULL]
<1>1. th[p] \in Threads /\ th[p].ret \in Callers /\ th' = [th EXCEPT ![p] = t]
      /\ lru_lock' \in Procs \union {NULL}
  BY DEF KallocFails, SwapInv, LocalsOK, ThreadOK, TypeOK
<1>2. /\ t \in Threads
      /\ t.pc = th[p].ret /\ t.op = th[p].op /\ t.as = th[p].as /\ t.va = th[p].va
      /\ t.lim = th[p].lim /\ t.mem = th[p].mem /\ t.src = th[p].src
  BY <1>1, ZenonT(30) DEF Threads, Labels
<1> HIDE DEF t
<1>3. t.pc \notin Evicting /\ t.pc \notin {"write", "evict", "scan"}
  BY <1>1, <1>2 DEF Evicting, Callers
<1>4. ScanOK'
  BY <1>1, <1>3, ScanKept
<1> QED
  BY <1>1, <1>2, <1>3, <1>4, KallocStep

\* swapout() takes lru_lock, or gives up on an empty list.
LEMMA SwapoutBegin ==
    ASSUME SwapInv, NEW p \in Procs, swapout_begin(p)
    PROVE  SwapInv'
<1>1. TypeOK /\ th[p] \in Threads /\ th[p].pc = "swapout" /\ th[p].pc \in InKalloc
      /\ lru_lock = NULL
  BY DEF swapout_begin, At, SwapInv, LocalsOK, ThreadOK, InKalloc
<1>2. UNCHANGED <<freelist, mem, disk, swap_bitmap, lru, pages, pt, kpg, state, sz, oops, shadow>>
  BY DEF swapout_begin, ram, swap, tables, procs
<1>3. StoreOK' /\ lru' \in Seq(Frames)
  BY <1>1, <1>2 DEF StoreOK, TypeOK
<1>4. CASE th' = KallocFails(p) /\ UNCHANGED lru_lock
  BY <1>1, <1>2, <1>3, <1>4, Fails
<1> DEFINE t == [th[p] EXCEPT !.pc = "scan", !.vic = Head(lru)]
<1>5. CASE lru # <<>> /\ lru_lock' = p /\ th' = [th EXCEPT ![p] = t]
  <2>1. lru \in Seq(Frames) /\ lru # <<>>
    BY <1>1, <1>5 DEF TypeOK
  <2>2. Head(lru) \in Frames /\ 1 \in DOMAIN lru /\ Head(lru) = lru[1]
    BY <2>1, SMT
  <2>3. Head(lru) \in Range(lru)
    BY <2>2 DEF Range
  <2>4. /\ t \in Threads
        /\ t.pc = "scan" /\ t.op = th[p].op /\ t.as = th[p].as /\ t.va = th[p].va
        /\ t.lim = th[p].lim /\ t.mem = th[p].mem /\ t.src = th[p].src /\ t.ret = th[p].ret
        /\ t.vic = Head(lru)
    BY <1>1, <2>2, ZenonT(30) DEF Threads, Labels
  <2> HIDE DEF t
  <2>5. \A q \in Procs : th[q].pc # "scan"
    <3>1. NULL \notin Procs
      BY SwapAssumption
    <3> QED
      BY <1>1, <3>1 DEF SwapInv, ScanOK
  <2>6. th'[p] = t /\ \A q \in Procs \ {p} : th'[q] = th[q]
    BY <1>1, <1>5 DEF TypeOK
  <2>7. ScanOK'
    BY <1>2, <1>5, <2>3, <2>4, <2>5, <2>6, SMT DEF ScanOK
  <2>8. t.pc \in InKalloc /\ t.vic \in Frames /\ t.pc \notin {"write", "evict"}
    BY <2>2, <2>4 DEF InKalloc
  <2>9. lru_lock' \in Procs \union {NULL}
    BY <1>5
  <2> QED
    BY <1>1, <1>2, <1>3, <1>5, <2>4, <2>7, <2>8, <2>9, KallocStep
<1> QED
  BY <1>4, <1>5 DEF swapout_begin

\* Storing an entry in a page table, a struct page, or a freed page.
LEMMA PtUpdate ==
    ASSUME TypeOK, NEW as \in Procs, NEW va \in Pages, NEW e \in PTEs,
           pt' = [pt EXCEPT ![as][va] = e]
    PROVE  pt' \in [Procs -> [Pages -> PTEs]]
<1>1. pt \in [Procs -> [Pages -> PTEs]]
  BY DEF TypeOK
<1>2. [pt[as] EXCEPT ![va] = e] \in [Pages -> PTEs]
  BY <1>1
<1> QED
  BY <1>1, <1>2

\* A recorded mapping names a process and a page of it.
LEMMA PagesEntry ==
    ASSUME TypeOK, NEW f \in Frames, pages[f] # NULL
    PROVE  pages[f][1] \in Procs /\ pages[f][2] \in Pages
<1>1. pages[f] \in Procs \X Pages
  BY DEF TypeOK
<1> QED
  BY <1>1

\* kfree() of a frame keeps the types of the free list and of memory.
LEMMA KfreeTypes ==
    ASSUME TypeOK, NEW f \in Frames, kfree(f)
    PROVE  freelist' \in Seq(Frames) /\ mem' \in [Frames -> Data]
<1>1. freelist \in Seq(Frames) /\ <<f>> \in Seq(Frames)
  BY SMT DEF TypeOK
<1>2. freelist' \in Seq(Frames)
  BY <1>1, SMT DEF kfree
<1>3. mem' \in [Frames -> Data]
  BY DEF TypeOK, kfree, Data
<1> QED
  BY <1>2, <1>3

\* The second-chance scan looks at one page.
LEMMA SwapoutScan ==
    ASSUME SwapInv, NEW p \in Procs, swapout_scan(p)
    PROVE  SwapInv'
<1> DEFINE cand == th[p].vic
           as == pages[cand][1]
           va == pages[cand][2]
           t == [th[p] EXCEPT !.vic = LruAfter(cand)]
           u == [th[p] EXCEPT !.pc = "slot"]
<1>1. TypeOK /\ th[p] \in Threads /\ th[p].pc = "scan" /\ th[p].pc \in InKalloc
      /\ cand \in Frames /\ cand \in Range(lru) /\ lru_lock = p /\ lru \in Seq(Frames)
  BY DEF swapout_scan, At, SwapInv, LocalsOK, ThreadOK, InKalloc, Evicting, ScanOK, TypeOK
<1>2. /\ LruWithout(cand) \in Seq(Frames) /\ LruAfter(cand) \in Frames
      /\ LruAfter(cand) \in Range(lru) /\ LruRotated(cand) \in Seq(Frames)
      /\ LruAfter(cand) \in Range(LruRotated(cand))
  BY <1>1, LruTypes
<1>3. /\ t \in Threads
      /\ t.pc = "scan" /\ t.op = th[p].op /\ t.as = th[p].as /\ t.va = th[p].va
      /\ t.lim = th[p].lim /\ t.mem = th[p].mem /\ t.src = th[p].src /\ t.ret = th[p].ret
      /\ t.vic = LruAfter(cand)
  BY <1>1, <1>2 DEF Threads
<1>4. /\ u \in Threads
      /\ u.pc = "slot" /\ u.op = th[p].op /\ u.as = th[p].as /\ u.va = th[p].va
      /\ u.lim = th[p].lim /\ u.mem = th[p].mem /\ u.src = th[p].src /\ u.ret = th[p].ret
      /\ u.vic = cand
  BY <1>1, ZenonT(30) DEF Threads, Labels
<1>5. \A q \in Procs : th[q].pc = "scan" => q = p
  BY <1>1 DEF SwapInv, ScanOK
<1>6. t.pc \in InKalloc /\ t.pc \notin {"write", "evict"}
      /\ u.pc \in InKalloc /\ u.pc \notin {"write", "evict", "scan"}
  BY <1>3, <1>4 DEF InKalloc
<1> HIDE DEF t, u
<1>7. CASE Panic("swapout: walk of a null page table") \/ Panic("swapout: no pte")
  <2>1. {"swapout: walk of a null page table", "swapout: no pte"} \subseteq Stops
    BY DEF Stops
  <2> QED
    BY <1>7, <2>1, Panics
<1>8. CASE /\ th' = [th EXCEPT ![p] = t]
           /\ UNCHANGED <<ram, swap, clock, tables, procs, oops, shadow>>
  <2>1. UNCHANGED <<freelist, mem, disk, swap_bitmap, lru, lru_lock, pages, pt, kpg, state, sz,
                    oops, shadow>>
    BY <1>8 DEF ram, swap, clock, tables, procs
  <2>2. StoreOK' /\ lru' \in Seq(Frames) /\ lru_lock' \in Procs \union {NULL}
    BY <1>1, <2>1 DEF StoreOK, TypeOK
  <2>3. th'[p] = t /\ \A q \in Procs \ {p} : th'[q] = th[q]
    BY <1>1, <1>8 DEF TypeOK
  <2>4. ScanOK'
    BY <1>1, <1>2, <1>3, <1>5, <2>1, <2>3 DEF ScanOK
  <2> QED
    BY <1>1, <1>2, <1>3, <1>6, <1>8, <2>1, <2>2, <2>4, KallocStep
<1>9. CASE /\ pages[cand] # NULL /\ pt[as][va].k = "mem"
           /\ pt' = ClearA(as, va) /\ lru' = LruRotated(cand)
           /\ th' = [th EXCEPT ![p] = t]
           /\ UNCHANGED <<ram, swap, lru_lock, pages, kpg, procs, oops, shadow>>
  <2>1. UNCHANGED <<freelist, mem, disk, swap_bitmap, lru_lock, pages, kpg, state, sz, oops, shadow>>
    BY <1>9 DEF ram, swap, procs
  <2>2. as \in Procs /\ va \in Pages
    BY <1>1, <1>9, PagesEntry
  <2> HIDE DEF as, va
  <2>3. pt[as][va] \in PTEs
    BY <1>1, <2>2 DEF TypeOK
  <2>4. [pt[as][va] EXCEPT !.a = FALSE] \in PTEs
    BY <1>9, <2>3, PteAccessed
  <2>5. pt' = [pt EXCEPT ![as][va] = [pt[as][va] EXCEPT !.a = FALSE]]
    BY <1>9 DEF ClearA
  <2>6. pt' \in [Procs -> [Pages -> PTEs]]
    BY <1>1, <2>2, <2>4, <2>5, PtUpdate
  <2>7. StoreOK' /\ lru' \in Seq(Frames) /\ lru_lock' \in Procs \union {NULL}
    BY <1>1, <1>2, <1>9, <2>1, <2>6 DEF StoreOK, TypeOK
  <2>8. th'[p] = t /\ \A q \in Procs \ {p} : th'[q] = th[q]
    BY <1>1, <1>9 DEF TypeOK
  <2>9. ScanOK'
    <3>1. lru_lock' = p /\ th'[p].vic \in Range(lru')
      BY <1>1, <1>2, <1>3, <1>9, <2>1, <2>8
    <3>2. \A q \in Procs : th'[q].pc = "scan" => q = p
      BY <1>5, <2>8
    <3> QED
      BY <3>1, <3>2 DEF ScanOK
  <2> QED
    BY <1>1, <1>2, <1>3, <1>6, <1>9, <2>1, <2>7, <2>9, KallocStep
<1>10. CASE /\ lru' = LruWithout(cand) /\ lru_lock' = NULL
            /\ th' = [th EXCEPT ![p] = u]
            /\ UNCHANGED <<ram, swap, pages, tables, procs, oops, shadow>>
  <2>1. UNCHANGED <<freelist, mem, disk, swap_bitmap, pages, pt, kpg, state, sz, oops, shadow>>
    BY <1>10 DEF ram, swap, tables, procs
  <2>2. StoreOK' /\ lru' \in Seq(Frames) /\ lru_lock' \in Procs \union {NULL}
    BY <1>1, <1>2, <1>10, <2>1 DEF StoreOK, TypeOK
  <2>3. th'[p] = u /\ \A q \in Procs \ {p} : th'[q] = th[q]
    BY <1>1, <1>10 DEF TypeOK
  <2>4. ScanOK'
    BY <1>5, <1>6, <2>3 DEF ScanOK
  <2> QED
    BY <1>1, <1>4, <1>6, <1>10, <2>1, <2>2, <2>4, KallocStep
<1>11. CASE /\ pages[cand] # NULL /\ pt[as][va].k # "mem"
            /\ th' = [th EXCEPT ![p].vic = LruAfter(cand)]
            /\ UNCHANGED <<ram, swap, clock, tables, procs, oops, shadow>>
  BY <1>8, <1>11 DEF t
<1>12. CASE /\ pages[cand] # NULL /\ pt[as][va].k = "mem"
            /\ pt' = ClearA(as, va) /\ lru' = LruRotated(cand)
            /\ th' = [th EXCEPT ![p].vic = LruAfter(cand)]
            /\ UNCHANGED <<ram, swap, lru_lock, pages, kpg, procs, oops, shadow>>
  BY <1>9, <1>12 DEF t
<1>13. CASE /\ lru' = LruWithout(cand) /\ lru_lock' = NULL
            /\ th' = [th EXCEPT ![p].pc = "slot"]
            /\ UNCHANGED <<ram, swap, pages, tables, procs, oops, shadow>>
  BY <1>10, <1>13 DEF u
<1> HIDE DEF cand, as, va
<1> QED
  BY <1>7, <1>11, <1>12, <1>13 DEF swapout_scan, cand, as, va

\* lru_add() keeps a list of frames, or reports that it destroyed the list.
LEMMA LruAdds ==
    ASSUME TypeOK, NEW f \in Frames, lru_add(f)
    PROVE  lru_lock = NULL /\ lru' \in Seq(Frames) /\ oops' \in {"no"} \union Stops
<1>1. lru \in Seq(Frames) /\ oops \in {"no"} \union Stops
  BY DEF TypeOK
<1>2. CASE f \in Range(lru)
  BY <1>1, <1>2 DEF lru_add, Stops
<1>3. CASE f \notin Range(lru)
  BY <1>1, <1>3, SMT DEF lru_add
<1> QED
  BY <1>2, <1>3 DEF lru_add

\* swapout() without a slot puts the victim back on the list.
LEMMA SwapoutPutback ==
    ASSUME SwapInv, NEW p \in Procs, swapout_putback(p)
    PROVE  SwapInv'
<1>1. TypeOK /\ th[p] \in Threads /\ th[p].pc = "putback" /\ th[p].pc \in InKalloc
      /\ th[p].vic \in Frames /\ lru_add(th[p].vic) /\ th' = KallocFails(p)
  BY DEF swapout_putback, At, SwapInv, LocalsOK, ThreadOK, InKalloc, Evicting
<1>2. UNCHANGED <<freelist, mem, disk, swap_bitmap, lru_lock, pages, pt, kpg, state, sz, shadow>>
  BY DEF swapout_putback, ram, swap, tables, procs
<1>3. lru_lock = NULL /\ lru' \in Seq(Frames) /\ oops' \in {"no"} \union Stops
  BY <1>1, LruAdds
<1>4. StoreOK'
  BY <1>1, <1>2, <1>3 DEF StoreOK, TypeOK
<1> QED
  BY <1>1, <1>2, <1>3, <1>4, Fails

\* swapout() writes the victim to its slot.
LEMMA Swapwrite ==
    ASSUME SwapInv, NEW p \in Procs, swapwrite(p)
    PROVE  SwapInv'
<1> DEFINE t == [th[p] EXCEPT !.pc = "evict"]
<1>1. TypeOK /\ th[p] \in Threads /\ th[p].pc = "write" /\ th[p].pc \in InKalloc
      /\ th[p].vic \in Frames /\ th[p].slot \in Slots /\ th' = [th EXCEPT ![p] = t]
  BY DEF swapwrite, At, SwapInv, LocalsOK, ThreadOK, InKalloc, Evicting
<1>2. UNCHANGED <<freelist, mem, swap_bitmap, lru, lru_lock, pages, pt, kpg, state, sz, oops, shadow>>
      /\ disk' = [disk EXCEPT ![th[p].slot] = mem[th[p].vic]]
  BY DEF swapwrite, ram, clock, tables, procs
<1>3. /\ t \in Threads
      /\ t.pc = "evict" /\ t.op = th[p].op /\ t.as = th[p].as /\ t.va = th[p].va
      /\ t.lim = th[p].lim /\ t.mem = th[p].mem /\ t.src = th[p].src /\ t.ret = th[p].ret
      /\ t.vic = th[p].vic /\ t.slot = th[p].slot
  BY <1>1 DEF Threads, Labels
<1>4. disk' \in [Slots -> Data]
  BY <1>1, <1>2 DEF TypeOK
<1>5. StoreOK' /\ lru' \in Seq(Frames) /\ lru_lock' \in Procs \union {NULL}
  BY <1>1, <1>2, <1>4 DEF StoreOK, TypeOK
<1> HIDE DEF t
<1>6. t.pc \in InKalloc /\ t.pc # "scan"
  BY <1>3 DEF InKalloc
<1>7. ScanOK'
  BY <1>1, <1>2, <1>6, ScanKept
<1> QED
  BY <1>1, <1>2, <1>3, <1>5, <1>6, <1>7, KallocStep

\* swapout() makes the victim's entry a swap entry.
LEMMA SwapoutEvict ==
    ASSUME SwapInv, NEW p \in Procs, swapout_evict(p)
    PROVE  SwapInv'
<1> DEFINE as == pages[th[p].vic][1]
           va == pages[th[p].vic][2]
           t == [th[p] EXCEPT !.pc = "vfree"]
<1>1. TypeOK /\ th[p] \in Threads /\ th[p].pc = "evict" /\ th[p].pc \in InKalloc
      /\ th[p].vic \in Frames /\ th[p].slot \in Slots
  BY DEF swapout_evict, At, SwapInv, LocalsOK, ThreadOK, InKalloc, Evicting
<1>2. CASE Panic("swapout: walk of a null page table") \/ Panic("swapout: pte vanished")
  <2>1. {"swapout: walk of a null page table", "swapout: pte vanished"} \subseteq Stops
    BY DEF Stops
  <2> QED
    BY <1>2, <2>1, Panics
<1>3. CASE /\ pages[th[p].vic] # NULL
           /\ pt' = [pt EXCEPT ![as][va] = Swapped(th[p].slot)]
           /\ th' = [th EXCEPT ![p].pc = "vfree"]
           /\ UNCHANGED <<ram, swap, clock, kpg, procs, oops, shadow>>
  <2>1. UNCHANGED <<freelist, mem, disk, swap_bitmap, lru, lru_lock, pages, kpg, state, sz, oops, shadow>>
        /\ th' = [th EXCEPT ![p] = t]
    BY <1>3 DEF ram, swap, clock, procs
  <2>2. as \in Procs /\ va \in Pages
    BY <1>1, <1>3, PagesEntry
  <2>3. Swapped(th[p].slot) \in PTEs
    BY <1>1, PteKinds
  <2>4. pt' \in [Procs -> [Pages -> PTEs]]
    BY <1>1, <1>3, <2>2, <2>3, PtUpdate
  <2>5. StoreOK' /\ lru' \in Seq(Frames) /\ lru_lock' \in Procs \union {NULL}
    BY <1>1, <2>1, <2>4 DEF StoreOK, TypeOK
  <2>6. /\ t \in Threads
        /\ t.pc = "vfree" /\ t.op = th[p].op /\ t.as = th[p].as /\ t.va = th[p].va
        /\ t.lim = th[p].lim /\ t.mem = th[p].mem /\ t.src = th[p].src /\ t.ret = th[p].ret
        /\ t.vic = th[p].vic
    BY <1>1 DEF Threads, Labels
  <2> HIDE DEF t
  <2>7. t.pc \in InKalloc /\ t.pc \notin {"scan", "write", "evict"}
    BY <2>6 DEF InKalloc
  <2>8. ScanOK'
    BY <2>1, <2>7, ScanKept
  <2> QED
    BY <1>1, <2>1, <2>5, <2>6, <2>7, <2>8, KallocStep
<1> HIDE DEF as, va
<1> QED
  BY <1>2, <1>3 DEF swapout_evict, as, va

\* swapout() frees the victim's frame.
LEMMA SwapoutFree ==
    ASSUME SwapInv, NEW p \in Procs, swapout_free(p)
    PROVE  SwapInv'
<1> DEFINE t == [th[p] EXCEPT !.pc = "vclear"]
<1>1. TypeOK /\ th[p] \in Threads /\ th[p].pc = "vfree" /\ th[p].pc \in InKalloc
      /\ th[p].vic \in Frames /\ th' = [th EXCEPT ![p] = t]
  BY DEF swapout_free, At, SwapInv, LocalsOK, ThreadOK, InKalloc, Evicting
<1>2. UNCHANGED <<disk, swap_bitmap, lru, lru_lock, pages, pt, kpg, state, sz, oops, shadow>>
      /\ kfree(th[p].vic)
  BY DEF swapout_free, swap, clock, tables, procs
<1>3. /\ t \in Threads
      /\ t.pc = "vclear" /\ t.op = th[p].op /\ t.as = th[p].as /\ t.va = th[p].va
      /\ t.lim = th[p].lim /\ t.mem = th[p].mem /\ t.src = th[p].src /\ t.ret = th[p].ret
      /\ t.vic = th[p].vic
  BY <1>1, ZenonT(30) DEF Threads, Labels
<1>4. freelist' \in Seq(Frames) /\ mem' \in [Frames -> Data]
  BY <1>1, <1>2, KfreeTypes
<1>5. StoreOK' /\ lru' \in Seq(Frames) /\ lru_lock' \in Procs \union {NULL}
  BY <1>1, <1>2, <1>4 DEF StoreOK, TypeOK
<1> HIDE DEF t
<1>6. t.pc \in InKalloc /\ t.pc \notin {"scan", "write", "evict"}
  BY <1>3 DEF InKalloc
<1>7. ScanOK'
  BY <1>1, <1>2, <1>6, ScanKept
<1> QED
  BY <1>1, <1>2, <1>3, <1>5, <1>6, <1>7, KallocStep

\* swapout() clears the victim's struct page.
LEMMA SwapoutClear ==
    ASSUME SwapInv, NEW p \in Procs, swapout_clear(p)
    PROVE  SwapInv'
<1> DEFINE t == [th[p] EXCEPT !.pc = "kalloc", !.vic = NULL, !.slot = NULL]
<1>1. TypeOK /\ th[p] \in Threads /\ th[p].pc = "vclear" /\ th[p].pc \in InKalloc
      /\ th[p].vic \in Frames /\ th' = [th EXCEPT ![p] = t]
  BY DEF swapout_clear, At, SwapInv, LocalsOK, ThreadOK, InKalloc, Evicting
<1>2. UNCHANGED <<freelist, mem, disk, swap_bitmap, lru, lru_lock, pt, kpg, state, sz, oops, shadow>>
      /\ pages' = [pages EXCEPT ![th[p].vic] = NULL]
  BY DEF swapout_clear, ram, swap, tables, procs
<1>3. /\ t \in Threads
      /\ t.pc = "kalloc" /\ t.op = th[p].op /\ t.as = th[p].as /\ t.va = th[p].va
      /\ t.lim = th[p].lim /\ t.mem = th[p].mem /\ t.src = th[p].src /\ t.ret = th[p].ret
  BY <1>1, ZenonT(30) DEF Threads, Labels
<1>4. pages' \in [Frames -> (Procs \X Pages) \union {NULL}]
  BY <1>1, <1>2 DEF TypeOK
<1>5. StoreOK' /\ lru' \in Seq(Frames) /\ lru_lock' \in Procs \union {NULL}
  BY <1>1, <1>2, <1>4 DEF StoreOK, TypeOK
<1> HIDE DEF t
<1>6. t.pc \in InKalloc /\ t.pc \notin Evicting /\ t.pc \notin {"scan", "write", "evict"}
  BY <1>3 DEF InKalloc, Evicting
<1>7. ScanOK'
  BY <1>1, <1>2, <1>6, ScanKept
<1> QED
  BY <1>1, <1>2, <1>3, <1>5, <1>6, <1>7, KallocStep

-----------------------------------------------------------------------------
(* uvmalloc(), uvmcopy() and mappages().                                   *)

\* What a thread outside kalloc() knows.
LEMMA Outside ==
    ASSUME SwapInv, NEW p \in Procs, th[p].pc \notin InKalloc
    PROVE  /\ TypeOK /\ th[p] \in Threads /\ ThreadOK(p, th[p])
           /\ Resume(th[p]) = th[p].pc /\ th[p].op \in OpAt(th[p].pc)
BY DEF SwapInv, LocalsOK, ThreadOK, Resume

\* A failed call turns to unmapping what it has mapped.
LEMMA Rolls ==
    ASSUME SwapInv, NEW p \in Procs, th[p].pc \in {"uvmalloc", "copypage", "walk"},
           th' = Rollback(p),
           UNCHANGED <<state, sz, kpg, lru, lru_lock>>, StoreOK'
    PROVE  SwapInv'
<1> DEFINE v == IF th[p].op = "grow" THEN sz[p] ELSE 0
           t == [th[p] EXCEPT !.pc = "unmap", !.lim = th[p].va, !.mem = NULL,
                              !.va = v, !.src = Unmapped]
<1>1. TypeOK /\ th[p] \in Threads /\ ThreadOK(p, th[p]) /\ Resume(th[p]) = th[p].pc
      /\ th[p].op \in OpAt(th[p].pc)
  BY Outside DEF InKalloc
<1>2. th[p].va \in Pages /\ th[p].op \in {"grow", "fork"} /\ sz[p] \in Nat /\ MaxPages \in Nat
      /\ th[p].va \in Nat /\ th[p].va <= MaxPages
  <2>1. th[p].va \in Pages
    BY <1>1 DEF ThreadOK, Paging
  <2>2. th[p].op \in {"grow", "fork"}
    BY <1>1 DEF OpAt
  <2>3. sz[p] \in 0 .. MaxPages /\ MaxPages \in Nat
    BY <1>1, SwapAssumption DEF TypeOK
  <2> QED
    BY <2>1, <2>2, <2>3, SMT DEF Pages
<1>3. v \in Nat /\ th' = [th EXCEPT ![p] = t]
  BY <1>2 DEF Rollback
<1> HIDE DEF v
<1>4. /\ t \in Threads
      /\ t.pc = "unmap" /\ t.op = th[p].op /\ t.as = th[p].as /\ t.lim = th[p].va
  BY <1>1, <1>2, <1>3, PteKinds, ZenonT(30) DEF Threads, Labels
<1> HIDE DEF t
<1>5. Resume(t) = "unmap"
  BY <1>4 DEF Resume, InKalloc
<1>6. ThreadOK(p, t)
  BY <1>1, <1>2, <1>4, <1>5
     DEF ThreadOK, InKalloc, Evicting, Paging, Holding, Copying, OpAt
<1>7. t.pc # "scan" /\ th[p].pc # "user" /\ "unmap" \notin Copying
  BY <1>1, <1>4 DEF Copying
<1>8. ScanOK'
  BY <1>3, <1>7, ScanKept
<1>9. /\ lru' \in Seq(Frames) /\ lru_lock' \in Procs \union {NULL}
      /\ kpg' \in [Procs -> [KPages -> Frames \union {NULL}]]
      /\ \A c \in Procs : kpg'[c][0] = kpg[c][0]
  BY <1>1 DEF TypeOK
<1> QED
  BY <1>3, <1>4, <1>5, <1>6, <1>7, <1>8, <1>9, CallStep

\* The page kalloc() returned is held while mappages() is under way.
LEMMA Holds ==
    ASSUME SwapInv, NEW p \in Procs, th[p].pc \in {"uvmalloc", "copypage"},
           th[p].r \in Frames, th' = HoldPage(p),
           UNCHANGED <<state, sz, kpg, lru, lru_lock>>, StoreOK'
    PROVE  SwapInv'
<1> DEFINE has == HasPte(th[p].as, th[p].va)
           t == [th[p] EXCEPT !.mem = th[p].r, !.r = NULL, !.pc = "map"]
           u == [th[p] EXCEPT !.mem = th[p].r, !.r = NULL, !.pc = "kalloc", !.ret = "walk"]
<1>1. TypeOK /\ th[p] \in Threads /\ ThreadOK(p, th[p]) /\ Resume(th[p]) = th[p].pc
      /\ th[p].op \in OpAt(th[p].pc)
  BY Outside DEF InKalloc
<1>2. th[p].va \in Pages /\ th[p].op \in {"grow", "fork"}
      /\ th[p].va < th[p].lim /\ th[p].lim <= MaxPages
  BY <1>1 DEF ThreadOK, Paging, Copying, OpAt
<1>3. th' = [th EXCEPT ![p] = t] \/ th' = [th EXCEPT ![p] = u]
  BY <1>1 DEF HoldPage, TypeOK
<1>4. /\ t \in Threads
      /\ t.pc = "map" /\ t.op = th[p].op /\ t.as = th[p].as /\ t.lim = th[p].lim
      /\ t.va = th[p].va /\ t.mem = th[p].r
  BY <1>1, ZenonT(30) DEF Threads, Labels
<1>5. /\ u \in Threads
      /\ u.pc = "kalloc" /\ u.ret = "walk" /\ u.op = th[p].op /\ u.as = th[p].as
      /\ u.lim = th[p].lim /\ u.va = th[p].va /\ u.mem = th[p].r
  BY <1>1, ZenonT(30) DEF Threads, Labels
<1> HIDE DEF t, u
<1>6. Resume(t) = "map" /\ Resume(u) = "walk"
  BY <1>4, <1>5 DEF Resume, InKalloc
<1>7. ThreadOK(p, t)
  BY <1>1, <1>2, <1>4, <1>6
     DEF ThreadOK, InKalloc, Evicting, Paging, Holding, Copying, OpAt
<1>8. ThreadOK(p, u)
  BY <1>1, <1>2, <1>5, <1>6
     DEF ThreadOK, InKalloc, Evicting, Paging, Holding, Copying, OpAt, Callers
<1>9. t.pc # "scan" /\ u.pc # "scan" /\ th[p].pc # "user"
      /\ (th[p].op = "fork" => Resume(th[p]) \in Copying)
  BY <1>1, <1>4, <1>5 DEF Copying, OpAt
<1>10. ScanOK'
  BY <1>3, <1>9, ScanKept
<1>11. /\ lru' \in Seq(Frames) /\ lru_lock' \in Procs \union {NULL}
       /\ kpg' \in [Procs -> [KPages -> Frames \union {NULL}]]
       /\ \A c \in Procs : kpg'[c][0] = kpg[c][0]
  BY <1>1 DEF TypeOK
<1>12. CASE th' = [th EXCEPT ![p] = t]
  BY <1>4, <1>7, <1>9, <1>10, <1>11, <1>12, CallStep
<1>13. CASE th' = [th EXCEPT ![p] = u]
  BY <1>5, <1>8, <1>9, <1>10, <1>11, <1>13, CallStep
<1> QED
  BY <1>3, <1>12, <1>13

\* uvmalloc() takes the next page.
LEMMA UvmallocPage ==
    ASSUME SwapInv, NEW p \in Procs, uvmalloc_page(p)
    PROVE  SwapInv'
<1>1. TypeOK /\ th[p] \in Threads /\ th[p].pc = "uvmalloc"
  BY DEF uvmalloc_page, At, SwapInv, LocalsOK, ThreadOK
<1>2. UNCHANGED <<freelist, disk, swap_bitmap, lru, lru_lock, pages, pt, kpg, state, sz, oops, shadow>>
  BY DEF uvmalloc_page, swap, clock, tables, procs
<1>3. CASE th' = Rollback(p) /\ UNCHANGED mem
  <2>1. StoreOK'
    BY <1>1, <1>2, <1>3 DEF StoreOK, TypeOK
  <2> QED
    BY <1>1, <1>2, <1>3, <2>1, Rolls
<1>4. CASE th[p].r # NULL /\ th' = HoldPage(p) /\ mem' = [mem EXCEPT ![th[p].r] = Zero]
  <2>1. th[p].r \in Frames
    BY <1>1, <1>4 DEF Threads
  <2>2. mem' \in [Frames -> Data]
    BY <1>1, <1>4, <2>1 DEF TypeOK, Data
  <2>3. StoreOK'
    BY <1>1, <1>2, <2>2 DEF StoreOK, TypeOK
  <2> QED
    BY <1>1, <1>2, <1>4, <2>1, <2>3, Holds
<1> QED
  BY <1>3, <1>4 DEF uvmalloc_page

\* uvmcopy() looks at the next entry of the parent.
LEMMA UvmcopyPage ==
    ASSUME SwapInv, NEW p \in Procs, uvmcopy_page(p)
    PROVE  SwapInv'
<1> DEFINE src == th[p].src
           what == IF src.k = "mem" THEN mem[src.n] ELSE disk[src.n]
<1>1. TypeOK /\ th[p] \in Threads /\ th[p].pc = "copypage" /\ src.k # "none" /\ src \in PTEs
  BY DEF uvmcopy_page, At, SwapInv, LocalsOK, ThreadOK, Threads, Resume, InKalloc
<1>2. UNCHANGED <<freelist, disk, swap_bitmap, lru, lru_lock, pages, pt, kpg, state, sz, oops, shadow>>
  BY DEF uvmcopy_page, swap, clock, tables, procs
<1>3. CASE th' = Rollback(p) /\ UNCHANGED mem
  <2>1. StoreOK'
    BY <1>1, <1>2, <1>3 DEF StoreOK, TypeOK
  <2> QED
    BY <1>1, <1>2, <1>3, <2>1, Rolls
<1>4. CASE th[p].r # NULL /\ th' = HoldPage(p) /\ mem' = [mem EXCEPT ![th[p].r] = what]
  <2>1. th[p].r \in Frames
    BY <1>1, <1>4 DEF Threads
  <2>2. what \in Data
    BY <1>1, PteType DEF TypeOK
  <2> HIDE DEF what
  <2>3. mem' \in [Frames -> Data]
    BY <1>1, <1>4, <2>1, <2>2 DEF TypeOK
  <2>4. StoreOK'
    BY <1>1, <1>2, <2>3 DEF StoreOK, TypeOK
  <2> QED
    BY <1>1, <1>2, <1>4, <2>1, <2>4, Holds
<1> QED
  BY <1>3, <1>4 DEF uvmcopy_page

\* uvmcopy() copies the page into the child's frame.
LEMMA UvmcopyRead ==
    ASSUME SwapInv, NEW p \in Procs, uvmcopy_read(p)
    PROVE  SwapInv'
<1> DEFINE pte == pt[p][th[p].va]
           t == [th[p] EXCEPT !.pc = "kalloc", !.ret = "copypage", !.src = pte]
<1>0. th[p].pc = "uvmcopy"
  BY DEF uvmcopy_read, At
<1>1. TypeOK /\ th[p] \in Threads /\ ThreadOK(p, th[p]) /\ Resume(th[p]) = th[p].pc
      /\ th[p].op = "fork" /\ th[p].va \in Pages /\ pte \in PTEs
      /\ th[p].va < th[p].lim /\ th[p].lim <= MaxPages
  <2>1. TypeOK /\ th[p] \in Threads /\ ThreadOK(p, th[p]) /\ Resume(th[p]) = "uvmcopy"
        /\ th[p].op \in OpAt("uvmcopy")
    BY <1>0, Outside DEF InKalloc
  <2>2. th[p].op = "fork"
    BY <2>1 DEF OpAt
  <2>3. th[p].va \in Pages /\ th[p].va < th[p].lim /\ th[p].lim <= MaxPages
    BY <2>1, <2>2 DEF ThreadOK, Paging, Copying
  <2>4. pte \in PTEs
    BY <2>1, <2>3, ZenonT(30) DEF TypeOK
  <2> QED
    BY <1>0, <2>1, <2>2, <2>3, <2>4
<1>2. CASE Panic("uvmcopy: pte should exist") \/ Panic("uvmcopy: page not present")
  <2>1. {"uvmcopy: pte should exist", "uvmcopy: page not present"} \subseteq Stops
    BY DEF Stops
  <2> QED
    BY <1>2, <2>1, Panics
<1>3. CASE /\ pte.k # "none"
           /\ th' = [CallKalloc(p, "copypage") EXCEPT ![p].src = pte]
           /\ UNCHANGED <<ram, swap, clock, tables, procs, oops, shadow>>
  <2>1. UNCHANGED <<freelist, mem, disk, swap_bitmap, lru, lru_lock, pages, pt, kpg, state, sz, oops, shadow>>
    BY <1>3 DEF ram, swap, clock, tables, procs
  <2>2. th' = [th EXCEPT ![p] = t]
    BY <1>1, <1>3 DEF CallKalloc, TypeOK
  <2>3. /\ t \in Threads
        /\ t.pc = "kalloc" /\ t.ret = "copypage" /\ t.op = th[p].op /\ t.as = th[p].as
        /\ t.lim = th[p].lim /\ t.va = th[p].va /\ t.src = pte
    BY <1>1, ZenonT(30) DEF Threads, Labels
  <2> HIDE DEF t, pte
  <2>4. Resume(t) = "copypage"
    BY <2>3 DEF Resume, InKalloc
  <2>5. ThreadOK(p, t)
    BY <1>1, <1>3, <2>3, <2>4
       DEF ThreadOK, InKalloc, Evicting, Paging, Holding, Copying, OpAt, Callers
  <2>6. t.pc # "scan" /\ th[p].pc # "user" /\ Resume(th[p]) \in Copying
    BY <1>0, <1>1, <2>3 DEF Copying
  <2>7. ScanOK'
    BY <2>1, <2>2, <2>6, ScanKept
  <2>8. /\ lru' \in Seq(Frames) /\ lru_lock' \in Procs \union {NULL} /\ StoreOK'
        /\ kpg' \in [Procs -> [KPages -> Frames \union {NULL}]]
        /\ \A c \in Procs : kpg'[c][0] = kpg[c][0]
    BY <1>1, <2>1 DEF TypeOK, StoreOK
  <2> QED
    BY <2>1, <2>2, <2>3, <2>5, <2>6, <2>7, <2>8, CallStep
<1> HIDE DEF pte
<1> QED
  BY <1>2, <1>3 DEF uvmcopy_read, pte


-----------------------------------------------------------------------------
(* mappages() and the end of a mapping call.                               *)

\* walk() with alloc != 0 allocates a page-table page.
LEMMA WalkAlloc ==
    ASSUME SwapInv, NEW p \in Procs, walk_alloc(p)
    PROVE  SwapInv'
<1> DEFINE t == [th[p] EXCEPT !.pc = "map", !.r = NULL]
           as == th[p].as
           k == Leaf(th[p].va)
<1>0. th[p].pc = "walk"
  BY DEF walk_alloc, At
<1>1. TypeOK /\ th[p] \in Threads /\ ThreadOK(p, th[p]) /\ Resume(th[p]) = th[p].pc
      /\ th[p].op \in {"grow", "fork"} /\ th[p].va \in Pages /\ th[p].mem \in Frames
      /\ th[p].va < th[p].lim /\ th[p].lim <= MaxPages
  BY <1>0, Outside DEF InKalloc, ThreadOK, OpAt, Paging, Holding, Copying
<1>2. UNCHANGED <<disk, swap_bitmap, lru, lru_lock, pages, pt, state, sz, oops, shadow>>
  BY DEF walk_alloc, swap, clock, procs
<1>3. CASE kfree(th[p].mem) /\ th' = Rollback(p) /\ UNCHANGED kpg
  <2>1. freelist' \in Seq(Frames) /\ mem' \in [Frames -> Data]
    BY <1>1, <1>3, KfreeTypes
  <2>2. StoreOK'
    BY <1>1, <1>2, <2>1 DEF StoreOK, TypeOK
  <2> QED
    BY <1>0, <1>2, <1>3, <2>2, Rolls
<1>4. CASE /\ th[p].r # NULL
           /\ mem' = [mem EXCEPT ![th[p].r] = Zero]
           /\ kpg' = [kpg EXCEPT ![as][k] = th[p].r]
           /\ th' = [th EXCEPT ![p] = t]
           /\ UNCHANGED freelist
  <2>1. th[p].r \in Frames /\ as \in Procs
    BY <1>1, <1>4 DEF Threads, ThreadOK
  <2>2. mem' \in [Frames -> Data]
    BY <1>1, <1>4, <2>1 DEF TypeOK, Data
  <2>3. StoreOK' /\ lru' \in Seq(Frames) /\ lru_lock' \in Procs \union {NULL}
    BY <1>1, <1>2, <1>4, <2>2 DEF StoreOK, TypeOK
  <2>4. k \in KPages /\ k # 0
    BY <1>1, LeafType
  <2> HIDE DEF k, as
  <2>5. kpg \in [Procs -> [KPages -> Frames \union {NULL}]]
    BY <1>1 DEF TypeOK
  <2>6. [kpg[as] EXCEPT ![k] = th[p].r] \in [KPages -> Frames \union {NULL}]
    BY <2>1, <2>4, <2>5
  <2>7. kpg' \in [Procs -> [KPages -> Frames \union {NULL}]]
    BY <1>4, <2>1, <2>5, <2>6
  <2>8. \A c \in Procs : kpg'[c][0] = kpg[c][0]
    BY <1>4, <2>1, <2>4, <2>5, KPagesNat
  <2>9. /\ t \in Threads
        /\ t.pc = "map" /\ t.op = th[p].op /\ t.as = th[p].as /\ t.lim = th[p].lim
        /\ t.va = th[p].va /\ t.mem = th[p].mem
    BY <1>1, ZenonT(30) DEF Threads, Labels
  <2> HIDE DEF t
  <2>10. Resume(t) = "map"
    BY <2>9 DEF Resume, InKalloc
  <2>11. ThreadOK(p, t)
    BY <1>1, <2>9, <2>10
       DEF ThreadOK, InKalloc, Evicting, Paging, Holding, Copying, OpAt
  <2>12. t.pc # "scan" /\ th[p].pc # "user" /\ Resume(th[p]) \in Copying
    BY <1>0, <1>1, <2>9 DEF Copying
  <2>13. ScanOK'
    BY <1>2, <1>4, <2>12, ScanKept
  <2> QED
    BY <1>2, <1>4, <2>3, <2>7, <2>8, <2>9, <2>11, <2>12, <2>13, CallStep
<1> QED
  BY <1>3, <1>4 DEF walk_alloc

\* mappages() writes the new entry, or its caller undoes the allocation.
LEMMA Mappages ==
    ASSUME SwapInv, NEW p \in Procs, mappages(p)
    PROVE  SwapInv'
<1> DEFINE as == th[p].as
           va == th[p].va
           e == Present(th[p].mem, th[p].src.a)
           t == [th[p] EXCEPT !.pc = "link"]
<1>0. th[p].pc = "map"
  BY DEF mappages, At
<1>1. TypeOK /\ th[p] \in Threads /\ ThreadOK(p, th[p]) /\ Resume(th[p]) = th[p].pc
      /\ th[p].op \in {"grow", "fork"} /\ va \in Pages /\ th[p].mem \in Frames
      /\ va < th[p].lim /\ th[p].lim <= MaxPages
  BY <1>0, Outside DEF InKalloc, ThreadOK, OpAt, Paging, Holding, Copying
<1>2. CASE Panic("mappages: remap")
  <2>1. "mappages: remap" \in Stops
    BY DEF Stops
  <2> QED
    BY <1>2, <2>1, Panics
<1>3. CASE /\ pt' = [pt EXCEPT ![as][va] = e]
           /\ pages' = [pages EXCEPT ![th[p].mem] = <<as, va>>]
           /\ th' = [th EXCEPT ![p] = t]
           /\ UNCHANGED <<ram, swap, lru, lru_lock, kpg, procs, oops, shadow>>
  <2>1. UNCHANGED <<freelist, mem, disk, swap_bitmap, lru, lru_lock, kpg, state, sz, oops, shadow>>
    BY <1>3 DEF ram, swap, procs
  <2>2. as \in Procs /\ th[p].src \in PTEs
    BY <1>1 DEF ThreadOK, Threads
  <2>3. th[p].src.a \in BOOLEAN
    BY <2>2, PteType
  <2>4. e \in PTEs
    BY <1>1, <2>3, PteKinds
  <2> HIDE DEF e
  <2>5. pt' \in [Procs -> [Pages -> PTEs]]
    BY <1>1, <1>3, <2>2, <2>4, PtUpdate
  <2>6. pages' \in [Frames -> (Procs \X Pages) \union {NULL}]
    BY <1>1, <1>3, <2>2 DEF TypeOK
  <2>7. StoreOK' /\ lru' \in Seq(Frames) /\ lru_lock' \in Procs \union {NULL}
        /\ kpg' \in [Procs -> [KPages -> Frames \union {NULL}]]
        /\ \A c \in Procs : kpg'[c][0] = kpg[c][0]
    BY <1>1, <2>1, <2>5, <2>6 DEF StoreOK, TypeOK
  <2>8. /\ t \in Threads
        /\ t.pc = "link" /\ t.op = th[p].op /\ t.as = th[p].as /\ t.lim = th[p].lim
        /\ t.va = th[p].va /\ t.mem = th[p].mem
    BY <1>1, SMT DEF Threads, Labels
  <2> HIDE DEF t
  <2>9. Resume(t) = "link"
    BY <2>8 DEF Resume, InKalloc
  <2>10. ThreadOK(p, t)
    BY <1>1, <2>8, <2>9
       DEF ThreadOK, InKalloc, Evicting, Paging, Holding, Copying, OpAt
  <2>11. t.pc # "scan" /\ th[p].pc # "user" /\ Resume(th[p]) \in Copying
    BY <1>0, <1>1, <2>8 DEF Copying
  <2>12. ScanOK'
    BY <1>3, <2>1, <2>11, ScanKept
  <2> QED
    BY <1>3, <2>1, <2>7, <2>8, <2>10, <2>11, <2>12, CallStep
<1>4. CASE /\ pt' = [pt EXCEPT ![as][va] = e]
           /\ pages' = [pages EXCEPT ![th[p].mem] = <<as, va>>]
           /\ th' = [th EXCEPT ![p].pc = "link"]
           /\ UNCHANGED <<ram, swap, lru, lru_lock, kpg, procs, oops, shadow>>
  BY <1>3, <1>4
<1> HIDE DEF as, va, e
<1> QED
  BY <1>2, <1>4 DEF mappages, as, va, e

\* A step outside the scan, from what it does to processes.
LEMMA Assemble ==
    ASSUME SwapInv, NEW p \in Procs, NEW t, ThreadOK(p, t), th' = [th EXCEPT ![p] = t],
           t.pc # "scan", UNCHANGED lru_lock, StoreOK',
           lru' \in Seq(Frames), UNCHANGED lru \/ lru_lock = NULL,
           kpg' \in [Procs -> [KPages -> Frames \union {NULL}]],
           sz' \in [Procs -> 0 .. MaxPages],
           state' \in [Procs -> {"unused", "used", "live", "zombie"}],
           FamilyOK'
    PROVE  SwapInv'
<1>1. th' \in [Procs -> Threads] /\ LocalsOK'
  BY ThreadStep
<1>2. ScanOK'
  BY ScanKept
<1>3. lru_lock' \in Procs \union {NULL}
  BY DEF SwapInv, TypeOK
<1>4. TypeOK'
  BY <1>1, <1>3 DEF TypeOK, StoreOK
<1> QED
  BY <1>1, <1>2, <1>4 DEF SwapInv

\* A thread in user mode satisfies the conditions on locals.
LEMMA IdleOK ==
    ASSUME NEW p \in Procs
    PROVE  ThreadOK(p, Idle) /\ Idle.pc = "user" /\ Idle.op = "none"
<1>1. Idle \in Threads /\ Idle.pc = "user" /\ Idle.op = "none" /\ Idle.lim = 0
  BY PteKinds DEF Idle, Threads, Labels, Ops
<1>2. Resume(Idle) = "user"
  BY <1>1 DEF Resume, InKalloc
<1>3. 0 <= MaxPages
  BY SwapAssumption, SMT
<1> QED
  BY <1>1, <1>2, <1>3
     DEF ThreadOK, InKalloc, Evicting, Paging, Holding, Copying, OpAt

\* A thread in user mode is in no call.
LEMMA UserIdle ==
    ASSUME SwapInv, NEW q \in Procs, th[q].op # "none"
    PROVE  th[q].pc # "user" /\ state[q] = "live"
<1>1. th[q].pc = "user" => th[q] = Idle
  BY DEF SwapInv, LocalsOK, ThreadOK
<1>2. Idle.op = "none"
  BY DEF Idle
<1>3. th[q].pc # "user"
  BY <1>1, <1>2
<1> QED
  BY <1>3 DEF SwapInv, FamilyOK

\* A call that is neither fork() nor wait() returns.
LEMMA Returns ==
    ASSUME SwapInv, NEW p \in Procs, th' = [th EXCEPT ![p] = Idle],
           th[p].pc # "user", th[p].op \notin {"fork", "reap"},
           UNCHANGED <<state, kpg, lru_lock>>, StoreOK',
           lru' \in Seq(Frames), UNCHANGED lru \/ lru_lock = NULL,
           sz' \in [Procs -> 0 .. MaxPages],
           \A c \in Procs : sz'[c] = sz[c] \/ (c = p /\ sz'[c] > 0)
    PROVE  SwapInv'
<1>1. TypeOK /\ ThreadOK(p, Idle) /\ Idle.pc = "user" /\ Idle.op = "none"
  BY IdleOK DEF SwapInv
<1>2. th'[p] = Idle /\ \A q \in Procs \ {p} : th'[q] = th[q]
  BY <1>1 DEF TypeOK
<1>3. \A c \in Procs : Reaped(c)' <=> Reaped(c)
  BY <1>1, <1>2 DEF Reaped
<1>4. Resume(Idle) = "user" /\ \A q \in Procs : Resume(th[q])' = Resume(th'[q])
  BY <1>1 DEF Resume, InKalloc
<1>5. FamilyOK'
  <2>1. \A q \in Procs : th'[q].op # "none" => th'[q] = th[q]
    BY <1>1, <1>2
  <2>2. \A q \in Procs : th'[q].pc # "user" => state'[q] = "live"
    BY <1>1, <1>2, InKernelLive
  <2>3. \A q \in Procs : state'[q] = "live" => sz'[q] > 0
    BY LiveHasPages
  <2>4. \A q \in Procs : th'[q].op = "shrink" => sz'[q] > 1
    BY <1>1, <1>2, ShrinkHasPages
  <2>5. \A q \in Procs : th'[q].op = "fork" =>
           /\ state'[th'[q].as] = "used"
           /\ Resume(th'[q]) \in Copying => kpg'[th'[q].as][0] \in Frames
    BY <2>1, ForkOn
  <2>6. \A q \in Procs : th'[q].op = "reap" => state'[th'[q].as] = "zombie"
    BY <2>1, ReapOn
  <2>7. \A q, r \in Procs : /\ q # r
                            /\ th'[q].op \in {"fork", "reap"} /\ th'[r].op \in {"fork", "reap"}
                            => th'[q].as # th'[r].as
    BY <2>1, OneFamily, SMT
  <2>8. \A d \in Procs : state'[d] \in {"live", "zombie"} /\ ~Reaped(d)' => kpg'[d][0] \in Frames
    BY <1>3, HasTrapframe
  <2> QED
    BY <1>4, <2>2, <2>3, <2>4, <2>5, <2>6, <2>7, <2>8 DEF FamilyOK
<1>6. kpg' \in [Procs -> [KPages -> Frames \union {NULL}]]
      /\ state' \in [Procs -> {"unused", "used", "live", "zombie"}] /\ Idle.pc # "scan"
  BY <1>1 DEF TypeOK
<1> QED
  BY <1>1, <1>5, <1>6, Assemble

\* lru_add() of a page that has just been mapped.
LEMMA Link ==
    ASSUME SwapInv, NEW p \in Procs, link(p)
    PROVE  SwapInv'
<1> DEFINE next == th[p].va + 1
           t == [th[p] EXCEPT !.va = next, !.mem = NULL, !.src = Unmapped,
                              !.pc = "kalloc", !.ret = "uvmalloc"]
           u == [th[p] EXCEPT !.va = next, !.mem = NULL, !.src = Unmapped, !.pc = "uvmcopy"]
           c == th[p].as
<1>0. th[p].pc = "link"
  BY DEF link, At
<1>1. TypeOK /\ th[p] \in Threads /\ ThreadOK(p, th[p]) /\ Resume(th[p]) = th[p].pc
      /\ th[p].op \in {"grow", "fork", "fault"} /\ th[p].va \in Pages /\ th[p].mem \in Frames
      /\ th[p].lim \in Nat /\ th[p].lim <= MaxPages
      /\ (th[p].op # "fault" => th[p].va < th[p].lim)
      /\ (th[p].op \in {"grow", "fault"} => c = p) /\ (th[p].op = "fork" => c \in Procs \ {p})
  BY <1>0, Outside DEF InKalloc, ThreadOK, OpAt, Paging, Holding, Copying, Threads
<1>2. UNCHANGED <<freelist, mem, disk, swap_bitmap, lru_lock, pages, pt, kpg, shadow>>
      /\ lru_add(th[p].mem)
  BY DEF link, ram, swap, tables
<1>3. lru_lock = NULL /\ lru' \in Seq(Frames) /\ oops' \in {"no"} \union Stops
  BY <1>1, <1>2, LruAdds
<1>4. StoreOK' /\ lru_lock' \in Procs \union {NULL}
      /\ kpg' \in [Procs -> [KPages -> Frames \union {NULL}]]
      /\ \A d \in Procs : kpg'[d][0] = kpg[d][0]
  BY <1>1, <1>2, <1>3 DEF StoreOK, TypeOK
<1>5. th[p].pc # "user" /\ Resume(th[p]) \in Copying /\ MaxPages \in Nat /\ th[p].va \in Nat
  BY <1>0, <1>1, SwapAssumption, SMT DEF Copying, Pages
<1>6. ASSUME next < th[p].lim
      PROVE  next \in Nat /\ next \in Pages
  BY <1>1, <1>5, <1>6, SMT DEF Pages
<1> HIDE DEF next
<1>7. CASE next < th[p].lim /\ th[p].op = "grow" /\ th' = [th EXCEPT ![p] = t] /\ UNCHANGED procs
  <2>1. /\ t \in Threads
        /\ t.pc = "kalloc" /\ t.ret = "uvmalloc" /\ t.op = th[p].op /\ t.as = th[p].as
        /\ t.lim = th[p].lim /\ t.va = next
    BY <1>1, <1>6, <1>7, PteKinds DEF Threads, Labels
  <2> HIDE DEF t
  <2>2. Resume(t) = "uvmalloc"
    BY <2>1 DEF Resume, InKalloc
  <2>3. ThreadOK(p, t)
    BY <1>1, <1>6, <1>7, <2>1, <2>2
       DEF ThreadOK, InKalloc, Evicting, Paging, Holding, Copying, OpAt, Callers
  <2>4. t.pc # "scan"
    BY <2>1
  <2>5. ScanOK'
    BY <1>2, <1>3, <1>7, <2>4, ScanKept
  <2>6. UNCHANGED <<state, sz>>
    BY <1>7 DEF procs
  <2> QED
    BY <1>3, <1>4, <1>5, <1>7, <2>1, <2>3, <2>5, <2>6, CallStep
<1>8. CASE next < th[p].lim /\ th[p].op = "fork" /\ th' = [th EXCEPT ![p] = u] /\ UNCHANGED procs
  <2>1. /\ u \in Threads
        /\ u.pc = "uvmcopy" /\ u.op = th[p].op /\ u.as = th[p].as
        /\ u.lim = th[p].lim /\ u.va = next
    BY <1>1, <1>6, <1>8, PteKinds DEF Threads, Labels
  <2> HIDE DEF u
  <2>2. Resume(u) = "uvmcopy"
    BY <2>1 DEF Resume, InKalloc
  <2>3. ThreadOK(p, u)
    BY <1>1, <1>6, <1>8, <2>1, <2>2
       DEF ThreadOK, InKalloc, Evicting, Paging, Holding, Copying, OpAt, Callers
  <2>4. u.pc # "scan"
    BY <2>1
  <2>5. ScanOK'
    BY <1>2, <1>3, <1>8, <2>4, ScanKept
  <2>6. UNCHANGED <<state, sz>>
    BY <1>8 DEF procs
  <2> QED
    BY <1>3, <1>4, <1>5, <1>8, <2>1, <2>3, <2>5, <2>6, CallStep
<1>9. CASE /\ th' = [th EXCEPT ![p] = Idle]
           /\ sz' = IF th[p].op = "fault" THEN sz ELSE [sz EXCEPT ![c] = th[p].lim]
           /\ state' = [state EXCEPT ![c] = "live"]
  <2>1. th[p].op # "fault" => th[p].lim \in 1 .. MaxPages
    BY <1>1, <1>5, SMT
  <2>2. state \in [Procs -> {"unused", "used", "live", "zombie"}] /\ sz \in [Procs -> 0 .. MaxPages]
        /\ c \in Procs
    BY <1>1 DEF TypeOK
  <2>3. sz' \in [Procs -> 0 .. MaxPages]
        /\ state' \in [Procs -> {"unused", "used", "live", "zombie"}]
    BY <1>1, <1>9, <2>1, <2>2, SMT
  <2>4. CASE th[p].op \in {"grow", "fault"}
    <3>1. state[p] = "live" /\ c = p
      BY <1>1, <1>5, <2>4 DEF SwapInv, FamilyOK
    <3>2. UNCHANGED state
      BY <1>9, <2>2, <3>1
    <3>3. \A d \in Procs : sz'[d] = sz[d] \/ (d = p /\ sz'[d] > 0)
      BY <1>9, <2>1, <2>2, <3>1, SMT
    <3>4. th[p].op \notin {"fork", "reap"}
      BY <2>4
    <3> QED
      BY <1>2, <1>3, <1>4, <1>5, <1>9, <2>3, <3>2, <3>3, <3>4, Returns
  <2>5. CASE th[p].op = "fork"
    <3>1. /\ state[c] = "used" /\ kpg[c][0] \in Frames /\ c # p
          /\ \A q \in Procs \ {p} : th[q].op \in {"fork", "reap"} => th[q].as # c
      BY <1>1, <1>5, <2>5 DEF SwapInv, FamilyOK
    <3>2. th'[p] = Idle /\ Idle.op = "none" /\ Idle.pc = "user" /\ ThreadOK(p, Idle)
          /\ \A q \in Procs \ {p} : th'[q] = th[q]
      BY <1>1, <1>9, IdleOK DEF TypeOK
    <3>3. state'[c] = "live" /\ sz'[c] > 0
          /\ \A d \in Procs \ {c} : state'[d] = state[d] /\ sz'[d] = sz[d]
      BY <1>9, <2>1, <2>2, <2>5, SMT
    <3>4. \A d \in Procs : Reaped(d)' <=> Reaped(d)
      BY <2>5, <3>2 DEF Reaped
    <3>5. \A q \in Procs : th[q].op # "none" \/ th[q].pc # "user" => q # c
      BY <3>1, UserIdle DEF SwapInv, FamilyOK
    <3>6. \A q \in Procs : Resume(th[q])' = Resume(th'[q])
      BY DEF Resume
    <3> HIDE DEF c
    <3>7. \A q \in Procs : th[q].op \in {"fork", "reap"} => th[q].as \in Procs
      BY DEF SwapInv, LocalsOK, ThreadOK
    <3>8. FamilyOK'
      <4>1. \A q \in Procs : th'[q].pc # "user" => state'[q] = "live"
        BY <3>2, <3>3, <3>5, InKernelLive
      <4>2. \A q \in Procs : state'[q] = "live" => sz'[q] > 0
        BY <3>3, LiveHasPages
      <4>3. \A q \in Procs : th'[q].op = "shrink" => sz'[q] > 1
        BY <3>2, <3>3, <3>5, ShrinkHasPages
      <4>4. \A q \in Procs : th'[q].op = "fork" =>
               /\ state'[th'[q].as] = "used"
               /\ Resume(th'[q]) \in Copying => kpg'[th'[q].as][0] \in Frames
        BY <1>4, <3>1, <3>2, <3>3, <3>7, ForkOn, SMT
      <4>5. \A q \in Procs : th'[q].op = "reap" => state'[th'[q].as] = "zombie"
        BY <3>1, <3>2, <3>3, <3>7, ReapOn, SMT
      <4>6. \A q, r \in Procs : /\ q # r
                                /\ th'[q].op \in {"fork", "reap"} /\ th'[r].op \in {"fork", "reap"}
                                => th'[q].as # th'[r].as
        BY <3>2, OneFamily
      <4>7. \A d \in Procs : state'[d] \in {"live", "zombie"} /\ ~Reaped(d)' => kpg'[d][0] \in Frames
        BY <1>4, <3>1, <3>3, <3>4, HasTrapframe
      <4> QED
        BY <3>6, <4>1, <4>2, <4>3, <4>4, <4>5, <4>6, <4>7 DEF FamilyOK
    <3>9. Idle.pc # "scan"
      BY <3>2
    <3> QED
      BY <1>2, <1>3, <1>4, <1>9, <2>3, <3>2, <3>8, <3>9, Assemble
  <2> QED
    BY <1>1, <2>4, <2>5
<1>10. CASE next < th[p].lim /\ th[p].op = "grow" /\ UNCHANGED procs
            /\ th' = [[th EXCEPT ![p].va = next, ![p].mem = NULL, ![p].src = Unmapped]
                         EXCEPT ![p].pc = "kalloc", ![p].ret = "uvmalloc"]
  BY <1>1, <1>7, <1>10 DEF TypeOK
<1>11. CASE next < th[p].lim /\ th[p].op = "fork" /\ UNCHANGED procs
            /\ th' = [[th EXCEPT ![p].va = next, ![p].mem = NULL, ![p].src = Unmapped]
                         EXCEPT ![p].pc = "uvmcopy"]
  BY <1>1, <1>8, <1>11 DEF TypeOK
<1> HIDE DEF c
<1> QED
  BY <1>9, <1>10, <1>11 DEF link, next, c

-----------------------------------------------------------------------------
(* Page faults and swapin().                                               *)

\* A process that is in no other call, or in a fault, may exit.
LEMMA ExitStep ==
    ASSUME SwapInv, NEW p \in Procs, state[p] = "live",
           th[p].op \notin {"fork", "reap"}, Exits(p)
    PROVE  SwapInv'
<1>1. CASE Panic("init exiting")
  <2>1. "init exiting" \in Stops
    BY DEF Stops
  <2> QED
    BY <1>1, <2>1, Panics
<1>2. CASE /\ state' = [state EXCEPT ![p] = "zombie"]
           /\ th' = [th EXCEPT ![p] = Idle]
           /\ UNCHANGED <<ram, swap, clock, tables, sz, oops, shadow>>
  <2>1. UNCHANGED <<freelist, mem, disk, swap_bitmap, lru, lru_lock, pages, pt, kpg, sz, oops, shadow>>
    BY <1>2 DEF ram, swap, clock, tables
  <2>2. TypeOK /\ ThreadOK(p, Idle) /\ Idle.pc = "user" /\ Idle.op = "none"
    BY IdleOK DEF SwapInv
  <2>3. th'[p] = Idle /\ \A q \in Procs \ {p} : th'[q] = th[q]
    BY <1>2, <2>2 DEF TypeOK
  <2>4. state'[p] = "zombie" /\ \A q \in Procs \ {p} : state'[q] = state[q]
    BY <1>2, <2>2 DEF TypeOK
  <2>5. \A c \in Procs : Reaped(c)' <=> Reaped(c)
    BY <2>2, <2>3 DEF Reaped
  <2>6. \A q \in Procs : Resume(th[q])' = Resume(th'[q])
    BY DEF Resume
  <2>7. \A q \in Procs : th[q].op \in {"fork", "reap"} => th[q].as \in Procs
    BY DEF SwapInv, LocalsOK, ThreadOK
  <2>8. FamilyOK'
    <3>1. \A q \in Procs : th'[q].pc # "user" => state'[q] = "live"
      BY <2>2, <2>3, <2>4, InKernelLive
    <3>2. \A q \in Procs : state'[q] = "live" => sz'[q] > 0
      BY <2>1, <2>4, LiveHasPages
    <3>3. \A q \in Procs : th'[q].op = "shrink" => sz'[q] > 1
      BY <2>1, <2>2, <2>3, ShrinkHasPages
    <3>4. \A q \in Procs : th'[q].op = "fork" =>
             /\ state'[th'[q].as] = "used"
             /\ Resume(th'[q]) \in Copying => kpg'[th'[q].as][0] \in Frames
      BY <2>1, <2>2, <2>3, <2>4, <2>7, ForkOn, SMT
    <3>5. \A q \in Procs : th'[q].op = "reap" => state'[th'[q].as] = "zombie"
      BY <2>2, <2>3, <2>4, <2>7, ReapOn, SMT
    <3>6. \A q, r \in Procs : /\ q # r
                              /\ th'[q].op \in {"fork", "reap"} /\ th'[r].op \in {"fork", "reap"}
                              => th'[q].as # th'[r].as
      BY <2>2, <2>3, OneFamily
    <3>7. \A d \in Procs : state'[d] \in {"live", "zombie"} /\ ~Reaped(d)' => kpg'[d][0] \in Frames
      BY <2>1, <2>4, <2>5, HasTrapframe
    <3> QED
      BY <2>6, <3>1, <3>2, <3>3, <3>4, <3>5, <3>6, <3>7 DEF FamilyOK
  <2>9. StoreOK' /\ lru' \in Seq(Frames) /\ Idle.pc # "scan"
        /\ kpg' \in [Procs -> [KPages -> Frames \union {NULL}]]
        /\ sz' \in [Procs -> 0 .. MaxPages]
        /\ state' \in [Procs -> {"unused", "used", "live", "zombie"}]
    BY <1>2, <2>1, <2>2 DEF StoreOK, TypeOK
  <2> QED
    BY <1>2, <2>1, <2>2, <2>8, <2>9, Assemble
<1> QED
  BY <1>1, <1>2 DEF Exits

\* swapin() reads the slot into the new frame.
LEMMA SwapinRead ==
    ASSUME SwapInv, NEW p \in Procs, swapin_read(p)
    PROVE  SwapInv'
<1> DEFINE t == [th[p] EXCEPT !.pc = "slotfree", !.mem = th[p].r, !.r = NULL]
<1>0. th[p].pc = "swapin"
  BY DEF swapin_read, At
<1>1. TypeOK /\ th[p] \in Threads /\ ThreadOK(p, th[p]) /\ Resume(th[p]) = th[p].pc
      /\ th[p].op = "fault" /\ th[p].va \in Pages /\ th[p].src.k = "swap" /\ th[p].src \in PTEs
  BY <1>0, Outside DEF InKalloc, ThreadOK, OpAt, Paging, Holding, Copying, Threads
<1>2. CASE Exits(p)
  BY <1>0, <1>1, <1>2, UserIdle, ExitStep
<1>3. CASE /\ th[p].r # NULL
           /\ mem' = [mem EXCEPT ![th[p].r] = disk[th[p].src.n]]
           /\ th' = [th EXCEPT ![p] = t]
           /\ UNCHANGED <<freelist, swap, clock, tables, procs, oops, shadow>>
  <2>1. UNCHANGED <<freelist, disk, swap_bitmap, lru, lru_lock, pages, pt, kpg, state, sz, oops, shadow>>
    BY <1>3 DEF swap, clock, tables, procs
  <2>2. th[p].r \in Frames /\ th[p].src.n \in Slots
    BY <1>1, <1>3, PteType DEF Threads
  <2>3. mem' \in [Frames -> Data]
    BY <1>1, <1>3, <2>2 DEF TypeOK
  <2>4. StoreOK' /\ lru' \in Seq(Frames) /\ lru_lock' \in Procs \union {NULL}
        /\ kpg' \in [Procs -> [KPages -> Frames \union {NULL}]]
        /\ \A c \in Procs : kpg'[c][0] = kpg[c][0]
    BY <1>1, <2>1, <2>3 DEF StoreOK, TypeOK
  <2>5. /\ t \in Threads
        /\ t.pc = "slotfree" /\ t.op = th[p].op /\ t.as = th[p].as /\ t.lim = th[p].lim
        /\ t.va = th[p].va /\ t.mem = th[p].r /\ t.src = th[p].src
    BY <1>1, <2>2 DEF Threads, Labels
  <2> HIDE DEF t
  <2>6. Resume(t) = "slotfree"
    BY <2>5 DEF Resume, InKalloc
  <2>7. ThreadOK(p, t)
    BY <1>1, <2>2, <2>5, <2>6
       DEF ThreadOK, InKalloc, Evicting, Paging, Holding, Copying, OpAt
  <2>8. t.pc # "scan" /\ th[p].pc # "user" /\ t.op # "fork"
    BY <1>0, <1>1, <2>5
  <2>9. ScanOK'
    BY <1>3, <2>1, <2>8, ScanKept
  <2> QED
    BY <1>3, <2>1, <2>4, <2>5, <2>7, <2>8, <2>9, CallStep
<1> QED
  BY <1>2, <1>3 DEF swapin_read

\* swapin() gives the slot back.
LEMMA SwapinFree ==
    ASSUME SwapInv, NEW p \in Procs, swapin_free(p)
    PROVE  SwapInv'
<1> DEFINE t == [th[p] EXCEPT !.pc = "swapmap"]
<1>0. th[p].pc = "slotfree" /\ th' = [th EXCEPT ![p] = t]
  BY DEF swapin_free, At
<1>1. TypeOK /\ th[p] \in Threads /\ ThreadOK(p, th[p]) /\ Resume(th[p]) = th[p].pc
      /\ th[p].op = "fault" /\ th[p].va \in Pages /\ th[p].mem \in Frames
  BY <1>0, Outside DEF InKalloc, ThreadOK, OpAt, Paging, Holding, Copying
<1>2. UNCHANGED <<freelist, mem, disk, lru, lru_lock, pages, pt, kpg, state, sz, oops, shadow>>
      /\ swap_bitmap' \subseteq swap_bitmap
  BY DEF swapin_free, ram, clock, tables, procs
<1>3. StoreOK' /\ lru' \in Seq(Frames) /\ lru_lock' \in Procs \union {NULL}
      /\ kpg' \in [Procs -> [KPages -> Frames \union {NULL}]]
      /\ \A c \in Procs : kpg'[c][0] = kpg[c][0]
  BY <1>1, <1>2 DEF StoreOK, TypeOK
<1>4. /\ t \in Threads
      /\ t.pc = "swapmap" /\ t.op = th[p].op /\ t.as = th[p].as /\ t.lim = th[p].lim
      /\ t.va = th[p].va /\ t.mem = th[p].mem
  BY <1>1 DEF Threads, Labels
<1> HIDE DEF t
<1>5. Resume(t) = "swapmap"
  BY <1>4 DEF Resume, InKalloc
<1>6. ThreadOK(p, t)
  BY <1>1, <1>4, <1>5
     DEF ThreadOK, InKalloc, Evicting, Paging, Holding, Copying, OpAt
<1>7. t.pc # "scan" /\ th[p].pc # "user" /\ t.op # "fork"
  BY <1>0, <1>1, <1>4
<1>8. ScanOK'
  BY <1>0, <1>2, <1>7, ScanKept
<1> QED
  BY <1>0, <1>2, <1>3, <1>4, <1>6, <1>7, <1>8, CallStep

\* swapin() makes the entry valid again.
LEMMA SwapinMap ==
    ASSUME SwapInv, NEW p \in Procs, swapin_map(p)
    PROVE  SwapInv'
<1> DEFINE t == [th[p] EXCEPT !.pc = "link"]
           e == Present(th[p].mem, pt[p][th[p].va].a)
<1>0. th[p].pc = "swapmap" /\ th' = [th EXCEPT ![p] = t]
  BY DEF swapin_map, At
<1>1. TypeOK /\ th[p] \in Threads /\ ThreadOK(p, th[p]) /\ Resume(th[p]) = th[p].pc
      /\ th[p].op = "fault" /\ th[p].va \in Pages /\ th[p].mem \in Frames
  BY <1>0, Outside DEF InKalloc, ThreadOK, OpAt, Paging, Holding, Copying
<1>2. UNCHANGED <<freelist, mem, disk, swap_bitmap, lru, lru_lock, kpg, state, sz, oops, shadow>>
      /\ pt' = [pt EXCEPT ![p][th[p].va] = e]
      /\ pages' = [pages EXCEPT ![th[p].mem] = <<p, th[p].va>>]
  BY DEF swapin_map, ram, swap, procs
<1>3. pt[p][th[p].va] \in PTEs
  BY <1>1 DEF TypeOK
<1>4. pt[p][th[p].va].a \in BOOLEAN
  BY <1>3, PteType
<1>5. e \in PTEs
  BY <1>1, <1>4, PteKinds
<1> HIDE DEF e
<1>6. pt' \in [Procs -> [Pages -> PTEs]]
  BY <1>1, <1>2, <1>5, PtUpdate
<1>7. pages' \in [Frames -> (Procs \X Pages) \union {NULL}]
  BY <1>1, <1>2 DEF TypeOK
<1>8. StoreOK' /\ lru' \in Seq(Frames) /\ lru_lock' \in Procs \union {NULL}
      /\ kpg' \in [Procs -> [KPages -> Frames \union {NULL}]]
      /\ \A c \in Procs : kpg'[c][0] = kpg[c][0]
  BY <1>1, <1>2, <1>6, <1>7 DEF StoreOK, TypeOK
<1>9. /\ t \in Threads
      /\ t.pc = "link" /\ t.op = th[p].op /\ t.as = th[p].as /\ t.lim = th[p].lim
      /\ t.va = th[p].va /\ t.mem = th[p].mem
  BY <1>1 DEF Threads, Labels
<1> HIDE DEF t
<1>10. Resume(t) = "link"
  BY <1>9 DEF Resume, InKalloc
<1>11. ThreadOK(p, t)
  BY <1>1, <1>9, <1>10
     DEF ThreadOK, InKalloc, Evicting, Paging, Holding, Copying, OpAt
<1>12. t.pc # "scan" /\ th[p].pc # "user" /\ t.op # "fork"
  BY <1>0, <1>1, <1>9
<1>13. ScanOK'
  BY <1>0, <1>2, <1>12, ScanKept
<1> QED
  BY <1>0, <1>2, <1>8, <1>9, <1>11, <1>12, <1>13, CallStep

-----------------------------------------------------------------------------
(* uvmunmap() and freeproc().                                              *)

\* What a thread knows that is unmapping an address space.
LEMMA Unmapping ==
    ASSUME SwapInv, NEW p \in Procs,
           th[p].pc \in {"unmap", "unlink", "ufree", "uclear", "freeproc"}
    PROVE  /\ TypeOK /\ th[p] \in Threads /\ ThreadOK(p, th[p]) /\ Resume(th[p]) = th[p].pc
           /\ th[p].op \in {"grow", "shrink", "fork", "reap"} /\ th[p].as \in Procs
           /\ th[p].va \in Nat /\ th[p].lim \in Nat /\ th[p].lim <= MaxPages
           /\ th[p].pc \in {"unlink", "ufree", "uclear"} => th[p].va \in Pages
           /\ th[p].pc \in {"unlink", "ufree"} => th[p].mem \in Frames
           /\ th[p].pc = "freeproc" => th[p].op \in {"fork", "reap"}
<1>1. TypeOK /\ th[p] \in Threads /\ ThreadOK(p, th[p]) /\ Resume(th[p]) = th[p].pc
      /\ th[p].op \in OpAt(th[p].pc)
  BY Outside DEF InKalloc
<1>2. th[p].op \in {"grow", "shrink", "fork", "reap"}
      /\ (th[p].pc = "freeproc" => th[p].op \in {"fork", "reap"})
  BY <1>1 DEF OpAt
<1>3. th[p].as \in Procs /\ th[p].va \in Nat /\ th[p].lim \in Nat /\ th[p].lim <= MaxPages
  BY <1>1, <1>2 DEF ThreadOK, Threads
<1>4. th[p].pc \in {"unlink", "ufree", "uclear"} => th[p].va \in Pages
  BY <1>1 DEF ThreadOK, Paging
<1>5. th[p].pc \in {"unlink", "ufree"} => th[p].mem \in Frames
  BY <1>1 DEF ThreadOK, Holding
<1> QED
  BY <1>1, <1>2, <1>3, <1>4, <1>5

\* uvmunmap() goes from label to label.
LEMMA UnmapStep ==
    ASSUME SwapInv, NEW p \in Procs,
           th[p].pc \in {"unmap", "unlink", "ufree", "uclear"},
           NEW t \in Threads, th' = [th EXCEPT ![p] = t],
           t.pc \in {"unmap", "unlink", "ufree", "uclear", "freeproc"},
           t.op = th[p].op, t.as = th[p].as, t.lim = th[p].lim,
           t.pc \in {"unlink", "ufree", "uclear"} => t.va \in Pages,
           t.pc \in {"unlink", "ufree"} => t.mem \in Frames,
           t.pc = "freeproc" => t.op \in {"fork", "reap"},
           UNCHANGED <<state, sz, kpg, lru_lock>>, StoreOK',
           lru' \in Seq(Frames), UNCHANGED lru \/ lru_lock = NULL
    PROVE  SwapInv'
<1>1. TypeOK /\ ThreadOK(p, th[p]) /\ th[p].op \in {"grow", "shrink", "fork", "reap"}
  BY Unmapping
<1>2. Resume(t) = t.pc
  BY DEF Resume, InKalloc
<1>3. ThreadOK(p, t)
  BY <1>1, <1>2
     DEF ThreadOK, InKalloc, Evicting, Paging, Holding, Copying, OpAt
<1>4. t.pc # "scan" /\ th[p].pc # "user" /\ Resume(t) \notin Copying
  BY <1>2 DEF Copying
<1>5. ScanOK'
  BY <1>4, ScanKept
<1>6. lru_lock' \in Procs \union {NULL}
      /\ kpg' \in [Procs -> [KPages -> Frames \union {NULL}]]
      /\ \A c \in Procs : kpg'[c][0] = kpg[c][0]
  BY <1>1 DEF TypeOK
<1> QED
  BY <1>3, <1>4, <1>5, <1>6, CallStep

\* uvmunmap() looks at the next entry.
LEMMA UvmunmapPage ==
    ASSUME SwapInv, NEW p \in Procs, uvmunmap_page(p)
    PROVE  SwapInv'
<1> DEFINE as == th[p].as
           va == th[p].va
           done == va >= th[p].lim
           pte == pt[as][va]
           t == [th[p] EXCEPT !.va = va + 1]
           u == [th[p] EXCEPT !.pc = "unlink", !.mem = pte.n]
           w == [th[p] EXCEPT !.pc = "freeproc"]
<1>0. th[p].pc = "unmap"
  BY DEF uvmunmap_page, At
<1>1. /\ TypeOK /\ th[p] \in Threads
      /\ th[p].op \in {"grow", "shrink", "fork", "reap"} /\ as \in Procs
      /\ va \in Nat /\ th[p].lim \in Nat /\ th[p].lim <= MaxPages
  BY <1>0, Unmapping
<1>2. ~done => va \in Pages
  BY <1>1, SwapAssumption, SMT DEF Pages
<1>3. CASE Panic("uvmunmap: walk") \/ Panic("uvmunmap: not mapped")
  <2>1. {"uvmunmap: walk", "uvmunmap: not mapped"} \subseteq Stops
    BY DEF Stops
  <2> QED
    BY <1>3, <2>1, Panics
<1>4. CASE /\ ~done
           /\ swap_bitmap' = swap_bitmap \ {pte.n}
           /\ pt' = [pt EXCEPT ![as][va] = Unmapped]
           /\ th' = [th EXCEPT ![p].va = va + 1]
           /\ UNCHANGED <<ram, disk, clock, kpg, procs, oops, shadow>>
  <2>1. UNCHANGED <<freelist, mem, disk, lru, lru_lock, pages, kpg, state, sz, oops, shadow>>
        /\ th' = [th EXCEPT ![p] = t] /\ swap_bitmap' \subseteq swap_bitmap
    BY <1>4 DEF ram, clock, procs
  <2>2. pt' \in [Procs -> [Pages -> PTEs]]
    BY <1>1, <1>2, <1>4, PteKinds, PtUpdate
  <2>3. StoreOK' /\ lru' \in Seq(Frames)
    BY <1>1, <2>1, <2>2 DEF StoreOK, TypeOK
  <2>4. /\ t \in Threads
        /\ t.pc = "unmap" /\ t.op = th[p].op /\ t.as = th[p].as /\ t.lim = th[p].lim
    BY <1>0, <1>1, SMT DEF Threads
  <2> HIDE DEF t
  <2> QED
    BY <1>0, <2>1, <2>3, <2>4, UnmapStep
<1>5. CASE /\ ~done /\ pte.k = "mem"
           /\ th' = [th EXCEPT ![p].pc = "unlink", ![p].mem = pte.n]
           /\ UNCHANGED <<ram, swap, clock, tables, procs, oops, shadow>>
  <2>1. UNCHANGED <<freelist, mem, disk, swap_bitmap, lru, lru_lock, pages, pt, kpg, state, sz, oops, shadow>>
        /\ th' = [th EXCEPT ![p] = u]
    BY <1>5 DEF ram, swap, clock, tables, procs
  <2>2. pte \in PTEs
    BY <1>1, <1>2, <1>5 DEF TypeOK
  <2>3. pte.n \in Frames
    BY <1>5, <2>2, PteType
  <2>4. StoreOK' /\ lru' \in Seq(Frames)
    BY <1>1, <2>1 DEF StoreOK, TypeOK
  <2>5. /\ u \in Threads
        /\ u.pc = "unlink" /\ u.op = th[p].op /\ u.as = th[p].as /\ u.lim = th[p].lim
        /\ u.va = va /\ u.mem = pte.n
    BY <1>1, <2>3, ZenonT(30) DEF Threads, Labels
  <2> HIDE DEF u, pte
  <2> QED
    BY <1>0, <1>2, <1>5, <2>1, <2>3, <2>4, <2>5, UnmapStep
<1>6. CASE /\ th' = IF th[p].op \in {"grow", "shrink"} THEN [th EXCEPT ![p] = Idle]
                                                      ELSE [th EXCEPT ![p].pc = "freeproc"]
           /\ sz' = IF th[p].op = "shrink" THEN [sz EXCEPT ![p] = @ - 1] ELSE sz
           /\ UNCHANGED <<ram, swap, clock, tables, state, oops, shadow>>
  <2>1. UNCHANGED <<freelist, mem, disk, swap_bitmap, lru, lru_lock, pages, pt, kpg, state,
                    oops, shadow>>
    BY <1>6 DEF ram, swap, clock, tables
  <2>2. StoreOK' /\ lru' \in Seq(Frames)
    BY <1>1, <2>1 DEF StoreOK, TypeOK
  <2>3. CASE th[p].op \in {"grow", "shrink"}
    <3>1. sz \in [Procs -> 0 .. MaxPages] /\ MaxPages \in Nat
      BY <1>1, SwapAssumption DEF TypeOK
    <3>2. th[p].op = "shrink" => sz[p] > 1
      BY DEF SwapInv, FamilyOK
    <3>3. sz' \in [Procs -> 0 .. MaxPages]
          /\ \A c \in Procs : sz'[c] = sz[c] \/ (c = p /\ sz'[c] > 0)
      <4>1. CASE th[p].op = "shrink"
        <5>1. sz' = [sz EXCEPT ![p] = sz[p] - 1]
          BY <1>6, <4>1
        <5>2. sz[p] - 1 \in 1 .. MaxPages
          BY <3>1, <3>2, <4>1, SMT
        <5> QED
          BY <3>1, <5>1, <5>2, SMT
      <4>2. CASE th[p].op # "shrink"
        BY <1>6, <3>1, <4>2
      <4> QED
        BY <4>1, <4>2
    <3>4. th' = [th EXCEPT ![p] = Idle] /\ th[p].op \notin {"fork", "reap"} /\ th[p].pc # "user"
      BY <1>0, <1>6, <2>3
    <3> QED
      BY <2>1, <2>2, <3>3, <3>4, Returns
  <2>4. CASE th[p].op \in {"fork", "reap"}
    <3>1. th' = [th EXCEPT ![p] = w] /\ UNCHANGED sz
      BY <1>6, <2>4
    <3>2. /\ w \in Threads
          /\ w.pc = "freeproc" /\ w.op = th[p].op /\ w.as = th[p].as /\ w.lim = th[p].lim
      BY <1>1, SMT DEF Threads, Labels
    <3> HIDE DEF w
    <3> QED
      BY <1>0, <2>1, <2>2, <2>4, <3>1, <3>2, UnmapStep
  <2> QED
    BY <1>1, <2>3, <2>4
<1> HIDE DEF as, va, pte, done
<1> QED
  BY <1>3, <1>4, <1>5, <1>6 DEF uvmunmap_page, as, va, pte, done

\* uvmunmap() takes the page off the LRU list.
LEMMA UvmunmapUnlink ==
    ASSUME SwapInv, NEW p \in Procs, uvmunmap_unlink(p)
    PROVE  SwapInv'
<1> DEFINE t == [th[p] EXCEPT !.pc = "ufree"]
<1>0. th[p].pc = "unlink" /\ th' = [th EXCEPT ![p] = t] /\ lru_lock = NULL
      /\ lru' = LruWithout(th[p].mem)
  BY DEF uvmunmap_unlink, At
<1>1. TypeOK /\ th[p] \in Threads /\ th[p].va \in Pages /\ th[p].mem \in Frames
  BY <1>0, Unmapping
<1>2. UNCHANGED <<freelist, mem, disk, swap_bitmap, lru_lock, pages, pt, kpg, state, sz, oops, shadow>>
  BY DEF uvmunmap_unlink, ram, swap, tables, procs
<1>3. lru' \in Seq(Frames)
  BY <1>0, <1>1, LruTypes DEF TypeOK
<1>4. StoreOK'
  BY <1>1, <1>2 DEF StoreOK, TypeOK
<1>5. /\ t \in Threads
      /\ t.pc = "ufree" /\ t.op = th[p].op /\ t.as = th[p].as /\ t.lim = th[p].lim
      /\ t.va = th[p].va /\ t.mem = th[p].mem
  BY <1>1 DEF Threads, Labels
<1> HIDE DEF t
<1> QED
  BY <1>0, <1>1, <1>2, <1>3, <1>4, <1>5, UnmapStep

\* uvmunmap() frees the frame.
LEMMA UvmunmapFree ==
    ASSUME SwapInv, NEW p \in Procs, uvmunmap_free(p)
    PROVE  SwapInv'
<1> DEFINE t == [th[p] EXCEPT !.pc = "uclear", !.mem = NULL]
<1>0. th[p].pc = "ufree" /\ th' = [th EXCEPT ![p] = t] /\ kfree(th[p].mem)
  BY DEF uvmunmap_free, At
<1>1. TypeOK /\ th[p] \in Threads /\ th[p].va \in Pages /\ th[p].mem \in Frames
  BY <1>0, Unmapping
<1>2. UNCHANGED <<disk, swap_bitmap, lru, lru_lock, pages, pt, kpg, state, sz, oops, shadow>>
  BY DEF uvmunmap_free, swap, clock, tables, procs
<1>3. freelist' \in Seq(Frames) /\ mem' \in [Frames -> Data]
  BY <1>0, <1>1, KfreeTypes
<1>4. StoreOK' /\ lru' \in Seq(Frames)
  BY <1>1, <1>2, <1>3 DEF StoreOK, TypeOK
<1>5. /\ t \in Threads
      /\ t.pc = "uclear" /\ t.op = th[p].op /\ t.as = th[p].as /\ t.lim = th[p].lim
      /\ t.va = th[p].va
  BY <1>1 DEF Threads, Labels
<1> HIDE DEF t
<1> QED
  BY <1>0, <1>1, <1>2, <1>4, <1>5, UnmapStep

\* uvmunmap() clears the entry.
LEMMA UvmunmapClear ==
    ASSUME SwapInv, NEW p \in Procs, uvmunmap_clear(p)
    PROVE  SwapInv'
<1> DEFINE n == th[p].va + 1
           t == [th[p] EXCEPT !.pc = "unmap", !.va = n]
<1>0. th[p].pc = "uclear"
  BY DEF uvmunmap_clear, At
<1>1. TypeOK /\ th[p] \in Threads /\ th[p].va \in Pages /\ th[p].va \in Nat /\ th[p].as \in Procs
  BY <1>0, Unmapping
<1>2. UNCHANGED <<freelist, mem, disk, swap_bitmap, lru, lru_lock, pages, kpg, state, sz, oops, shadow>>
      /\ pt' = [pt EXCEPT ![th[p].as][th[p].va] = Unmapped]
      /\ th' = [th EXCEPT ![p] = t]
  BY <1>1 DEF uvmunmap_clear, ram, swap, clock, procs, TypeOK
<1>3. pt' \in [Procs -> [Pages -> PTEs]]
  BY <1>1, <1>2, PteKinds, PtUpdate
<1>4. StoreOK' /\ lru' \in Seq(Frames)
  BY <1>1, <1>2, <1>3 DEF StoreOK, TypeOK
<1>5. n \in Nat
  BY <1>1, SMT
<1> HIDE DEF n
<1>6. /\ t \in Threads
      /\ t.pc = "unmap" /\ t.op = th[p].op /\ t.as = th[p].as /\ t.lim = th[p].lim
  BY <1>1, <1>5 DEF Threads, Labels
<1> HIDE DEF t
<1> QED
  BY <1>0, <1>1, <1>2, <1>4, <1>6, UnmapStep

\* The child of a fork() or wait() is gone: freeproc() at its end, allocproc()
\* without a trapframe.
LEMMA Unused ==
    ASSUME SwapInv, NEW p \in Procs, th[p].op \in {"fork", "reap"},
           th' = [th EXCEPT ![p] = Idle],
           state' = [state EXCEPT ![th[p].as] = "unused"],
           sz' \in [Procs -> 0 .. MaxPages],
           \A d \in Procs \ {th[p].as} : sz'[d] = sz[d],
           UNCHANGED <<kpg, lru, lru_lock>>, StoreOK'
    PROVE  SwapInv'
<1> DEFINE c == th[p].as
<1>1. TypeOK /\ ThreadOK(p, Idle) /\ Idle.pc = "user" /\ Idle.op = "none"
  BY IdleOK DEF SwapInv
<1>2. c \in Procs \ {p} /\ state[c] \in {"used", "zombie"}
      /\ \A q \in Procs : th[q].op \in {"fork", "reap"} => th[q].as \in Procs
  BY DEF SwapInv, LocalsOK, ThreadOK, FamilyOK
<1>3. th'[p] = Idle /\ \A q \in Procs \ {p} : th'[q] = th[q]
  BY <1>1 DEF TypeOK
<1> HIDE DEF c
<1>4. state'[c] = "unused" /\ \A d \in Procs \ {c} : state'[d] = state[d] /\ sz'[d] = sz[d]
  BY <1>1, <1>2 DEF TypeOK, c
<1>5. \A q \in Procs \ {p} : th[q].op \in {"fork", "reap"} => th[q].as # c
  BY DEF SwapInv, FamilyOK, c
<1>6. \A d \in Procs \ {c} : Reaped(d)' <=> Reaped(d)
  BY <1>1, <1>3 DEF Reaped, c
<1>7. \A q \in Procs : th[q].op # "none" \/ th[q].pc # "user" => q # c
  BY <1>2, UserIdle DEF SwapInv, FamilyOK
<1>8. \A q \in Procs : Resume(th[q])' = Resume(th'[q])
  BY DEF Resume
<1>9. FamilyOK'
  <2>1. \A q \in Procs : th'[q].pc # "user" => state'[q] = "live"
    BY <1>1, <1>3, <1>4, <1>7, InKernelLive
  <2>2. \A q \in Procs : state'[q] = "live" => sz'[q] > 0
    BY <1>4, LiveHasPages
  <2>3. \A q \in Procs : th'[q].op = "shrink" => sz'[q] > 1
    BY <1>1, <1>3, <1>4, <1>7, ShrinkHasPages
  <2>4. \A q \in Procs : th'[q].op = "fork" =>
           /\ state'[th'[q].as] = "used"
           /\ Resume(th'[q]) \in Copying => kpg'[th'[q].as][0] \in Frames
    BY <1>1, <1>2, <1>3, <1>4, <1>5, ForkOn, SMT
  <2>5. \A q \in Procs : th'[q].op = "reap" => state'[th'[q].as] = "zombie"
    BY <1>1, <1>2, <1>3, <1>4, <1>5, ReapOn, SMT
  <2>6. \A q, r \in Procs : /\ q # r
                            /\ th'[q].op \in {"fork", "reap"} /\ th'[r].op \in {"fork", "reap"}
                            => th'[q].as # th'[r].as
    BY <1>1, <1>3, OneFamily, SMT
  <2>7. \A d \in Procs : state'[d] \in {"live", "zombie"} /\ ~Reaped(d)' => kpg'[d][0] \in Frames
    BY <1>4, <1>6, HasTrapframe
  <2> QED
    BY <1>8, <2>1, <2>2, <2>3, <2>4, <2>5, <2>6, <2>7 DEF FamilyOK
<1>10. lru' \in Seq(Frames) /\ kpg' \in [Procs -> [KPages -> Frames \union {NULL}]]
       /\ state' \in [Procs -> {"unused", "used", "live", "zombie"}] /\ Idle.pc # "scan"
  BY <1>1 DEF TypeOK
<1> QED
  BY <1>1, <1>9, <1>10, Assemble

-----------------------------------------------------------------------------
(* System calls.                                                           *)

\* allocproc() takes a trapframe and a page table for the child.
LEMMA Allocproc ==
    ASSUME SwapInv, NEW p \in Procs, allocproc(p)
    PROVE  SwapInv'
<1> DEFINE c == th[p].as
           t == [th[p] EXCEPT !.pc = "uvmcopy", !.r = NULL, !.va = 0, !.lim = sz[p]]
<1>0. th[p].pc = "allocproc"
  BY DEF allocproc, At
<1>1. TypeOK /\ th[p] \in Threads /\ ThreadOK(p, th[p]) /\ Resume(th[p]) = th[p].pc
      /\ th[p].op = "fork" /\ c \in Procs \ {p}
  BY <1>0, Outside DEF InKalloc, ThreadOK, OpAt
<1>2. UNCHANGED <<freelist, mem, disk, swap_bitmap, lru, lru_lock, pages, pt, sz, oops, shadow>>
  BY DEF allocproc, ram, swap, clock
<1>3. StoreOK' /\ lru' \in Seq(Frames) /\ sz' \in [Procs -> 0 .. MaxPages]
  BY <1>1, <1>2 DEF StoreOK, TypeOK
<1>4. CASE /\ state' = [state EXCEPT ![c] = "unused"]
           /\ th' = [th EXCEPT ![p] = Idle]
           /\ UNCHANGED kpg
  <2>1. th[p].op \in {"fork", "reap"} /\ \A d \in Procs \ {c} : sz'[d] = sz[d]
    BY <1>1, <1>2
  <2> QED
    BY <1>1, <1>2, <1>3, <1>4, <2>1, Unused
<1>5. CASE /\ th[p].r # NULL
           /\ kpg' = [kpg EXCEPT ![c][0] = th[p].r]
           /\ th' = [th EXCEPT ![p] = t]
           /\ UNCHANGED state
  <2>1. th[p].r \in Frames
    BY <1>1, <1>5 DEF Threads
  <2>2. state[p] = "live" /\ sz[p] > 0 /\ sz[p] \in Nat /\ sz[p] <= MaxPages /\ 0 \in Pages
    <3>1. state[p] = "live" /\ sz[p] > 0
      BY <1>0 DEF SwapInv, FamilyOK
    <3> QED
      BY <1>1, <3>1, SwapAssumption, SMT DEF TypeOK, Pages
  <2>3. /\ t \in Threads
        /\ t.pc = "uvmcopy" /\ t.op = th[p].op /\ t.as = c /\ t.va = 0 /\ t.lim = sz[p]
    BY <1>1, <2>2 DEF Threads, Labels
  <2> HIDE DEF t, c
  <2>4. Resume(t) = "uvmcopy"
    BY <2>3 DEF Resume, InKalloc
  <2>5. ThreadOK(p, t)
    BY <1>1, <2>2, <2>3, <2>4
       DEF ThreadOK, InKalloc, Evicting, Paging, Holding, Copying, OpAt
  <2>6. kpg \in [Procs -> [KPages -> Frames \union {NULL}]]
    BY <1>1 DEF TypeOK
  <2>7. [kpg[c] EXCEPT ![0] = th[p].r] \in [KPages -> Frames \union {NULL}]
    BY <1>1, <2>1, <2>6
  <2>8. kpg' \in [Procs -> [KPages -> Frames \union {NULL}]]
        /\ kpg'[c][0] \in Frames /\ \A d \in Procs \ {c} : kpg'[d] = kpg[d]
    BY <1>1, <1>5, <2>1, <2>6, <2>7, KPagesNat
  <2>9. th'[p] = t /\ \A q \in Procs \ {p} : th'[q] = th[q]
    BY <1>1, <1>5 DEF TypeOK
  <2>10. FamilyOK'
    <3>1. \A q \in Procs : th'[q].op = th[q].op /\ th'[q].as = th[q].as
                           /\ (th'[q].pc # "user" => th[q].pc # "user")
      BY <1>0, <2>3, <2>9 DEF c
    <3>2. \A d \in Procs : Reaped(d)' <=> Reaped(d)
      BY <3>1 DEF Reaped
    <3>3. \A q \in Procs \ {p} : th[q].op = "fork" => th[q].as # c /\ th[q].as \in Procs
      BY <1>1 DEF SwapInv, FamilyOK, LocalsOK, ThreadOK, c
    <3>4. \A q \in Procs : th'[q].op = "fork" =>
             /\ state'[th'[q].as] = "used"
             /\ Resume(th'[q]) \in Copying => kpg'[th'[q].as][0] \in Frames
      BY <1>5, <2>3, <2>8, <2>9, <3>1, <3>3, ForkOn, SMT
    <3>5. \A d \in Procs : state'[d] \in {"live", "zombie"} /\ ~Reaped(d)' => kpg'[d][0] \in Frames
      BY <1>5, <2>8, <3>2, HasTrapframe
    <3>6. \A q \in Procs : Resume(th[q])' = Resume(th'[q])
      BY DEF Resume
    <3> QED
      BY <1>2, <1>5, <3>1, <3>4, <3>5, <3>6, SMT DEF SwapInv, FamilyOK
  <2>11. state' \in [Procs -> {"unused", "used", "live", "zombie"}] /\ t.pc # "scan"
    BY <1>1, <1>5, <2>3 DEF TypeOK
  <2> QED
    BY <1>2, <1>3, <1>5, <2>5, <2>8, <2>10, <2>11, Assemble
<1> QED
  BY <1>4, <1>5 DEF allocproc

\* A process in user mode enters the kernel, for anything but fork() and wait().
LEMMA Enters ==
    ASSUME SwapInv, NEW p \in Procs, User(p), NEW t, ThreadOK(p, t),
           th' = [th EXCEPT ![p] = t], t.pc # "scan", t.op \notin {"fork", "reap"},
           t.op = "shrink" => sz[p] > 1,
           UNCHANGED <<lru, lru_lock, kpg, state, sz>>, StoreOK'
    PROVE  SwapInv'
<1>1. TypeOK /\ state[p] = "live" /\ th[p] = Idle /\ Idle.op = "none"
  BY DEF User, At, SwapInv, LocalsOK, ThreadOK, Idle
<1>2. th'[p] = t /\ \A q \in Procs \ {p} : th'[q] = th[q]
  BY <1>1 DEF TypeOK
<1>3. \A c \in Procs : Reaped(c)' <=> Reaped(c)
  BY <1>1, <1>2 DEF Reaped
<1>4. \A q \in Procs : Resume(th[q])' = Resume(th'[q])
  BY DEF Resume
<1>5. FamilyOK'
  <2>1. \A q \in Procs : th'[q].op \in {"fork", "reap"} => th'[q] = th[q]
    BY <1>2
  <2>2. \A q \in Procs : th'[q].pc # "user" => state'[q] = "live"
    BY <1>1, <1>2, InKernelLive
  <2>3. \A q \in Procs : state'[q] = "live" => sz'[q] > 0
    BY LiveHasPages
  <2>4. \A q \in Procs : th'[q].op = "shrink" => sz'[q] > 1
    BY <1>2, ShrinkHasPages
  <2>5. \A q \in Procs : th'[q].op = "fork" =>
           /\ state'[th'[q].as] = "used"
           /\ Resume(th'[q]) \in Copying => kpg'[th'[q].as][0] \in Frames
    BY <2>1, ForkOn
  <2>6. \A q \in Procs : th'[q].op = "reap" => state'[th'[q].as] = "zombie"
    BY <2>1, ReapOn
  <2>7. \A q, r \in Procs : /\ q # r
                            /\ th'[q].op \in {"fork", "reap"} /\ th'[r].op \in {"fork", "reap"}
                            => th'[q].as # th'[r].as
    BY <2>1, OneFamily, SMT
  <2>8. \A d \in Procs : state'[d] \in {"live", "zombie"} /\ ~Reaped(d)' => kpg'[d][0] \in Frames
    BY <1>3, HasTrapframe
  <2> QED
    BY <1>4, <2>2, <2>3, <2>4, <2>5, <2>6, <2>7, <2>8 DEF FamilyOK
<1>6. lru' \in Seq(Frames) /\ kpg' \in [Procs -> [KPages -> Frames \union {NULL}]]
      /\ sz' \in [Procs -> 0 .. MaxPages]
      /\ state' \in [Procs -> {"unused", "used", "live", "zombie"}]
  BY <1>1 DEF TypeOK
<1> QED
  BY <1>5, <1>6, Assemble

\* What a thread in user mode looks like.
LEMMA InUser ==
    ASSUME SwapInv, NEW p \in Procs, User(p)
    PROVE  /\ TypeOK /\ state[p] = "live" /\ th[p] = Idle /\ th[p] \in Threads
           /\ th[p].op = "none" /\ th[p].lim = 0 /\ th[p].as = NULL /\ th[p].pc = "user"
           /\ sz[p] \in Nat /\ sz[p] <= MaxPages /\ MaxPages \in Nat
<1>1. TypeOK /\ state[p] = "live" /\ th[p] = Idle /\ th[p] \in Threads
  BY DEF User, At, SwapInv, LocalsOK, ThreadOK
<1>2. Idle.op = "none" /\ Idle.lim = 0 /\ Idle.as = NULL /\ Idle.pc = "user"
  BY DEF Idle
<1>3. MaxPages \in Nat /\ sz[p] \in 0 .. MaxPages
  BY <1>1, SwapAssumption DEF TypeOK
<1> QED
  BY <1>1, <1>2, <1>3, SMT

\* The labels the proofs name are labels.
LEMMA Names ==
    /\ "kalloc" \in Labels /\ "uvmalloc" \in Labels /\ "unmap" \in Labels
    /\ "copyout" \in Labels /\ "efault" \in Labels /\ "swapin" \in Labels
    /\ "allocproc" \in Labels
    /\ "grow" \in Ops /\ "shrink" \in Ops /\ "fork" \in Ops /\ "reap" \in Ops
    /\ "fault" \in Ops /\ "copy" \in Ops
BY DEF Labels, Ops

\* A page fault enters usertrap().
LEMMA Fault ==
    ASSUME SwapInv, NEW p \in Procs, NEW va \in Pages, fault(p, va)
    PROVE  SwapInv'
<1> DEFINE t == [th[p] EXCEPT !.pc = "kalloc", !.ret = "swapin", !.op = "fault", !.as = p,
                              !.va = va, !.src = pt[p][va]]
<1>0. User(p)
  BY DEF fault
<1>1. TypeOK /\ state[p] = "live" /\ th[p] \in Threads /\ th[p].op = "none" /\ th[p].lim = 0
      /\ MaxPages \in Nat /\ pt[p][va] \in PTEs /\ va \in Nat
  BY <1>0, InUser, SMT DEF TypeOK, Pages
<1>2. CASE Exits(p)
  BY <1>1, <1>2, ExitStep
<1>3. CASE /\ pt[p][va].k = "swap"
           /\ th' = [CallKalloc(p, "swapin") EXCEPT
                       ![p].op = "fault", ![p].as = p, ![p].va = va, ![p].src = pt[p][va]]
           /\ UNCHANGED <<ram, swap, clock, tables, procs, oops, shadow>>
  <2>1. th' = [th EXCEPT ![p] = t]
    BY <1>1, <1>3 DEF CallKalloc, TypeOK
  <2>2. UNCHANGED <<freelist, mem, disk, swap_bitmap, lru, lru_lock, pages, pt, kpg, state, sz, oops, shadow>>
    BY <1>3 DEF ram, swap, clock, tables, procs
  <2>3. /\ t \in Threads
        /\ t.pc = "kalloc" /\ t.ret = "swapin" /\ t.op = "fault" /\ t.as = p /\ t.va = va
        /\ t.src = pt[p][va] /\ t.lim = 0
    BY <1>1, Names DEF Threads
  <2> HIDE DEF t
  <2>4. Resume(t) = "swapin"
    BY <2>3 DEF Resume, InKalloc
  <2>5. ThreadOK(p, t)
    BY <1>1, <1>3, <2>3, <2>4, SMT
       DEF ThreadOK, InKalloc, Evicting, Paging, Holding, Copying, OpAt, Callers
  <2>6. StoreOK'
    BY <1>1, <2>2 DEF StoreOK, TypeOK
  <2>7. t.pc # "scan" /\ t.op \notin {"fork", "reap"} /\ t.op # "shrink"
    BY <2>3
  <2> QED
    BY <1>0, <2>1, <2>2, <2>5, <2>6, <2>7, Enters
<1> QED
  BY <1>2, <1>3 DEF fault

\* sbrk() with a positive argument enters uvmalloc().
LEMMA SbrkGrow ==
    ASSUME SwapInv, NEW p \in Procs, NEW n \in 1 .. GrowMax, sbrk_grow(p, n)
    PROVE  SwapInv'
<1> DEFINE lim == sz[p] + n
           t == [th[p] EXCEPT !.pc = "kalloc", !.ret = "uvmalloc", !.op = "grow", !.as = p,
                              !.va = sz[p], !.lim = lim]
<1>0. User(p) /\ lim <= MaxPages
  BY DEF sbrk_grow
<1>1. TypeOK /\ state[p] = "live" /\ th[p] \in Threads /\ sz[p] \in Nat /\ MaxPages \in Nat
  BY <1>0, InUser
<1>2. n \in Nat /\ n > 0
  BY SwapAssumption, SMT
<1>3. lim \in Nat /\ sz[p] < lim /\ sz[p] \in Pages
  BY <1>0, <1>1, <1>2, SMT DEF Pages
<1> HIDE DEF lim
<1>4. th' = [th EXCEPT ![p] = t]
  BY <1>1 DEF sbrk_grow, CallKalloc, TypeOK, lim
<1>5. /\ t \in Threads
      /\ t.pc = "kalloc" /\ t.ret = "uvmalloc" /\ t.op = "grow" /\ t.as = p /\ t.va = sz[p]
      /\ t.lim = lim
  BY <1>1, <1>3, Names DEF Threads
<1> HIDE DEF t
<1>6. Resume(t) = "uvmalloc"
  BY <1>5 DEF Resume, InKalloc
<1>7. ThreadOK(p, t)
  BY <1>0, <1>1, <1>3, <1>5, <1>6
     DEF ThreadOK, InKalloc, Evicting, Paging, Holding, Copying, OpAt, Callers
<1>8. UNCHANGED <<freelist, mem, disk, swap_bitmap, lru, lru_lock, pages, pt, kpg, state, sz, oops>>
  BY DEF sbrk_grow, ram, swap, clock, tables, procs
<1>9. shadow' \in [Procs -> [Pages -> Data]]
  <2>1. shadow \in [Procs -> [Pages -> Data]] /\ Zero \in Data
    BY <1>1 DEF TypeOK, Data
  <2>2. [va \in Pages |-> IF va < sz[p] THEN shadow[p][va] ELSE Zero] \in [Pages -> Data]
    BY <2>1
  <2> QED
    BY <2>1, <2>2 DEF sbrk_grow
<1>10. StoreOK'
  BY <1>1, <1>8, <1>9 DEF StoreOK, TypeOK
<1>11. t.pc # "scan" /\ t.op \notin {"fork", "reap"} /\ t.op # "shrink"
  BY <1>5
<1> QED
  BY <1>0, <1>4, <1>7, <1>8, <1>10, <1>11, Enters

\* sbrk() with a negative argument enters uvmdealloc().
LEMMA SbrkShrink ==
    ASSUME SwapInv, NEW p \in Procs, sbrk_shrink(p)
    PROVE  SwapInv'
<1> DEFINE v == sz[p] - 1
           t == [th[p] EXCEPT !.pc = "unmap", !.op = "shrink", !.as = p, !.va = v, !.lim = sz[p]]
<1>0. User(p) /\ sz[p] > 1
  BY DEF sbrk_shrink
<1>1. TypeOK /\ state[p] = "live" /\ th[p] \in Threads /\ sz[p] \in Nat /\ sz[p] <= MaxPages
  BY <1>0, InUser
<1>2. v \in Nat
  BY <1>0, <1>1, SMT
<1> HIDE DEF v
<1>3. UNCHANGED <<freelist, mem, disk, swap_bitmap, lru, lru_lock, pages, pt, kpg, state, sz, oops, shadow>>
      /\ th' = [th EXCEPT ![p] = t]
  BY <1>1 DEF sbrk_shrink, ram, swap, clock, tables, procs, TypeOK, v
<1>4. /\ t \in Threads
      /\ t.pc = "unmap" /\ t.op = "shrink" /\ t.as = p /\ t.lim = sz[p]
  BY <1>1, <1>2, Names DEF Threads
<1> HIDE DEF t
<1>5. Resume(t) = "unmap"
  BY <1>4 DEF Resume, InKalloc
<1>6. ThreadOK(p, t)
  BY <1>1, <1>4, <1>5
     DEF ThreadOK, InKalloc, Evicting, Paging, Holding, Copying, OpAt
<1>7. StoreOK'
  BY <1>1, <1>3 DEF StoreOK, TypeOK
<1>8. t.pc # "scan" /\ t.op \notin {"fork", "reap"}
  BY <1>4
<1> QED
  BY <1>0, <1>3, <1>6, <1>7, <1>8, Enters

=============================================================================
