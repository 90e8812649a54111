---------------------------- MODULE SwapVMProofs ----------------------------
(***************************************************************************)
(* alloc_swap_slot(), freeproc(), copyin(), copyout(), fork(), wait() and  *)
(* the memory accesses of user programs keep SwapInv, and the theorems     *)
(* about SwapVM that follow.                                               *)
(***************************************************************************)
EXTENDS SwapVMInv, FiniteSetTheorems, WellFoundedInduction

\* Zenon proves most leaves; the others name their prover.
USE Zenon

-----------------------------------------------------------------------------
(* The lowest free slot, the lowest page-table page.                       *)

\* A listing of a finite set of frames is a sequence of frames.
LEMMA ListingType ==
    ASSUME NEW S, NEW T, T \in SUBSET S, IsFiniteSet(T)
    PROVE  Listing(T) \in Seq(S)
<1>1. Cardinality(T) \in Nat /\ ExistsBijection(1 .. Cardinality(T), T)
  BY FS_CardinalityType
<1>2. Listing(T) \in Bijection(1 .. Cardinality(T), T)
  BY <1>1 DEF Listing, ExistsBijection
<1>3. Listing(T) \in [1 .. Cardinality(T) -> T]
  BY <1>2 DEF Bijection, Injection
<1> QED
  BY <1>1, <1>3, SMT

\* A non-empty set of naturals has a least element.
LEMMA Least ==
    ASSUME NEW S \in SUBSET Nat, S # {}
    PROVE  \E m \in S : \A n \in S : m <= n
<1>1. PICK m \in S : \A n \in S : ~(<<n, m>> \in OpToRel(<, Nat))
  BY NatLessThanWellFounded, WFMin
<1>2. ASSUME NEW n \in S PROVE m <= n
  <2>1. m \in Nat /\ n \in Nat /\ <<n, m>> \in Nat \X Nat
    OBVIOUS
  <2>2. n < m => <<n, m>> \in OpToRel(<, Nat)
    BY <2>1 DEF OpToRel
  <2>3. ~(n < m)
    BY <1>1, <2>2
  <2> QED
    BY <2>1, <2>3, SMT
<1> QED
  BY <1>2

\* alloc_swap_slot() returns a slot that is free.
LEMMA SlotType ==
    ASSUME Slots \ swap_bitmap # {}
    PROVE  alloc_swap_slot \in Slots \ swap_bitmap
<1>1. Slots \ swap_bitmap \in SUBSET Nat
  BY SwapAssumption, SMT DEF Slots
<1>2. \E s \in Slots \ swap_bitmap : \A t \in Slots \ swap_bitmap : s <= t
  BY <1>1, Least
<1> QED
  BY <1>2 DEF alloc_swap_slot

\* swapout() takes a swap slot.
LEMMA SwapoutSlot ==
    ASSUME SwapInv, NEW p \in Procs, swapout_slot(p)
    PROVE  SwapInv'
<1> DEFINE t == [th[p] EXCEPT !.pc = "putback"]
           u == [th[p] EXCEPT !.pc = "write", !.slot = alloc_swap_slot]
<1>1. TypeOK /\ th[p] \in Threads /\ th[p].pc = "slot" /\ th[p].pc \in InKalloc
      /\ th[p].vic \in Frames
  BY DEF swapout_slot, At, SwapInv, LocalsOK, ThreadOK, InKalloc, Evicting
<1>2. UNCHANGED <<freelist, mem, disk, lru, lru_lock, pages, pt, kpg, state, sz, oops, shadow>>
  BY DEF swapout_slot, ram, clock, tables, procs
<1>3. CASE th' = [th EXCEPT ![p] = t] /\ UNCHANGED swap_bitmap
  <2>1. /\ t \in Threads
        /\ t.pc = "putback" /\ t.op = th[p].op /\ t.as = th[p].as /\ t.va = th[p].va
        /\ t.lim = th[p].lim /\ t.mem = th[p].mem /\ t.src = th[p].src /\ t.ret = th[p].ret
        /\ t.vic = th[p].vic
    BY <1>1, ZenonT(30) DEF Threads, Labels
  <2>2. StoreOK' /\ lru' \in Seq(Frames) /\ lru_lock' \in Procs \union {NULL}
    BY <1>1, <1>2, <1>3 DEF StoreOK, TypeOK
  <2> HIDE DEF t
  <2>3. t.pc \in InKalloc /\ t.pc \notin {"write", "evict", "scan"}
    BY <2>1 DEF InKalloc
  <2>4. ScanOK'
    BY <1>2, <1>3, <2>3, ScanKept
  <2> QED
    BY <1>1, <1>2, <1>3, <2>1, <2>2, <2>3, <2>4, KallocStep
<1>4. CASE /\ Slots \ swap_bitmap # {}
           /\ swap_bitmap' = swap_bitmap \union {alloc_swap_slot}
           /\ th' = [th EXCEPT ![p] = u]
  <2>0. alloc_swap_slot \in Slots
    BY <1>4, SlotType
  <2>1. /\ u \in Threads
        /\ u.pc = "write" /\ u.op = th[p].op /\ u.as = th[p].as /\ u.va = th[p].va
        /\ u.lim = th[p].lim /\ u.mem = th[p].mem /\ u.src = th[p].src /\ u.ret = th[p].ret
        /\ u.vic = th[p].vic /\ u.slot = alloc_swap_slot
    BY <1>1, <2>0, ZenonT(30) DEF Threads, Labels
  <2>2. StoreOK' /\ lru' \in Seq(Frames) /\ lru_lock' \in Procs \union {NULL}
    BY <1>1, <1>2, <1>4, <2>0 DEF StoreOK, TypeOK
  <2> HIDE DEF u
  <2>3. u.pc \in InKalloc /\ u.pc # "scan"
    BY <2>1 DEF InKalloc
  <2>4. ScanOK'
    BY <1>2, <1>4, <2>3, ScanKept
  <2> QED
    BY <1>1, <1>2, <1>4, <2>0, <2>1, <2>2, <2>3, <2>4, KallocStep
<1> QED
  BY <1>3, <1>4 DEF swapout_slot

\* freeproc() frees the trapframe and the page-table pages.
LEMMA Freeproc ==
    ASSUME SwapInv, NEW p \in Procs, freeproc(p)
    PROVE  SwapInv'
<1> DEFINE as == th[p].as
           left == {k \in KPages : kpg[as][k] # NULL}
           k == CHOOSE i \in left : \A j \in left : i <= j
           under == {va \in Pages : Leaf(va) = k}
<1>0. th[p].pc = "freeproc"
  BY DEF freeproc, At
<1>1. TypeOK /\ ThreadOK(p, th[p]) /\ Resume(th[p]) = "freeproc" /\ as \in Procs
      /\ th[p].op \in {"fork", "reap"}
  BY <1>0, Unmapping
<1>2. CASE Panic("freewalk: leaf")
  <2>1. "freewalk: leaf" \in Stops
    BY DEF Stops
  <2> QED
    BY <1>2, <2>1, Panics
<1>3. CASE /\ left # {}
           /\ kfree(kpg[as][k])
           /\ kpg' = [kpg EXCEPT ![as][k] = NULL]
           /\ pt' = [pt EXCEPT ![as] = [va \in Pages |-> IF va \in under THEN Unmapped
                                                                        ELSE pt[as][va]]]
           /\ UNCHANGED <<swap, clock, procs, th, oops, shadow>>
  <2>1. UNCHANGED <<disk, swap_bitmap, lru, lru_lock, pages, state, sz, oops, shadow, th>>
    BY <1>3 DEF swap, clock, procs
  <2>2. left \in SUBSET Nat
    BY KPagesNat
  <2>3. \E i \in left : \A j \in left : i <= j
    BY <1>3, <2>2, Least
  <2>4. k \in left
    BY <2>3
  <2> HIDE DEF k
  <2>5. kpg \in [Procs -> [KPages -> Frames \union {NULL}]] /\ pt \in [Procs -> [Pages -> PTEs]]
    BY <1>1 DEF TypeOK
  <2>6. k \in KPages /\ kpg[as][k] \in Frames
    BY <1>1, <2>4, <2>5
  <2>7. freelist' \in Seq(Frames) /\ mem' \in [Frames -> Data]
    BY <1>1, <1>3, <2>6, KfreeTypes
  <2>8. [va \in Pages |-> IF va \in under THEN Unmapped ELSE pt[as][va]] \in [Pages -> PTEs]
    BY <1>1, <2>5, PteKinds
  <2> HIDE DEF under
  <2>9. pt' \in [Procs -> [Pages -> PTEs]]
    BY <1>1, <1>3, <2>5, <2>8
  <2>10. [kpg[as] EXCEPT ![k] = NULL] \in [KPages -> Frames \union {NULL}]
    BY <1>1, <2>5
  <2>11. kpg' \in [Procs -> [KPages -> Frames \union {NULL}]]
         /\ \A d \in Procs \ {as} : kpg'[d] = kpg[d]
    BY <1>1, <1>3, <2>5, <2>10
  <2>12. StoreOK' /\ lru' \in Seq(Frames) /\ sz' \in [Procs -> 0 .. MaxPages]
         /\ state' \in [Procs -> {"unused", "used", "live", "zombie"}]
    BY <1>1, <2>1, <2>7, <2>9 DEF StoreOK, TypeOK
  <2>13. th' = [th EXCEPT ![p] = th[p]] /\ th[p].pc # "scan"
    BY <1>0, <1>1, <2>1 DEF TypeOK
  <2>14. FamilyOK'
    <3>1. \A q \in Procs : th[q].op = "fork" /\ Resume(th[q]) \in Copying
                             => q # p /\ th[q].as # as /\ th[q].as \in Procs
      <4>1. "freeproc" \notin Copying
        BY DEF Copying
      <4>2. \A q \in Procs : th[q].op = "fork" => th[q].as \in Procs
        BY DEF SwapInv, LocalsOK, ThreadOK
      <4> QED
        BY <1>1, <4>1, <4>2, OneFamily
    <3>2. \A q \in Procs : th'[q].op = "fork" =>
             /\ state'[th'[q].as] = "used"
             /\ Resume(th'[q]) \in Copying => kpg'[th'[q].as][0] \in Frames
      BY <2>1, <2>11, <3>1, ForkOn
    <3>3. \A d \in Procs : Reaped(d)' <=> Reaped(d)
      BY <2>1 DEF Reaped
    <3>4. state[as] \in {"live", "zombie"} => Reaped(as)
      BY <1>1 DEF SwapInv, FamilyOK, Reaped
    <3>5. \A d \in Procs : state'[d] \in {"live", "zombie"} /\ ~Reaped(d)' => kpg'[d][0] \in Frames
      BY <2>1, <2>11, <3>3, <3>4, HasTrapframe
    <3>6. \A q \in Procs : Resume(th[q])' = Resume(th'[q])
      BY DEF Resume
    <3> QED
      BY <2>1, <3>2, <3>5, <3>6 DEF SwapInv, FamilyOK
  <2> QED
    BY <1>1, <2>1, <2>11, <2>12, <2>13, <2>14, Assemble
<1>4. CASE /\ state' = [state EXCEPT ![as] = "unused"]
           /\ sz' = [sz EXCEPT ![as] = 0]
           /\ th' = [th EXCEPT ![p] = Idle]
           /\ UNCHANGED <<ram, swap, clock, tables, oops, shadow>>
  <2>1. UNCHANGED <<freelist, mem, disk, swap_bitmap, lru, lru_lock, pages, pt, kpg, oops, shadow>>
    BY <1>4 DEF ram, swap, clock, tables
  <2>2. StoreOK'
    BY <1>1, <2>1 DEF StoreOK, TypeOK
  <2>3. sz \in [Procs -> 0 .. MaxPages] /\ 0 \in 0 .. MaxPages
    BY <1>1, SwapAssumption, SMT DEF TypeOK
  <2>4. sz' \in [Procs -> 0 .. MaxPages] /\ \A d \in Procs \ {as} : sz'[d] = sz[d]
    BY <1>1, <1>4, <2>3
  <2> QED
    BY <1>1, <1>4, <2>1, <2>2, <2>4, Unused
<1> HIDE DEF as, left, k, under
<1> QED
  BY <1>2, <1>3, <1>4 DEF freeproc, as, left, k, under

-----------------------------------------------------------------------------
(* copyin() and copyout(), fork(), wait().                                 *)

\* copyin() and copyout() look up the page.
LEMMA CopyWalk ==
    ASSUME SwapInv, NEW p \in Procs, NEW va \in Pages, copy_walk(p, va)
    PROVE  SwapInv'
<1> DEFINE t == [th[p] EXCEPT !.pc = "copyout", !.op = "copy", !.va = va, !.src = pt[p][va]]
           u == [th[p] EXCEPT !.pc = "efault", !.op = "copy", !.va = va]
<1>0. User(p)
  BY DEF copy_walk
<1>1. TypeOK /\ th[p] \in Threads /\ th[p].lim = 0 /\ MaxPages \in Nat /\ va \in Nat
      /\ pt[p][va] \in PTEs
  BY <1>0, InUser, SMT DEF TypeOK, Pages
<1>2. UNCHANGED <<freelist, mem, disk, swap_bitmap, lru, lru_lock, pages, pt, kpg, state, sz, oops, shadow>>
  BY DEF copy_walk, ram, swap, clock, tables, procs
<1>3. StoreOK'
  BY <1>1, <1>2 DEF StoreOK, TypeOK
<1>4. /\ t \in Threads
      /\ t.pc = "copyout" /\ t.op = "copy" /\ t.va = va /\ t.src = pt[p][va] /\ t.lim = 0
  BY <1>1, Names DEF Threads
<1>5. u \in Threads /\ u.pc = "efault" /\ u.op = "copy" /\ u.lim = 0
  BY <1>1, Names DEF Threads
<1>6. CASE pt[p][va].k = "mem" /\ th' = [th EXCEPT ![p] = t]
  <2> HIDE DEF t
  <2>1. Resume(t) = "copyout"
    BY <1>4 DEF Resume, InKalloc
  <2>2. ThreadOK(p, t)
    BY <1>1, <1>4, <1>6, <2>1, SMT
       DEF ThreadOK, InKalloc, Evicting, Paging, Holding, Copying, OpAt
  <2>3. t.pc # "scan" /\ t.op \notin {"fork", "reap"} /\ t.op # "shrink"
    BY <1>4
  <2> QED
    BY <1>0, <1>2, <1>3, <1>6, <2>2, <2>3, Enters
<1>7. CASE th' = [th EXCEPT ![p] = u]
  <2> HIDE DEF u
  <2>1. Resume(u) = "efault"
    BY <1>5 DEF Resume, InKalloc
  <2>2. ThreadOK(p, u)
    BY <1>1, <1>5, <2>1, SMT
       DEF ThreadOK, InKalloc, Evicting, Paging, Holding, Copying, OpAt
  <2>3. u.pc # "scan" /\ u.op \notin {"fork", "reap"} /\ u.op # "shrink"
    BY <1>5
  <2> QED
    BY <1>0, <1>2, <1>3, <1>7, <2>2, <2>3, Enters
<1> QED
  BY <1>6, <1>7 DEF copy_walk

\* copyout() stores through the physical address.
LEMMA CopyMove ==
    ASSUME SwapInv, NEW p \in Procs, NEW v \in Vals, copy_move(p, v)
    PROVE  SwapInv'
<1>0. th[p].pc = "copyout" /\ th' = [th EXCEPT ![p] = Idle]
  BY DEF copy_move, At
<1>1. TypeOK /\ th[p] \in Threads /\ th[p].op = "copy" /\ th[p].va \in Pages
      /\ th[p].src.k = "mem" /\ th[p].src \in PTEs
  BY <1>0, Outside DEF InKalloc, ThreadOK, OpAt, Paging, Threads
<1>2. th[p].src.n \in Frames /\ v \in Data
  BY <1>1, PteType DEF Data
<1>3. UNCHANGED <<freelist, disk, swap_bitmap, lru, lru_lock, pages, pt, kpg, state, sz, oops>>
      /\ mem' = [mem EXCEPT ![th[p].src.n] = v]
      /\ shadow' = [shadow EXCEPT ![p][th[p].va] = v]
  BY DEF copy_move, swap, clock, tables, procs
<1>4. mem' \in [Frames -> Data]
  BY <1>1, <1>2, <1>3 DEF TypeOK
<1>5. shadow' \in [Procs -> [Pages -> Data]]
  <2>1. [shadow[p] EXCEPT ![th[p].va] = v] \in [Pages -> Data]
    BY <1>1, <1>2 DEF TypeOK
  <2> QED
    BY <1>1, <1>3, <2>1 DEF TypeOK
<1>6. StoreOK' /\ lru' \in Seq(Frames) /\ sz' \in [Procs -> 0 .. MaxPages]
  BY <1>1, <1>3, <1>4, <1>5 DEF StoreOK, TypeOK
<1>7. th[p].pc # "user" /\ th[p].op \notin {"fork", "reap"}
  BY <1>0, <1>1
<1> QED
  BY <1>0, <1>3, <1>6, <1>7, Returns

\* A system call returns -1 for a page it does not find.
LEMMA CopyFail ==
    ASSUME SwapInv, NEW p \in Procs, copy_fail(p)
    PROVE  SwapInv'
<1>0. th[p].pc = "efault" /\ th' = [th EXCEPT ![p] = Idle]
  BY DEF copy_fail, At
<1>1. TypeOK /\ th[p].op = "copy"
  BY <1>0, Outside DEF InKalloc, OpAt
<1>2. UNCHANGED <<freelist, mem, disk, swap_bitmap, lru, lru_lock, pages, pt, kpg, state, sz, oops, shadow>>
  BY DEF copy_fail, ram, swap, clock, tables, procs
<1>3. StoreOK' /\ lru' \in Seq(Frames) /\ sz' \in [Procs -> 0 .. MaxPages]
  BY <1>1, <1>2 DEF StoreOK, TypeOK
<1>4. th[p].pc # "user" /\ th[p].op \notin {"fork", "reap"}
  BY <1>0, <1>1
<1> QED
  BY <1>0, <1>2, <1>3, <1>4, Returns

\* fork() enters allocproc().
LEMMA Fork ==
    ASSUME SwapInv, NEW p \in Procs, NEW c \in Procs, fork(p, c)
    PROVE  SwapInv'
<1> DEFINE t == [th[p] EXCEPT !.pc = "kalloc", !.ret = "allocproc", !.op = "fork", !.as = c]
<1>0. User(p) /\ state[c] = "unused"
  BY DEF fork
<1>1. TypeOK /\ state[p] = "live" /\ th[p] \in Threads /\ th[p].op = "none" /\ th[p].lim = 0
      /\ MaxPages \in Nat
  BY <1>0, InUser
<1>2. p # c
  BY <1>0, <1>1
<1>3. UNCHANGED <<freelist, mem, disk, swap_bitmap, lru, lru_lock, pages, pt, kpg, sz, oops>>
      /\ state' = [state EXCEPT ![c] = "used"]
      /\ shadow' = [shadow EXCEPT ![c] = shadow[p]]
      /\ th' = [th EXCEPT ![p] = t]
  BY <1>1 DEF fork, CallKalloc, ram, swap, clock, tables, TypeOK
<1>4. /\ t \in Threads
      /\ t.pc = "kalloc" /\ t.ret = "allocproc" /\ t.op = "fork" /\ t.as = c /\ t.lim = 0
  BY <1>1, Names DEF Threads
<1> HIDE DEF t
<1>5. Resume(t) = "allocproc"
  BY <1>4 DEF Resume, InKalloc
<1>6. ThreadOK(p, t)
  BY <1>1, <1>2, <1>4, <1>5, SMT
     DEF ThreadOK, InKalloc, Evicting, Paging, Holding, Copying, OpAt, Callers
<1>7. th'[p] = t /\ \A q \in Procs \ {p} : th'[q] = th[q]
  BY <1>1, <1>3 DEF TypeOK
<1>8. state'[c] = "used" /\ \A q \in Procs \ {c} : state'[q] = state[q]
  BY <1>1, <1>3 DEF TypeOK
<1>9. FamilyOK'
  <2>1. \A d \in Procs : Reaped(d)' <=> Reaped(d)
    BY <1>1, <1>4, <1>7 DEF Reaped
  <2>2. \A q \in Procs \ {p} : th[q].op \in {"fork", "reap"} => th[q].as # c /\ th[q].as \in Procs
    BY <1>0 DEF SwapInv, FamilyOK, LocalsOK, ThreadOK
  <2>3. \A q \in Procs : th'[q].pc # "user" => state'[q] = "live"
    BY <1>0, <1>1, <1>2, <1>7, <1>8, InKernelLive
  <2>4. \A q \in Procs : state'[q] = "live" => sz'[q] > 0
    BY <1>3, <1>8, LiveHasPages
  <2>5. \A q \in Procs : th'[q].op = "shrink" => sz'[q] > 1
    BY <1>3, <1>4, <1>7, ShrinkHasPages
  <2>6. \A q \in Procs : th'[q].op = "fork" =>
           /\ state'[th'[q].as] = "used"
           /\ Resume(th'[q]) \in Copying => kpg'[th'[q].as][0] \in Frames
    <3>1. Resume(t) \notin Copying
      BY <1>5 DEF Copying
    <3> QED
      BY <1>3, <1>4, <1>7, <1>8, <2>2, <3>1, SMT DEF SwapInv, FamilyOK
  <2>7. \A q \in Procs : th'[q].op = "reap" => state'[th'[q].as] = "zombie"
    BY <1>4, <1>7, <1>8, <2>2, ReapOn, SMT
  <2>8. \A q, r \in Procs : /\ q # r
                            /\ th'[q].op \in {"fork", "reap"} /\ th'[r].op \in {"fork", "reap"}
                            => th'[q].as # th'[r].as
    BY <1>4, <1>7, <2>2, OneFamily, SMT
  <2>9. \A d \in Procs : state'[d] \in {"live", "zombie"} /\ ~Reaped(d)' => kpg'[d][0] \in Frames
    BY <1>3, <1>8, <2>1, HasTrapframe
  <2>10. \A q \in Procs : Resume(th[q])' = Resume(th'[q])
    BY DEF Resume
  <2> QED
    BY <2>3, <2>4, <2>5, <2>6, <2>7, <2>8, <2>9, <2>10 DEF FamilyOK
<1>10. shadow' \in [Procs -> [Pages -> Data]]
  BY <1>1, <1>3 DEF TypeOK
<1>11. StoreOK' /\ lru' \in Seq(Frames) /\ sz' \in [Procs -> 0 .. MaxPages]
       /\ kpg' \in [Procs -> [KPages -> Frames \union {NULL}]]
       /\ state' \in [Procs -> {"unused", "used", "live", "zombie"}]
  BY <1>1, <1>3, <1>10 DEF StoreOK, TypeOK
<1>12. t.pc # "scan"
  BY <1>4
<1> QED
  BY <1>3, <1>6, <1>9, <1>11, <1>12, Assemble

\* wait() starts to free a zombie.
LEMMA Wait ==
    ASSUME SwapInv, NEW p \in Procs, NEW c \in Procs, wait(p, c)
    PROVE  SwapInv'
<1> DEFINE t == [th[p] EXCEPT !.pc = "unmap", !.op = "reap", !.as = c, !.va = 0, !.lim = sz[c]]
<1>0. User(p) /\ p # c /\ state[c] = "zombie"
      /\ \A q \in Procs : ~(th[q].op = "reap" /\ th[q].as = c)
  BY DEF wait
<1>1. TypeOK /\ state[p] = "live" /\ th[p] \in Threads /\ th[p].op = "none" /\ MaxPages \in Nat
  BY <1>0, InUser
<1>2. UNCHANGED <<disk, swap_bitmap, lru, lru_lock, pages, pt, state, sz, oops, shadow>>
      /\ kfree(kpg[c][0])
      /\ kpg' = [kpg EXCEPT ![c][0] = NULL]
      /\ th' = [th EXCEPT ![p] = t]
  BY <1>1 DEF wait, swap, clock, procs, TypeOK
<1>3. kpg[c][0] \in Frames
  BY <1>0 DEF SwapInv, FamilyOK, Reaped
<1>4. freelist' \in Seq(Frames) /\ mem' \in [Frames -> Data]
  BY <1>1, <1>2, <1>3, KfreeTypes
<1>5. sz[c] \in Nat /\ sz[c] <= MaxPages
  BY <1>1, SMT DEF TypeOK
<1>6. t \in Threads /\ t.pc = "unmap" /\ t.op = "reap" /\ t.as = c /\ t.lim = sz[c]
  BY <1>1, <1>5, Names DEF Threads
<1> HIDE DEF t
<1>7. Resume(t) = "unmap"
  BY <1>6 DEF Resume, InKalloc
<1>8. ThreadOK(p, t)
  BY <1>0, <1>1, <1>5, <1>6, <1>7
     DEF ThreadOK, InKalloc, Evicting, Paging, Holding, Copying, OpAt
<1>9. th'[p] = t /\ \A q \in Procs \ {p} : th'[q] = th[q]
  BY <1>1, <1>2 DEF TypeOK
<1>10. kpg' \in [Procs -> [KPages -> Frames \union {NULL}]]
       /\ \A d \in Procs \ {c} : kpg'[d] = kpg[d]
  <2>1. kpg \in [Procs -> [KPages -> Frames \union {NULL}]]
    BY <1>1 DEF TypeOK
  <2>2. [kpg[c] EXCEPT ![0] = NULL] \in [KPages -> Frames \union {NULL}]
    BY <2>1
  <2> QED
    BY <1>2, <2>1, <2>2
<1>11. FamilyOK'
  <2>1. Reaped(c)' /\ \A d \in Procs \ {c} : Reaped(d)' <=> Reaped(d)
    BY <1>1, <1>6, <1>9, ZenonT(30) DEF Reaped
  <2>2. \A q \in Procs \ {p} : th[q].op \in {"fork", "reap"} => th[q].as # c /\ th[q].as \in Procs
    BY <1>0 DEF SwapInv, FamilyOK, LocalsOK, ThreadOK
  <2>3. \A q \in Procs : th'[q].pc # "user" => state'[q] = "live"
    BY <1>1, <1>2, <1>9, InKernelLive
  <2>4. \A q \in Procs : th'[q].op = "shrink" => sz'[q] > 1
    BY <1>2, <1>6, <1>9, ShrinkHasPages
  <2>5. \A q \in Procs : th'[q].op = "fork" =>
           /\ state'[th'[q].as] = "used"
           /\ Resume(th'[q]) \in Copying => kpg'[th'[q].as][0] \in Frames
    BY <1>2, <1>6, <1>9, <1>10, <2>2, ForkOn, SMT
  <2>6. \A q \in Procs : th'[q].op = "reap" => state'[th'[q].as] = "zombie"
    BY <1>0, <1>2, <1>6, <1>9, ReapOn
  <2>7. \A q, r \in Procs : /\ q # r
                            /\ th'[q].op \in {"fork", "reap"} /\ th'[r].op \in {"fork", "reap"}
                            => th'[q].as # th'[r].as
    BY <1>6, <1>9, <2>2, OneFamily, SMT
  <2>8. \A d \in Procs : state'[d] \in {"live", "zombie"} /\ ~Reaped(d)' => kpg'[d][0] \in Frames
    BY <1>2, <1>10, <2>1, HasTrapframe
  <2>9. \A q \in Procs : Resume(th[q])' = Resume(th'[q])
    BY DEF Resume
  <2>10. \A q \in Procs : state'[q] = "live" => sz'[q] > 0
    BY <1>2, LiveHasPages
  <2> QED
    BY <2>3, <2>4, <2>5, <2>6, <2>7, <2>8, <2>9, <2>10 DEF FamilyOK
<1>12. StoreOK' /\ lru' \in Seq(Frames) /\ sz' \in [Procs -> 0 .. MaxPages]
       /\ state' \in [Procs -> {"unused", "used", "live", "zombie"}]
  BY <1>1, <1>2, <1>4 DEF StoreOK, TypeOK
<1>13. t.pc # "scan"
  BY <1>6
<1> QED
  BY <1>2, <1>8, <1>10, <1>11, <1>12, <1>13, Assemble

-----------------------------------------------------------------------------
(* Loads and stores of user programs.                                      *)

\* A program's access changes one entry and one frame.
LEMMA Touches ==
    ASSUME SwapInv, NEW p \in Procs, User(p), NEW va \in Pages, pt[p][va].k = "mem",
           pt' = [pt EXCEPT ![p][va].a = TRUE]
    PROVE  pt' \in [Procs -> [Pages -> PTEs]] /\ pt[p][va].n \in Frames
<1>1. TypeOK /\ pt[p][va] \in PTEs
  BY DEF SwapInv, TypeOK
<1>2. TRUE \in BOOLEAN
  OBVIOUS
<1>3. [pt[p][va] EXCEPT !.a = TRUE] \in PTEs
  BY <1>1, <1>2, PteAccessed
<1>4. pt' = [pt EXCEPT ![p][va] = [pt[p][va] EXCEPT !.a = TRUE]]
  BY <1>1 DEF TypeOK
<1>5. pt' \in [Procs -> [Pages -> PTEs]]
  BY <1>1, <1>3, <1>4, PtUpdate
<1> QED
  BY <1>1, <1>5, PteType

\* A load sets PTE_A.
LEMMA Load ==
    ASSUME SwapInv, NEW p \in Procs, NEW va \in Pages, load(p, va)
    PROVE  SwapInv'
<1>1. User(p) /\ pt[p][va].k = "mem" /\ pt' = [pt EXCEPT ![p][va].a = TRUE]
      /\ UNCHANGED <<freelist, mem, disk, swap_bitmap, lru, lru_lock, pages, kpg, state, sz, th,
                     oops, shadow>>
  BY DEF load, ram, swap, clock, procs
<1>2. TypeOK /\ th[p] = Idle /\ ThreadOK(p, Idle) /\ Idle.pc = "user" /\ Idle.op = "none"
  BY <1>1, InUser, IdleOK
<1>3. pt' \in [Procs -> [Pages -> PTEs]]
  BY <1>1, Touches
<1>4. StoreOK'
  BY <1>1, <1>2, <1>3 DEF StoreOK, TypeOK
<1>5. th' = [th EXCEPT ![p] = Idle]
  BY <1>1, <1>2 DEF TypeOK
<1>6. Idle.pc # "scan" /\ Idle.op \notin {"fork", "reap"} /\ Idle.op # "shrink"
  BY <1>2
<1> QED
  BY <1>1, <1>2, <1>4, <1>5, <1>6, Enters

\* A store sets PTE_A and changes the page.
LEMMA Store ==
    ASSUME SwapInv, NEW p \in Procs, NEW va \in Pages, NEW v \in Vals, store(p, va, v)
    PROVE  SwapInv'
<1>1. User(p) /\ pt[p][va].k = "mem" /\ pt' = [pt EXCEPT ![p][va].a = TRUE]
      /\ mem' = [mem EXCEPT ![pt[p][va].n] = v]
      /\ shadow' = [shadow EXCEPT ![p][va] = v]
      /\ UNCHANGED <<freelist, disk, swap_bitmap, lru, lru_lock, pages, kpg, state, sz, th, oops>>
  BY DEF store, swap, clock, procs
<1>2. TypeOK /\ th[p] = Idle /\ ThreadOK(p, Idle) /\ Idle.pc = "user" /\ Idle.op = "none"
  BY <1>1, InUser, IdleOK
<1>3. pt' \in [Procs -> [Pages -> PTEs]] /\ pt[p][va].n \in Frames
  BY <1>1, Touches
<1>4. v \in Data
  BY DEF Data
<1>5. mem' \in [Frames -> Data]
  BY <1>1, <1>2, <1>3, <1>4 DEF TypeOK
<1>6. shadow' \in [Procs -> [Pages -> Data]]
  <2>1. [shadow[p] EXCEPT ![va] = v] \in [Pages -> Data]
    BY <1>2, <1>4 DEF TypeOK
  <2> QED
    BY <1>1, <1>2, <2>1 DEF TypeOK
<1>7. StoreOK'
  BY <1>1, <1>2, <1>3, <1>5, <1>6 DEF StoreOK, TypeOK
<1>8. th' = [th EXCEPT ![p] = Idle]
  BY <1>1, <1>2 DEF TypeOK
<1>9. Idle.pc # "scan" /\ Idle.op \notin {"fork", "reap"} /\ Idle.op # "shrink"
  BY <1>2
<1> QED
  BY <1>1, <1>2, <1>7, <1>8, <1>9, Enters

\* exit() makes the process a zombie.
LEMMA ExitCall ==
    ASSUME SwapInv, NEW p \in Procs, exit(p)
    PROVE  SwapInv'
<1>1. User(p) /\ Exits(p)
  BY DEF exit
<1>2. state[p] = "live" /\ th[p].op \notin {"fork", "reap"}
  BY <1>1, InUser
<1> QED
  BY <1>1, <1>2, ExitStep

-----------------------------------------------------------------------------
(* The theorems.                                                           *)

\* The frames of the first processes are frames.
LEMMA LayoutType ==
    ASSUME NEW p \in Live0
    PROVE  Layout[<<p, 0>>] \in Frames /\ Layout[<<p, 1>>] \in Frames /\ Layout[<<p, 2>>] \in Frames
<1>1. Layout \in [Live0 \X (0 .. 2) -> Frames]
  BY LayoutAssumption DEF Injection
<1>2. <<p, 0>> \in Live0 \X (0 .. 2) /\ <<p, 1>> \in Live0 \X (0 .. 2) /\ <<p, 2>> \in Live0 \X (0 .. 2)
  BY SMT
<1> QED
  BY <1>1, <1>2

\* The invariant holds at the start.
LEMMA SwapInit == Init => SwapInv
<1> SUFFICES ASSUME Init PROVE SwapInv
  OBVIOUS
<1>1. freelist \in Seq(Frames)
  <2>1. Frames \ Range(Layout) \in SUBSET Frames /\ IsFiniteSet(Frames)
    BY SwapAssumption
  <2>2. IsFiniteSet(Frames \ Range(Layout))
    BY <2>1, FS_Subset
  <2> QED
    BY <2>1, <2>2, ListingType DEF Init
<1>2. lru \in Seq(Frames)
  <2> DEFINE S == {Layout[<<p, 2>>] : p \in Live0}
  <2>1. S \in SUBSET Frames /\ IsFiniteSet(Frames)
    BY LayoutType, SwapAssumption
  <2>2. IsFiniteSet(S)
    BY <2>1, FS_Subset
  <2>3. Listing(S) \in Seq(Frames)
    BY <2>1, <2>2, ListingType
  <2> QED
    BY <2>3 DEF Init
<1>3. mem \in [Frames -> Data] /\ disk \in [Slots -> Data] /\ swap_bitmap \subseteq Slots
      /\ lru_lock \in Procs \union {NULL} /\ oops \in {"no"} \union Stops
      /\ shadow \in [Procs -> [Pages -> Data]]
  BY DEF Init, Data
<1>4. pages \in [Frames -> (Procs \X Pages) \union {NULL}]
  <2>1. ASSUME NEW f \in Frames, \E p \in Live0 : f = Layout[<<p, 2>>]
        PROVE  <<CHOOSE p \in Live0 : f = Layout[<<p, 2>>], 0>> \in Procs \X Pages
    <3> DEFINE o == CHOOSE p \in Live0 : f = Layout[<<p, 2>>]
    <3>1. o \in Live0
      BY <2>1
    <3>2. 0 \in Pages /\ Live0 \subseteq Procs
      BY SwapAssumption, SMT DEF Pages
    <3> HIDE DEF o
    <3>3. <<o, 0>> \in Procs \X Pages
      BY <3>1, <3>2
    <3> QED
      BY <3>3 DEF o
  <2> QED
    BY <2>1 DEF Init
<1>5. pt \in [Procs -> [Pages -> PTEs]]
  <2>1. \A p \in Live0 : Present(Layout[<<p, 2>>], FALSE) \in PTEs
    BY LayoutType, PteKinds
  <2> QED
    BY <2>1, PteKinds DEF Init
<1>6. kpg \in [Procs -> [KPages -> Frames \union {NULL}]]
  <2>1. ASSUME NEW p \in Procs, NEW k \in KPages
        PROVE  (IF p \in Live0 /\ k \in {0, 1} THEN Layout[<<p, k>>] ELSE NULL) \in Frames \union {NULL}
    BY LayoutType
  <2> QED
    BY <2>1 DEF Init
<1>7. sz \in [Procs -> 0 .. MaxPages]
      /\ state \in [Procs -> {"unused", "used", "live", "zombie"}]
      /\ \A p \in Procs : state[p] = "live" => sz[p] > 0
  <2>1. sz \in [Procs -> 0 .. MaxPages]
    BY SwapAssumption, SMT DEF Init
  <2>2. state \in [Procs -> {"unused", "used", "live", "zombie"}]
    BY DEF Init
  <2>3. \A p \in Procs : state[p] = "live" => sz[p] > 0
    <3>1. \A p \in Procs : state[p] = "live" => p \in Live0
      BY DEF Init
    <3>2. \A p \in Live0 : sz[p] = 1
      BY SwapAssumption DEF Init
    <3> QED
      BY <3>1, <3>2, SMT
  <2> QED
    BY <2>1, <2>2, <2>3
<1>8. \A p \in Procs : th[p] = Idle /\ ThreadOK(p, Idle) /\ Idle.pc = "user" /\ Idle.op = "none"
  BY IdleOK DEF Init
<1>9. th \in [Procs -> Threads]
  BY <1>8 DEF Init, ThreadOK
<1>10. TypeOK
  BY <1>1, <1>2, <1>3, <1>4, <1>5, <1>6, <1>7, <1>9 DEF TypeOK
<1>11. LocalsOK /\ ScanOK
  BY <1>8 DEF LocalsOK, ScanOK
<1>12. \A c \in Procs : state[c] \in {"live", "zombie"} => kpg[c][0] \in Frames
  <2>1. \A c \in Procs : state[c] \in {"live", "zombie"} => c \in Live0
    BY DEF Init
  <2>2. \A c \in Procs : c \in Live0 => kpg[c][0] = Layout[<<c, 0>>]
    BY KPagesNat DEF Init
  <2> QED
    BY <2>1, <2>2, LayoutType
<1>13. FamilyOK
  BY <1>7, <1>8, <1>12 DEF FamilyOK
<1> QED
  BY <1>10, <1>11, <1>13 DEF SwapInv

\* Every step of the kernel keeps the invariant.
LEMMA KernelStep ==
    ASSUME SwapInv, NEW p \in Procs, Kernel(p)
    PROVE  SwapInv'
BY KallocHit, KallocMiss, SwapoutBegin, SwapoutScan, SwapoutSlot, SwapoutPutback, Swapwrite,
   SwapoutEvict, SwapoutFree, SwapoutClear, UvmallocPage, UvmcopyRead, UvmcopyPage, WalkAlloc,
   Mappages, Link, SwapinRead, SwapinFree, SwapinMap, UvmunmapPage, UvmunmapUnlink, UvmunmapFree,
   UvmunmapClear, Freeproc, Allocproc, CopyMove, CopyFail DEF Kernel

\* Every step of a program keeps the invariant.
LEMMA ProgramStep ==
    ASSUME SwapInv, NEW p \in Procs, Program(p)
    PROVE  SwapInv'
BY Load, Fault, CopyWalk, Store, SbrkGrow, SbrkShrink, Fork, Wait, ExitCall DEF Program

\* A step that changes nothing keeps the invariant.
LEMMA SwapStutter ==
    ASSUME SwapInv, UNCHANGED vars
    PROVE  SwapInv'
<1>1. UNCHANGED <<freelist, mem, disk, swap_bitmap, lru, lru_lock, pages, pt, kpg, sz, state, th,
                  oops, shadow>>
  BY DEF vars
<1>2. TypeOK'
  BY <1>1 DEF SwapInv, TypeOK
<1>3. LocalsOK' /\ ScanOK' /\ FamilyOK'
  BY <1>1, Unmoved
<1> QED
  BY <1>2, <1>3 DEF SwapInv

\* The inductive invariant: types, locals, scan and family hold in every
\* behaviour, whatever the interleaving of faults, sbrk(), fork(), wait() and
\* copyin()/copyout() on any number of processes, frames and slots.
THEOREM SwapInvariant == Spec => []SwapInv
<1>1. SwapInv /\ [Next]_vars => SwapInv'
  <2> SUFFICES ASSUME SwapInv, [Next]_vars PROVE SwapInv'
    OBVIOUS
  <2>1. CASE \E p \in Procs : Kernel(p) \/ Program(p)
    BY <2>1, KernelStep, ProgramStep
  <2>2. CASE Halted
    BY <2>2, SwapStutter DEF Halted
  <2>3. CASE UNCHANGED vars
    BY <2>3, SwapStutter
  <2> QED
    BY <2>1, <2>2, <2>3 DEF Next
<1> QED
  BY <1>1, SwapInit, PTL DEF Spec

\* Type correctness: kfree() only ever gets pages, kalloc() only ever returns
\* pages or 0, every PTE is empty, a frame or a slot, p->sz stays in range, also
\* in the behaviours where the kernel loses or double-frees a page.
THEOREM SwapTypes == Spec => []TypeOK
<1>1. SwapInv => TypeOK
  BY DEF SwapInv
<1> QED
  BY <1>1, SwapInvariant, PTL

\* Lifecycle: only live processes are in the kernel, no two of fork() and wait()
\* work on the same child, and a live or zombie process that nobody is burying
\* has its trapframe (so usertrapret() and freeproc() find one).
THEOREM SwapFamily == Spec => []FamilyOK
<1>1. SwapInv => FamilyOK
  BY DEF SwapInv
<1> QED
  BY <1>1, SwapInvariant, PTL

=============================================================================
