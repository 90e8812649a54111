----------------------------- MODULE HartProofs -----------------------------
(***************************************************************************)
(* Proofs about what a hart has of its own, for any number of harts and    *)
(* processes: its TLB (Tlb) and its trap registers (Trap).                 *)
(*                                                                         *)
(* Eviction leaves the TLBs of other harts alone, so translations do go    *)
(* stale: what can be proved of Tlb is that nothing else makes them so,    *)
(* and that with one hart every page keeps what was stored in it. Every    *)
(* trap overwrites the trap registers: what is proved of Trap is that      *)
(* each context gets back what was its own.                                *)
(***************************************************************************)
EXTENDS Tlb, Cpus, TLAPS

\* Zenon proves most leaves; the others name their prover.
USE Zenon

\* In the kernel a hart's TLB holds no user translation; in user mode it runs
\* a process and is there; no process runs on two harts; no frame is mapped twice.
Quiet ==
    \A h \in Harts : /\ mode[h] = "kernel" => \A va \in Pages : tlb[h][va] = NULL
                     /\ mode[h] = "user" => run[h] # NULL /\ h \in up
OneRun == \A g, h \in Harts : run[g] = run[h] /\ run[g] # NULL => g = h
MappedOnce ==
    \A p, q \in Procs, a, b \in Pages :
        pt[p][a] = pt[q][b] /\ pt[p][a] \in Frames => p = q /\ a = b
TlbInv == TypeOK /\ Quiet /\ OneRun /\ MappedOnce

\* The invariant holds when the machine starts.
LEMMA TlbInit == Init => TlbInv
BY TlbAssumption, SMT DEF Init, TlbInv, TypeOK, Quiet, OneRun, MappedOnce, NoEntries, Data

\* Every step keeps the types.
LEMMA TypesStep == TypeOK /\ [Next]_vars => TypeOK'
<1> SUFFICES ASSUME TypeOK, [Next]_vars PROVE TypeOK'
    OBVIOUS
<1>u. up' = up /\ up \in SUBSET Harts
      BY DEF Next, vars, TypeOK
<1> USE <1>u DEF TypeOK
<1>1. ASSUME NEW h \in Harts, uservec(h) \/ userret(h) \/ sched(h) PROVE TypeOK'
  <2>1. CASE sched(h)
        BY <2>1 DEF sched
  <2>2. CASE uservec(h) \/ userret(h)
    <3>1. NoEntries \in [Pages -> Frames \union {NULL}]
          BY DEF NoEntries
    <3>2. tlb' = [tlb EXCEPT ![h] = NoEntries] /\ UNCHANGED <<run, pt, mem, disk, shadow>>
          BY <2>2 DEF uservec, userret, sfence_vma
    <3>3. mode' \in [Harts -> {"user", "kernel"}]
          BY <2>2 DEF uservec, userret
    <3> QED BY <3>1, <3>2, <3>3
  <2> QED BY <1>1, <2>1, <2>2
<1>2. ASSUME NEW h \in Harts, NEW p \in Procs, scheduler(h, p) PROVE TypeOK'
      BY <1>2 DEF scheduler
<1>3. ASSUME NEW h \in Harts, NEW va \in Pages, Walk(h, va) \/ Drop(h, va) PROVE TypeOK'
  <2>1. PICK x \in Frames \union {NULL} :
          /\ tlb' = [tlb EXCEPT ![h][va] = x]
          /\ UNCHANGED <<run, mode, pt, mem, disk, shadow>>
        BY <1>3 DEF Walk, Drop
  <2> QED BY <2>1
<1>4. ASSUME NEW h \in Harts, NEW va \in Pages, uvmunmap(h, va) PROVE TypeOK'
      BY <1>4, TlbAssumption DEF uvmunmap, kfree, Data
<1>5. ASSUME NEW h \in Harts, NEW va \in Pages, NEW v \in Vals, Store(h, va, v) PROVE TypeOK'
      BY <1>5, TlbAssumption DEF Store, Data
<1>6. ASSUME NEW h \in Harts, NEW va \in Pages, NEW f \in Frames, uvmalloc(h, va, f)
      PROVE  TypeOK'
      BY <1>6, TlbAssumption DEF uvmalloc, Data
<1>7. ASSUME NEW h \in Harts, NEW va \in Pages, NEW f \in Frames, swapin(h, va, f)
      PROVE  TypeOK'
      BY <1>7, TlbAssumption, SMT DEF swapin, Data
<1>8. ASSUME NEW h \in Harts, NEW va \in Pages, NEW p \in Procs, swapout(h, p, va)
      PROVE  TypeOK'
      BY <1>8, TlbAssumption DEF swapout, Evicted, kfree, Data
<1>9. CASE UNCHANGED vars
      BY <1>9 DEF vars
<1> QED BY <1>1, <1>2, <1>3, <1>4, <1>5, <1>6, <1>7, <1>8, <1>9 DEF Next

\* Every step keeps the rest of the invariant.
LEMMA TlbStep == TlbInv /\ [Next]_vars => TlbInv'
<1> SUFFICES ASSUME TlbInv, [Next]_vars PROVE TlbInv'
    OBVIOUS
<1>t. TypeOK'
      BY TypesStep DEF TlbInv
<1>u. up' = up /\ up \in SUBSET Harts
      BY DEF Next, vars, TypeOK, TlbInv
<1> USE <1>u DEF TlbInv, TypeOK
<1>1. ASSUME NEW h \in Harts, h \in up, uservec(h) \/ userret(h) PROVE TlbInv'
      BY <1>t, <1>1, SMT DEF uservec, userret, sfence_vma, NoEntries, Quiet, OneRun, MappedOnce
<1>2. ASSUME NEW h \in Harts, sched(h) PROVE TlbInv'
      BY <1>t, <1>2, TlbAssumption, SMT DEF sched, Quiet, OneRun, MappedOnce
<1>3. ASSUME NEW h \in Harts, NEW p \in Procs, scheduler(h, p) PROVE TlbInv'
      BY <1>t, <1>3, TlbAssumption, SMT DEF scheduler, Quiet, OneRun, MappedOnce
<1>4. ASSUME NEW h \in Harts, NEW va \in Pages, Walk(h, va) \/ Drop(h, va) PROVE TlbInv'
  <2>1. UNCHANGED <<run, mode, pt>>
        BY <1>4 DEF Walk, Drop
  <2>2. Quiet'
    <3>1. CASE Walk(h, va)
          BY <3>1 DEF Walk, Quiet
    <3>2. CASE Drop(h, va)
          BY <3>2 DEF Drop, Quiet
    <3> QED BY <1>4, <3>1, <3>2
  <2> QED BY <1>t, <2>1, <2>2, SMT DEF OneRun, MappedOnce
<1>5. ASSUME NEW h \in Harts, NEW va \in Pages, uvmunmap(h, va) PROVE TlbInv'
  <2>1. run[h] \in Procs /\ UNCHANGED <<run, mode, tlb>>
        BY <1>5, TlbAssumption DEF uvmunmap
  <2>2. MappedOnce'
        BY <1>5, <2>1, TlbAssumption, SMT DEF uvmunmap, MappedOnce
  <2> QED BY <1>t, <2>1, <2>2 DEF Quiet, OneRun
<1>6. ASSUME NEW h \in Harts, NEW va \in Pages, NEW v \in Vals, Store(h, va, v) PROVE TlbInv'
      BY <1>t, <1>6, SMT DEF Store, Quiet, OneRun, MappedOnce
<1>7. ASSUME NEW h \in Harts, NEW va \in Pages, NEW f \in Frames,
             uvmalloc(h, va, f) \/ swapin(h, va, f)
      PROVE  TlbInv'
  <2>1. /\ run[h] \in Procs /\ UNCHANGED <<run, mode, tlb>> /\ f \in Free
        /\ pt' = [pt EXCEPT ![run[h]][va] = f]
        BY <1>7, TlbAssumption DEF uvmalloc, swapin
  <2>2. MappedOnce'
        BY <2>1, TlbAssumption, SMT DEF MappedOnce, Free
  <2> QED BY <1>t, <2>1, <2>2 DEF Quiet, OneRun
<1>8. ASSUME NEW h \in Harts, NEW va \in Pages, NEW p \in Procs, swapout(h, p, va)
      PROVE  TlbInv'
  <2>1. UNCHANGED <<run, mode, tlb>>
        BY <1>8 DEF swapout
  <2>2. MappedOnce'
        BY <1>8, TlbAssumption, SMT DEF swapout, Evicted, MappedOnce
  <2> QED BY <1>t, <2>1, <2>2 DEF Quiet, OneRun
<1>9. CASE UNCHANGED vars
      BY <1>t, <1>9, SMT DEF vars, Quiet, OneRun, MappedOnce
<1> QED BY <1>1, <1>2, <1>3, <1>4, <1>5, <1>6, <1>7, <1>8, <1>9 DEF Next

\* The invariant is inductive.
LEMMA TlbInvariant == Spec => []TlbInv
BY TlbInit, TlbStep, PTL DEF Spec

-----------------------------------------------------------------------------
\* A step that makes a translation stale is another hart's swapout().
Spoils(h, va) ==
    ~Stale(h, va) /\ Stale(h, va)' =>
        mode[h] = "user" /\ \E g \in up \ {h} : swapout(g, run[h], va)

\* No other step does: the hart that changes a table runs its process.
LEMMA SpoilStep ==
    ASSUME TlbInv, [Next]_vars, NEW h \in Harts, NEW va \in Pages
    PROVE  Spoils(h, va)
<1> SUFFICES ASSUME ~Stale(h, va), Stale(h, va)'
             PROVE  mode[h] = "user" /\ \E g \in up \ {h} : swapout(g, run[h], va)
    BY DEF Spoils
<1>u. up' = up /\ up \in SUBSET Harts
      BY DEF Next, vars, TypeOK, TlbInv
<1> USE <1>u DEF TlbInv, TypeOK
<1>1. ASSUME NEW g \in Harts, uservec(g) \/ userret(g) PROVE FALSE
      BY <1>1, SMT DEF uservec, userret, sfence_vma, NoEntries, Stale
<1>2. ASSUME NEW g \in Harts, sched(g) PROVE FALSE
      BY <1>2 DEF sched, Stale, Quiet
<1>3. ASSUME NEW g \in Harts, NEW p \in Procs, scheduler(g, p) PROVE FALSE
      BY <1>3, TlbAssumption DEF scheduler, Stale, Quiet
<1>4. ASSUME NEW g \in Harts, NEW a \in Pages, Walk(g, a) \/ Drop(g, a) PROVE FALSE
  <2>1. CASE Walk(g, a)
    <3>1. run[g] # NULL
          BY <2>1 DEF Walk, Quiet
    <3> QED BY <2>1, <3>1 DEF Walk, Stale
  <2>2. CASE Drop(g, a)
        BY <2>2 DEF Drop, Stale
  <2> QED BY <1>4, <2>1, <2>2
<1>5. ASSUME NEW g \in Harts, NEW a \in Pages, uvmunmap(g, a) PROVE FALSE
  <2>1. run[g] \in Procs /\ UNCHANGED <<run, tlb>> /\ mode[g] = "kernel"
        /\ pt' = [pt EXCEPT ![run[g]][a] = "none"]
        BY <1>5, TlbAssumption DEF uvmunmap
  <2> QED BY <2>1, TlbAssumption DEF Stale, Quiet, OneRun
<1>6. ASSUME NEW g \in Harts, NEW a \in Pages, NEW v \in Vals, Store(g, a, v) PROVE FALSE
      BY <1>6 DEF Store, Stale
<1>7. ASSUME NEW g \in Harts, NEW a \in Pages, NEW f \in Frames,
             uvmalloc(g, a, f) \/ swapin(g, a, f)
      PROVE  FALSE
  <2>1. run[g] \in Procs /\ UNCHANGED <<run, tlb>> /\ mode[g] = "kernel"
        /\ pt' = [pt EXCEPT ![run[g]][a] = f]
        BY <1>7, TlbAssumption DEF uvmalloc, swapin
  <2> QED BY <2>1, TlbAssumption DEF Stale, Quiet, OneRun
<1>8. ASSUME NEW g \in Harts, g \in up, NEW a \in Pages, NEW p \in Procs, swapout(g, p, a)
      PROVE  mode[h] = "user" /\ \E k \in up \ {h} : swapout(k, run[h], va)
  <2>1. /\ mode[g] = "kernel" /\ UNCHANGED <<run, tlb>>
        /\ pt' = [pt EXCEPT ![p][a] = "swap"]
        BY <1>8 DEF swapout, Evicted
  <2>2. run[h] = p /\ va = a
        BY <2>1, TlbAssumption DEF Stale
  <2>3. mode[h] = "user"
        BY <2>1 DEF Stale, Quiet
  <2> QED BY <1>8, <2>1, <2>2, <2>3
<1>9. ASSUME UNCHANGED vars PROVE FALSE
      BY <1>9 DEF vars, Stale
<1> QED BY <1>1, <1>2, <1>3, <1>4, <1>5, <1>6, <1>7, <1>8, <1>9 DEF Next

\* For any number of harts: uvmalloc(), uvmunmap(), swapin() and the switches
\* between processes leave no stale translation behind, because the hart that
\* changes a page table is the one that runs the process and runs sfence.vma
\* on its way; only swapout() reaches into another hart's process.
THEOREM TlbStale == Spec => StaleByEviction
<1>1. TlbInv /\ [Next]_vars =>
        [\A h \in Harts, va \in Pages :
           ~Stale(h, va) /\ Stale(h, va)' =>
               /\ mode[h] = "user"
               /\ \E g \in up \ {h} : swapout(g, run[h], va)]_vars
      BY SpoilStep DEF Spoils
<1> QED BY <1>1, TlbInvariant, PTL DEF Spec, StaleByEviction

-----------------------------------------------------------------------------
\* The pages are kept at the start.
LEMMA KeptInit == Init => PagesKept /\ TlbFresh
BY TlbAssumption, SMT DEF Init, PagesKept, TlbFresh, Stale, NoEntries

\* With one hart, whatever it stores goes to the frame of the page, and every
\* step keeps the pages.
LEMMA KeptStep ==
    ASSUME \A g, h \in up : g = h, TlbInv, TlbFresh, PagesKept, [Next]_vars
    PROVE  TlbFresh' /\ PagesKept'
<1>u. up' = up /\ up \in SUBSET Harts
      BY DEF Next, vars, TypeOK, TlbInv
<1>f. TlbFresh'
  <2> SUFFICES ASSUME NEW h \in Harts, NEW va \in Pages PROVE ~Stale(h, va)'
      BY DEF TlbFresh
  <2>1. Spoils(h, va) /\ ~Stale(h, va)
        BY SpoilStep DEF TlbFresh
  <2>2. mode[h] = "user" => h \in up
        BY DEF TlbInv, Quiet
  <2> QED BY <2>1, <2>2 DEF Spoils
<1> USE <1>u DEF TlbInv, TypeOK
<1>1. ASSUME UNCHANGED <<pt, mem, disk, shadow>> PROVE PagesKept'
      BY <1>1 DEF PagesKept
<1>2. ASSUME NEW h \in Harts, NEW va \in Pages, uvmunmap(h, va) PROVE PagesKept'
  <2>1. /\ run[h] \in Procs /\ UNCHANGED disk
        /\ pt' = [pt EXCEPT ![run[h]][va] = "none"]
        /\ shadow' = [shadow EXCEPT ![run[h]][va] = Zero]
        BY <1>2, TlbAssumption DEF uvmunmap
  <2>2. CASE pt[run[h]][va] \in Frames
        BY <1>2, <2>1, <2>2, TlbAssumption, SMT DEF uvmunmap, kfree, PagesKept, MappedOnce
  <2>3. CASE pt[run[h]][va] \notin Frames
        BY <1>2, <2>1, <2>3, TlbAssumption, SMT DEF uvmunmap, PagesKept
  <2> QED BY <2>2, <2>3
<1>3. ASSUME NEW h \in Harts, NEW va \in Pages, NEW v \in Vals, Store(h, va, v)
      PROVE  PagesKept'
  <2>1. run[h] \in Procs /\ tlb[h][va] \in Frames /\ pt[run[h]][va] = tlb[h][va]
        BY <1>3, TlbAssumption, SMT DEF Store, TlbFresh, Stale
  <2> QED BY <1>3, <2>1, TlbAssumption, SMT DEF Store, PagesKept, MappedOnce
<1>4. ASSUME NEW h \in Harts, NEW va \in Pages, NEW f \in Frames, uvmalloc(h, va, f)
      PROVE  PagesKept'
  <2>1. run[h] \in Procs
        BY <1>4, TlbAssumption DEF uvmalloc
  <2> QED BY <1>4, <2>1, TlbAssumption, SMT DEF uvmalloc, PagesKept, Free
<1>5. ASSUME NEW h \in Harts, NEW va \in Pages, NEW f \in Frames, swapin(h, va, f)
      PROVE  PagesKept'
  <2>1. run[h] \in Procs
        BY <1>5, TlbAssumption DEF swapin
  <2> QED BY <1>5, <2>1, TlbAssumption, SMT DEF swapin, PagesKept, Free
<1>6. ASSUME NEW h \in Harts, NEW va \in Pages, NEW p \in Procs, swapout(h, p, va)
      PROVE  PagesKept'
      BY <1>6, TlbAssumption, SMT DEF swapout, Evicted, kfree, PagesKept, MappedOnce
<1>7. PagesKept'
      BY <1>1, <1>2, <1>3, <1>4, <1>5, <1>6
      DEF Next, vars, uservec, userret, sched, scheduler, Walk, Drop
<1> QED BY <1>f, <1>7

\* On a machine with one hart no translation is ever stale and every page
\* holds what its process last stored there, in memory or in the swap area.
THEOREM TlbOneHart == Spec => []KeptOnOneHart
<1>1. Init => KeptOnOneHart
      BY KeptInit DEF KeptOnOneHart
<1>2. TlbInv /\ KeptOnOneHart /\ [Next]_vars => KeptOnOneHart'
  <2> SUFFICES ASSUME TlbInv, KeptOnOneHart, [Next]_vars, \A g, h \in up' : g = h
               PROVE  TlbFresh' /\ PagesKept'
      BY DEF KeptOnOneHart
  <2>1. \A g, h \in up : g = h
        BY DEF Next, vars
  <2> QED BY <2>1, KeptStep DEF KeptOnOneHart
<1> QED BY <1>1, <1>2, TlbInvariant, PTL DEF Spec

-----------------------------------------------------------------------------
(* Traps.                                                                  *)

\* The places of a context: in scheduler(), off the hart on the way to user space, where
\* interrupts can be on, inside kerneltrap() after its locals are set, anywhere inside an
\* interrupt of the kernel, where stvec is uservec, where a process can be off its hart,
\* where its trapframe says where the program goes on.
Loop == <<"scheduler", "loop">>
Ecall == <<"usertrap", "ecall">>
Frame == <<"usertrapret", "frame">>
Userret == <<"userret", "entry">>
Userside == {Trap!User, <<"uservec", "entry">>}
Interruptible == {Loop, <<"forkret", "entry">>, <<"syscall", "entry">>, <<"usertrapret", "off">>, <<"usertrap", "check">>}
Vectors == {<<"kernelvec", "entry">>, <<"kernelvec", "sret">>}
Saved == {<<"kerneltrap", "timer">>, <<"kerneltrap", "device">>, <<"kerneltrap", "serve">>,
          <<"kerneltrap", "complete">>, <<"kerneltrap", "check">>}
Entering == {<<"uservec", "entry">>, <<"usertrap", "entry">>}
Vectored == {Trap!User, <<"uservec", "entry">>, <<"usertrap", "entry">>, Frame, Userret}
Parked == {Trap!None, <<"forkret", "entry">>, <<"syscall", "entry">>, <<"usertrapret", "off">>, <<"usertrap", "fault">>,
           <<"kerneltrap", "check">>}
Ordinary == {<<"forkret", "entry">>, <<"syscall", "entry">>, <<"usertrapret", "off">>, <<"usertrapret", "vector">>,
             <<"usertrap", "timer">>, <<"usertrap", "device">>, <<"usertrap", "fault">>, <<"usertrap", "bad">>,
             <<"usertrap", "serve">>, <<"usertrap", "complete">>, <<"usertrap", "check">>}
Settled == Ordinary \union {Frame} \union Vectors \union Saved
HartPlaces == {Loop} \union Vectors \union Saved
ProcPlaces == {Trap!None, Trap!User, Userret, Ecall} \union Entering \union Settled
TrapPlaces == HartPlaces \union ProcPlaces

Sepcs == [place : TrapPlaces, pc : Nat]
Regs == [sie : BOOLEAN, stvec : {"uservec", "kernelvec"}, cause : Causes \union {"none"}, sepc : Sepcs,
         spp : BOOLEAN, spie : BOOLEAN, tp : TrapHarts \union {"none", "user"}, satp : TrapProcs \union {"kernel"},
         sp : Trap!Contexts \union {"none", "user"}]
TrapFrames == [epc : Nat, hart : TrapHarts \union {"none", "user"}, sp : TrapProcs \union {"none"}]
Locals == [sepc : Sepcs, spp : BOOLEAN, spie : BOOLEAN]

Typed ==
    /\ t_pc \in [TrapProcs -> Nat] /\ t_upc \in [TrapProcs -> Nat] /\ t_tf \in [TrapProcs -> TrapFrames]
    /\ t_kept \in [Trap!Contexts -> Locals] /\ t_was \in [Trap!Contexts -> TrapPlaces] /\ t_killed \in [TrapProcs -> BOOLEAN]

TrapTypes ==
    /\ t_run \in [TrapHarts -> Trap!Contexts] /\ t_csr \in [TrapHarts -> Regs] /\ t_at \in [Trap!Contexts -> TrapPlaces]
    /\ t_intena \in [TrapProcs -> BOOLEAN] /\ Typed

\* The registers r of hart h fit context c at place a, with trapframe f, which was
\* interrupted in the kernel at w and whose program goes on at u.
Fits(h, c, a, r, f, u, w) ==
    /\ a # Trap!None
    /\ r.sie => a \in Interruptible
    /\ a \in Userside => r.satp = c
    /\ a \notin Userside => r.tp = h /\ r.satp = "kernel" /\ r.sp = c
    /\ IF a \in Vectored THEN r.stvec = "uservec" ELSE r.stvec = "kernelvec"
    /\ a \in Userside \union {Userret} => f.sp = c /\ f.hart = h
    /\ a \in Entering => ~r.spp /\ r.cause \in Causes /\ u = IF r.cause = "ecall" THEN Trap!Next1(r.sepc.pc) ELSE r.sepc.pc
    /\ a = Userret => r.sepc = [place |-> Trap!User, pc |-> u] /\ ~r.spp /\ r.spie
    /\ a \in Vectors => r.sepc.place = w /\ r.spp /\ r.spie
    /\ a = <<"kernelvec", "entry">> => r.cause \in {"timer", "device"}

\* The kernel proper: neither next to user space nor at the ends of kernelvec.
Plain(a) == a \notin Vectored \union Vectors \union {Trap!None}

HartOK(h) ==
    /\ t_run[h] \in {h} \union TrapProcs /\ (t_run[h] # h => t_at[h] = Loop)
    /\ Fits(h, t_run[h], t_at[t_run[h]], t_csr[h], t_tf[t_run[h]], t_upc[t_run[h]], t_was[t_run[h]])
    /\ t_at[t_run[h]] = Trap!User => t_pc[t_run[h]] = t_upc[t_run[h]]

\* What belongs to a context c at place a, wherever it runs: the locals k of kerneltrap()
\* say where it was interrupted.
Belongs(c, a, k, w) ==
    /\ c \in TrapHarts => a \in HartPlaces
    /\ c \in TrapProcs => a \in ProcPlaces
    /\ a \in Vectors \union Saved => w \in Interruptible /\ (c \in TrapHarts <=> w = Loop)
    /\ a \in Saved => k.sepc.place = w /\ k.spp /\ k.spie

ContextOK(c) == Belongs(c, t_at[c], t_kept[c], t_was[c])

Running(p) == \E g \in TrapHarts : t_run[g] = p

\* The trapframe's epc is where the program goes on, once usertrap() is past the ecall.
Ahead(a, e, u) == (a \in Settled => u = e) /\ (a = Ecall => u = Trap!Next1(e))

ProcOK(p) ==
    /\ Ahead(t_at[p], t_tf[p].epc, t_upc[p])
    /\ ~Running(p) => t_at[p] \in Parked
    /\ t_intena[p] => ~Running(p) /\ t_at[p] \in Interruptible

TrapInv ==
    /\ TrapTypes /\ t_panicked = "no"
    /\ \A g, h \in TrapHarts : g # h => t_run[g] # t_run[h]
    /\ \A h \in TrapHarts : HartOK(h)
    /\ \A c \in Trap!Contexts : ContextOK(c)
    /\ \A p \in TrapProcs : ProcOK(p)

LEMMA NextNat ==
    ASSUME Trap!TrapAssumption, NEW k \in Nat
    PROVE  Trap!Next1(k) \in Nat
<1>1. PCS \in Nat /\ PCS > 0
  BY SMT DEF Trap!TrapAssumption
<1> QED
  BY <1>1, SMT DEF Trap!Next1

\* What kind of place a place is.
LEMMA OrdinaryPlaces == \A a \in Ordinary :
    /\ Plain(a) /\ a \in Settled /\ a \in ProcPlaces /\ a \in TrapPlaces /\ a \notin HartPlaces /\ a # Ecall /\ a # Trap!User /\ a # Loop
    /\ a # Userret /\ a \notin Vectors \union Saved /\ a \notin Saved
BY SMT DEF Ordinary, Plain, Settled, ProcPlaces, TrapPlaces, HartPlaces, Ecall, Trap!User, Vectors, Saved, Vectored, Loop, Trap!None, Frame, Userret

LEMMA SavedPlaces == \A a \in Saved :
    /\ Plain(a) /\ a \in Settled /\ a \in ProcPlaces /\ a \in TrapPlaces /\ a \in HartPlaces /\ a # Ecall /\ a # Trap!User
    /\ a # Userret /\ a \notin Interruptible
BY SMT DEF Plain, Settled, ProcPlaces, TrapPlaces, HartPlaces, Ecall, Trap!User, Vectors, Saved, Vectored, Interruptible, Loop, Trap!None, Frame, Userret

LEMMA VectorPlaces == \A a \in Vectors :
    a \in Settled /\ a \in ProcPlaces /\ a \in TrapPlaces /\ a \in HartPlaces /\ a # Ecall /\ a # Trap!User /\ a # Userret /\ a \notin Saved
BY SMT DEF Settled, ProcPlaces, TrapPlaces, HartPlaces, Ecall, Trap!User, Vectors, Saved, Userret

LEMMA InterruptiblePlaces == \A a \in Interruptible : a = Loop \/ a \in Ordinary
BY DEF Interruptible, Ordinary

LEMMA ParkedPlaces == \A a \in Parked : a = Trap!None \/ a \in Ordinary \/ a \in Saved
BY DEF Parked, Ordinary, Saved

LEMMA LoopPlace ==
    /\ Plain(Loop) /\ Loop \in Interruptible /\ Loop \in HartPlaces /\ Loop \in TrapPlaces /\ Loop \notin ProcPlaces
    /\ Loop \notin Settled /\ Loop # Ecall /\ Loop # Trap!User /\ Loop \notin Vectors \union Saved /\ Loop \notin Saved
BY DEF Plain, Interruptible, HartPlaces, TrapPlaces, ProcPlaces, Settled, Ordinary, Ecall, Trap!User, Vectors, Saved, Vectored, Loop,
       Trap!None, Frame, Userret, Entering

LEMMA EcallPlace == Plain(Ecall) /\ Ecall \in ProcPlaces /\ Ecall \in TrapPlaces /\ Ecall \notin HartPlaces /\ Ecall \notin Settled
BY DEF Plain, ProcPlaces, TrapPlaces, HartPlaces, Ecall, Trap!User, Vectors, Saved, Vectored, Loop, Trap!None, Frame, Userret, Settled, Ordinary

LEMMA NonePlace ==
    /\ Trap!None \in Parked /\ Trap!None \in ProcPlaces /\ Trap!None \in TrapPlaces /\ Trap!None \notin Settled /\ Trap!None # Ecall
    /\ Trap!None \notin Vectors \union Saved /\ Trap!None \notin Saved /\ Trap!None \notin Interruptible
BY DEF Parked, ProcPlaces, TrapPlaces, Settled, Ordinary, Ecall, Vectors, Saved, Trap!None, Frame, Interruptible, Loop

LEMMA FramePlace ==
    /\ Frame \in Settled /\ Frame \in ProcPlaces /\ Frame \in TrapPlaces /\ Frame \notin HartPlaces /\ Frame # Ecall /\ Frame # Trap!User
    /\ Frame \notin Vectors \union Saved /\ Frame \notin Saved
BY DEF Settled, ProcPlaces, TrapPlaces, HartPlaces, Ecall, Trap!User, Vectors, Saved, Frame, Loop

LEMMA UserPlaces == \A a \in {Trap!User, Userret, <<"uservec", "entry">>, <<"usertrap", "entry">>} :
    /\ a \in ProcPlaces /\ a \in TrapPlaces /\ a \notin HartPlaces /\ a # Ecall /\ a \notin Settled
    /\ a \notin Vectors \union Saved /\ a \notin Saved /\ (a # Trap!User => a \in Entering \/ a = Userret)
BY SMT DEF Settled, Ordinary, ProcPlaces, TrapPlaces, HartPlaces, Ecall, Trap!User, Userret, Vectors, Saved, Frame, Loop, Entering, Trap!None

\* What fits in the kernel proper, in user mode, in uservec, at the start of usertrap(),
\* before and in userret, and at the ends of kernelvec.
LEMMA FitsPlain ==
    ASSUME NEW h, NEW c, NEW a, NEW r, NEW f, NEW u, NEW w, Plain(a)
    PROVE  Fits(h, c, a, r, f, u, w) <=> /\ r.sie => a \in Interruptible
                                         /\ r.tp = h /\ r.satp = "kernel" /\ r.sp = c /\ r.stvec = "kernelvec"
<1>1. /\ a \notin Userside /\ a \notin Vectored /\ a \notin Entering /\ a # Userret /\ a \notin Vectors /\ a # Trap!None
      /\ a # <<"kernelvec", "entry">> /\ a \notin Userside \union {Userret}
  BY DEF Plain, Userside, Vectored, Entering, Userret, Vectors, Trap!None, Trap!User, Frame
<1> QED
  BY <1>1 DEF Fits

LEMMA FitsUser ==
    ASSUME NEW h, NEW c, NEW r, NEW f, NEW u, NEW w
    PROVE  Fits(h, c, Trap!User, r, f, u, w) <=> ~r.sie /\ r.satp = c /\ r.stvec = "uservec" /\ f.sp = c /\ f.hart = h
<1>1. /\ Trap!User \in Userside /\ Trap!User \in Vectored /\ Trap!User \notin Entering /\ Trap!User # Userret /\ Trap!User \notin Vectors /\ Trap!User # Trap!None
      /\ Trap!User # <<"kernelvec", "entry">> /\ Trap!User \notin Interruptible
  BY DEF Userside, Vectored, Entering, Userret, Vectors, Trap!None, Interruptible, Loop, Trap!User, Frame
<1> QED
  BY <1>1 DEF Fits

LEMMA FitsUservec ==
    ASSUME NEW h, NEW c, NEW r, NEW f, NEW u, NEW w
    PROVE  Fits(h, c, <<"uservec", "entry">>, r, f, u, w) <=>
               /\ ~r.sie /\ r.satp = c /\ r.stvec = "uservec" /\ f.sp = c /\ f.hart = h /\ ~r.spp /\ r.cause \in Causes
               /\ u = IF r.cause = "ecall" THEN Trap!Next1(r.sepc.pc) ELSE r.sepc.pc
<1> DEFINE a == <<"uservec", "entry">>
<1>1. /\ a \in Userside /\ a \in Vectored /\ a \in Entering /\ a # Userret /\ a \notin Vectors /\ a # Trap!None
      /\ a # <<"kernelvec", "entry">> /\ a \notin Interruptible
  BY DEF Userside, Vectored, Entering, Userret, Vectors, Trap!None, Interruptible, Loop, Frame
<1> HIDE DEF a
<1>2. Fits(h, c, a, r, f, u, w) <=>
          /\ ~r.sie /\ r.satp = c /\ r.stvec = "uservec" /\ f.sp = c /\ f.hart = h /\ ~r.spp /\ r.cause \in Causes
          /\ u = IF r.cause = "ecall" THEN Trap!Next1(r.sepc.pc) ELSE r.sepc.pc
  BY <1>1 DEF Fits
<1> QED
  BY <1>2 DEF a

LEMMA FitsUsertrap ==
    ASSUME NEW h, NEW c, NEW r, NEW f, NEW u, NEW w
    PROVE  Fits(h, c, <<"usertrap", "entry">>, r, f, u, w) <=>
               /\ ~r.sie /\ r.tp = h /\ r.satp = "kernel" /\ r.sp = c /\ r.stvec = "uservec" /\ ~r.spp /\ r.cause \in Causes
               /\ u = IF r.cause = "ecall" THEN Trap!Next1(r.sepc.pc) ELSE r.sepc.pc
<1> DEFINE a == <<"usertrap", "entry">>
<1>1. /\ a \notin Userside /\ a \in Vectored /\ a \in Entering /\ a # Userret /\ a \notin Vectors /\ a # Trap!None
      /\ a # <<"kernelvec", "entry">> /\ a \notin Interruptible /\ a \notin Userside \union {Userret}
  BY DEF Userside, Vectored, Entering, Userret, Vectors, Trap!None, Interruptible, Loop, Trap!User, Frame
<1> HIDE DEF a
<1>2. Fits(h, c, a, r, f, u, w) <=>
          /\ ~r.sie /\ r.tp = h /\ r.satp = "kernel" /\ r.sp = c /\ r.stvec = "uservec" /\ ~r.spp /\ r.cause \in Causes
          /\ u = IF r.cause = "ecall" THEN Trap!Next1(r.sepc.pc) ELSE r.sepc.pc
  BY <1>1 DEF Fits
<1> QED
  BY <1>2 DEF a

LEMMA FitsFrame ==
    ASSUME NEW h, NEW c, NEW r, NEW f, NEW u, NEW w
    PROVE  Fits(h, c, Frame, r, f, u, w) <=> ~r.sie /\ r.tp = h /\ r.satp = "kernel" /\ r.sp = c /\ r.stvec = "uservec"
<1>1. /\ Frame \notin Userside /\ Frame \in Vectored /\ Frame \notin Entering /\ Frame # Userret /\ Frame \notin Vectors
      /\ Frame # Trap!None /\ Frame # <<"kernelvec", "entry">> /\ Frame \notin Interruptible /\ Frame \notin Userside \union {Userret}
  BY DEF Userside, Vectored, Entering, Userret, Vectors, Trap!None, Interruptible, Loop, Trap!User, Frame
<1> QED
  BY <1>1 DEF Fits

LEMMA FitsUserret ==
    ASSUME NEW h, NEW c, NEW r, NEW f, NEW u, NEW w
    PROVE  Fits(h, c, Userret, r, f, u, w) <=>
               /\ ~r.sie /\ r.tp = h /\ r.satp = "kernel" /\ r.sp = c /\ r.stvec = "uservec" /\ f.sp = c /\ f.hart = h
               /\ r.sepc = [place |-> Trap!User, pc |-> u] /\ ~r.spp /\ r.spie
<1>1. /\ Userret \notin Userside /\ Userret \in Vectored /\ Userret \notin Entering /\ Userret \notin Vectors /\ Userret # Trap!None
      /\ Userret # <<"kernelvec", "entry">> /\ Userret \notin Interruptible /\ Userret \in Userside \union {Userret}
  BY DEF Userside, Vectored, Entering, Userret, Vectors, Trap!None, Interruptible, Loop, Trap!User
<1> QED
  BY <1>1 DEF Fits

LEMMA FitsVector ==
    ASSUME NEW h, NEW c, NEW a \in Vectors, NEW r, NEW f, NEW u, NEW w
    PROVE  Fits(h, c, a, r, f, u, w) <=>
               /\ ~r.sie /\ r.tp = h /\ r.satp = "kernel" /\ r.sp = c /\ r.stvec = "kernelvec"
               /\ r.sepc.place = w /\ r.spp /\ r.spie /\ (a = <<"kernelvec", "entry">> => r.cause \in {"timer", "device"})
<1>1. /\ a \notin Userside /\ a \notin Vectored /\ a \notin Entering /\ a # Userret /\ a # Trap!None /\ a \notin Interruptible
      /\ a \notin Userside \union {Userret}
  BY SMT DEF Userside, Vectored, Entering, Userret, Vectors, Trap!None, Interruptible, Loop, Trap!User, Frame
<1> QED
  BY <1>1 DEF Fits

\* What the steps of one hart leave alone.
LEMMA OneHart ==
    ASSUME Trap!TrapAssumption, TrapInv, NEW h \in TrapHarts, NEW c \in Trap!Contexts, c = t_run[h],
           TrapTypes', t_panicked' = "no", t_run'[h] \in {c, h},
           \A g \in TrapHarts \ {h} : t_run'[g] = t_run[g] /\ t_csr'[g] = t_csr[g],
           \A d \in Trap!Contexts \ {c} : t_at'[d] = t_at[d] /\ t_kept'[d] = t_kept[d] /\ t_was'[d] = t_was[d],
           \A p \in TrapProcs \ {c} : t_pc'[p] = t_pc[p] /\ t_tf'[p] = t_tf[p] /\ t_upc'[p] = t_upc[p] /\ t_intena'[p] = t_intena[p],
           HartOK(h)', ContextOK(c)', c \in TrapProcs => ProcOK(c)'
    PROVE  TrapInv'
<1>1. TrapHarts \intersect TrapProcs = {} /\ h \notin TrapProcs
  BY DEF Trap!TrapAssumption
<1>2. c \in {h} \union TrapProcs
  BY DEF TrapInv, HartOK
<1>3. ASSUME NEW g \in TrapHarts \ {h} PROVE t_run[g] # c /\ t_run[g] # h /\ g # c /\ t_run[g] \in {g} \union TrapProcs
  <2>1. t_run[g] # t_run[h] /\ t_run[g] \in {g} \union TrapProcs
    BY ZenonT(30) DEF TrapInv, HartOK
  <2> QED
    BY <1>1, <1>2, <2>1
<1>4. ASSUME NEW g \in TrapHarts \ {h} PROVE HartOK(g)'
  <2>1. HartOK(g) /\ t_run[g] \in Trap!Contexts \ {c} /\ g \in Trap!Contexts \ {c}
    BY <1>3 DEF TrapInv, Trap!Contexts
  <2>2. t_at'[t_run[g]] = t_at[t_run[g]] /\ t_was'[t_run[g]] = t_was[t_run[g]] /\ t_at'[g] = t_at[g] /\ t_run'[g] = t_run[g] /\ t_csr'[g] = t_csr[g]
    BY <2>1
  <2>3. CASE t_run[g] \in TrapProcs
    <3>1. t_pc'[t_run[g]] = t_pc[t_run[g]] /\ t_tf'[t_run[g]] = t_tf[t_run[g]] /\ t_upc'[t_run[g]] = t_upc[t_run[g]]
      BY <2>1, <2>3
    <3> QED
      BY <2>1, <2>2, <3>1, ZenonT(30) DEF HartOK
  <2>4. CASE t_run[g] = g
    <3>1. t_at[g] \in HartPlaces
      BY <2>1 DEF TrapInv, ContextOK, Belongs
    <3>2. t_at[g] \notin Userside \union {Userret} /\ t_at[g] \notin Entering /\ t_at[g] # Userret /\ t_at[g] # Trap!User
      BY <3>1, SMT DEF HartPlaces, Loop, Vectors, Saved, Userside, Userret, Entering, Trap!User
    <3>3. ASSUME NEW f, NEW u, Fits(g, g, t_at[g], t_csr[g], t_tf[g], t_upc[g], t_was[g]) PROVE Fits(g, g, t_at[g], t_csr[g], f, u, t_was[g])
      BY <3>2, <3>3 DEF Fits
    <3>4. Fits(g, g, t_at[g], t_csr[g], t_tf'[g], t_upc'[g], t_was[g])
      BY <2>1, <2>4, <3>3 DEF HartOK
    <3>5. t_run'[g] = g /\ t_at'[g] # Trap!User
      BY <2>2, <2>4, <3>2
    <3>6. Fits(g, g, t_at[g], t_csr[g], t_tf[g], t_upc[g], t_was[g])' /\ (t_run[g] \in {g} \union TrapProcs)'
      BY <2>2, <2>4, <3>4, <3>5
    <3> QED
      BY <3>5, <3>6 DEF HartOK
  <2> QED
    BY <1>3, <2>3, <2>4
<1>5. ASSUME NEW d \in Trap!Contexts PROVE ContextOK(d)'
  BY DEF TrapInv, ContextOK
<1>6. ASSUME NEW p \in TrapProcs PROVE ProcOK(p)'
  <2>1. CASE p # c
    <3>1. Running(p)' <=> Running(p)
      BY <1>1, <2>1, SMT DEF Running
    <3> QED
      BY <2>1, <3>1 DEF TrapInv, ProcOK, Trap!Contexts
  <2> QED
    BY <2>1
<1>7. ASSUME NEW g \in TrapHarts, NEW k \in TrapHarts, g # k PROVE t_run'[g] # t_run'[k]
  BY <1>3, <1>7, SMT DEF TrapInv
<1> QED
  BY <1>4, <1>5, <1>6, <1>7 DEF TrapInv

\* What the invariant says of the context a hart runs.
LEMMA Here ==
    ASSUME Trap!TrapAssumption, TrapInv, NEW h \in TrapHarts
    PROVE  /\ t_run[h] \in Trap!Contexts /\ t_run[h] \in {h} \union TrapProcs /\ (t_run[h] # h => t_at[h] = Loop)
           /\ TrapTypes /\ t_csr[h] \in Regs /\ TrapHarts \intersect TrapProcs = {} /\ h \in Trap!Contexts
           /\ Fits(h, t_run[h], t_at[t_run[h]], t_csr[h], t_tf[t_run[h]], t_upc[t_run[h]], t_was[t_run[h]])
           /\ (t_at[t_run[h]] = Trap!User => t_pc[t_run[h]] = t_upc[t_run[h]])
           /\ Belongs(t_run[h], t_at[t_run[h]], t_kept[t_run[h]], t_was[t_run[h]])
           /\ (t_run[h] \in TrapProcs => t_tf[t_run[h]] \in TrapFrames /\ Ahead(t_at[t_run[h]], t_tf[t_run[h]].epc, t_upc[t_run[h]]) /\ ~t_intena[t_run[h]])
<1>1. HartOK(h) /\ TrapTypes /\ TrapHarts \intersect TrapProcs = {}
  BY DEF TrapInv, Trap!TrapAssumption
<1>2. t_run[h] \in Trap!Contexts /\ t_csr[h] \in Regs /\ h \in Trap!Contexts
  BY <1>1 DEF TrapTypes, Trap!Contexts
<1>3. ContextOK(t_run[h])
  BY <1>2 DEF TrapInv
<1>4. ASSUME t_run[h] \in TrapProcs
      PROVE  t_tf[t_run[h]] \in TrapFrames /\ Ahead(t_at[t_run[h]], t_tf[t_run[h]].epc, t_upc[t_run[h]]) /\ ~t_intena[t_run[h]]
  BY <1>1, <1>4 DEF TrapInv, ProcOK, TrapTypes, Typed, Running
<1> QED
  BY <1>1, <1>2, <1>3, <1>4 DEF HartOK, ContextOK

\* The registers of a hart whose context is at a place with nothing special about it.
LEMMA PlainRegisters ==
    ASSUME Trap!TrapAssumption, TrapInv, NEW h \in TrapHarts, Plain(t_at[t_run[h]])
    PROVE  /\ t_csr[h].tp = h /\ t_csr[h].satp = "kernel" /\ t_csr[h].sp = t_run[h] /\ t_csr[h].stvec = "kernelvec"
           /\ t_csr[h].sie => t_at[t_run[h]] \in Interruptible
<1> DEFINE c == t_run[h] a == t_at[c] r == t_csr[h] f == t_tf[c] u == t_upc[c] w == t_was[c]
<1>1. Fits(h, c, a, r, f, u, w) /\ Plain(a)
  BY Here
<1> HIDE DEF c, a, r, f, u, w
<1>2. r.tp = h /\ r.satp = "kernel" /\ r.sp = c /\ r.stvec = "kernelvec" /\ (r.sie => a \in Interruptible)
  BY <1>1, FitsPlain, SMT
<1> QED
  BY <1>2 DEF c, a, r, f, u, w

\* The registers of a hart, by where the context it runs is.
LEMMA Registers ==
    ASSUME Trap!TrapAssumption, TrapInv, NEW h \in TrapHarts
    PROVE  /\ t_at[t_run[h]] = Trap!User => /\ ~t_csr[h].sie /\ t_csr[h].satp = t_run[h] /\ t_csr[h].stvec = "uservec"
                                   /\ t_tf[t_run[h]].sp = t_run[h] /\ t_tf[t_run[h]].hart = h /\ t_pc[t_run[h]] = t_upc[t_run[h]]
           /\ t_at[t_run[h]] = <<"uservec", "entry">> =>
                 /\ ~t_csr[h].sie /\ t_csr[h].satp = t_run[h] /\ t_csr[h].stvec = "uservec" /\ t_tf[t_run[h]].sp = t_run[h] /\ t_tf[t_run[h]].hart = h
                 /\ ~t_csr[h].spp /\ t_csr[h].cause \in Causes
                 /\ t_upc[t_run[h]] = IF t_csr[h].cause = "ecall" THEN Trap!Next1(t_csr[h].sepc.pc) ELSE t_csr[h].sepc.pc
           /\ t_at[t_run[h]] = <<"usertrap", "entry">> =>
                 /\ ~t_csr[h].sie /\ t_csr[h].tp = h /\ t_csr[h].satp = "kernel" /\ t_csr[h].sp = t_run[h]
                 /\ ~t_csr[h].spp /\ t_csr[h].cause \in Causes
                 /\ t_upc[t_run[h]] = IF t_csr[h].cause = "ecall" THEN Trap!Next1(t_csr[h].sepc.pc) ELSE t_csr[h].sepc.pc
           /\ t_at[t_run[h]] = Frame => ~t_csr[h].sie /\ t_csr[h].tp = h /\ t_csr[h].satp = "kernel" /\ t_csr[h].sp = t_run[h] /\ t_csr[h].stvec = "uservec"
           /\ t_at[t_run[h]] = Userret => /\ t_csr[h].stvec = "uservec" /\ t_tf[t_run[h]].sp = t_run[h] /\ t_tf[t_run[h]].hart = h
                                      /\ t_csr[h].sepc = [place |-> Trap!User, pc |-> t_upc[t_run[h]]] /\ ~t_csr[h].spp
           /\ t_at[t_run[h]] \in Vectors =>
                 /\ ~t_csr[h].sie /\ t_csr[h].tp = h /\ t_csr[h].satp = "kernel" /\ t_csr[h].sp = t_run[h] /\ t_csr[h].stvec = "kernelvec"
                 /\ t_csr[h].sepc.place = t_was[t_run[h]] /\ t_csr[h].spp /\ t_csr[h].spie
                 /\ t_at[t_run[h]] = <<"kernelvec", "entry">> => t_csr[h].cause \in {"timer", "device"}
<1> DEFINE c == t_run[h] a == t_at[c] r == t_csr[h] f == t_tf[c] u == t_upc[c] w == t_was[c]
<1>1. Fits(h, c, a, r, f, u, w) /\ (a = Trap!User => t_pc[c] = u)
  BY Here
<1> HIDE DEF c, a, r, f, u, w
<1>3. a = Trap!User => ~r.sie /\ r.satp = c /\ r.stvec = "uservec" /\ f.sp = c /\ f.hart = h /\ t_pc[c] = u
  BY <1>1, FitsUser, SMT
<1>4. a = <<"uservec", "entry">> => /\ ~r.sie /\ r.satp = c /\ r.stvec = "uservec" /\ f.sp = c /\ f.hart = h /\ ~r.spp /\ r.cause \in Causes
                                    /\ u = IF r.cause = "ecall" THEN Trap!Next1(r.sepc.pc) ELSE r.sepc.pc
  BY <1>1, FitsUservec, SMT
<1>5. a = <<"usertrap", "entry">> => /\ ~r.sie /\ r.tp = h /\ r.satp = "kernel" /\ r.sp = c /\ ~r.spp /\ r.cause \in Causes
                                     /\ u = IF r.cause = "ecall" THEN Trap!Next1(r.sepc.pc) ELSE r.sepc.pc
  BY <1>1, FitsUsertrap, SMT
<1>6. a = Frame => ~r.sie /\ r.tp = h /\ r.satp = "kernel" /\ r.sp = c /\ r.stvec = "uservec"
  BY <1>1, FitsFrame, SMT
<1>7. a = Userret => r.stvec = "uservec" /\ f.sp = c /\ f.hart = h /\ r.sepc = [place |-> Trap!User, pc |-> u] /\ ~r.spp
  BY <1>1, FitsUserret, SMT
<1>8. a \in Vectors => /\ ~r.sie /\ r.tp = h /\ r.satp = "kernel" /\ r.sp = c /\ r.stvec = "kernelvec" /\ r.sepc.place = w /\ r.spp /\ r.spie
                       /\ a = <<"kernelvec", "entry">> => r.cause \in {"timer", "device"}
  BY <1>1, FitsVector, SMT
<1> QED
  BY <1>3, <1>4, <1>5, <1>6, <1>7, <1>8 DEF c, a, r, f, u, w

\* A step of the context c a hart runs, which goes to place a.
LEMMA Stays ==
    ASSUME Trap!TrapAssumption, TrapInv, NEW h \in TrapHarts, NEW c \in Trap!Contexts, c = t_run[h], NEW a \in TrapPlaces, NEW r,
           t_csr' \in [TrapHarts -> Regs], t_csr'[h] = r, Typed', t_panicked' = "no", t_run' = t_run, t_intena' = t_intena, t_at' = [t_at EXCEPT ![c] = a],
           \A g \in TrapHarts \ {h} : t_csr'[g] = t_csr[g],
           \A d \in Trap!Contexts \ {c} : t_kept'[d] = t_kept[d] /\ t_was'[d] = t_was[d],
           \A p \in TrapProcs \ {c} : t_pc'[p] = t_pc[p] /\ t_tf'[p] = t_tf[p] /\ t_upc'[p] = t_upc[p],
           Fits(h, c, a, r, t_tf'[c], t_upc'[c], t_was'[c]), a = Trap!User => t_pc'[c] = t_upc'[c],
           Belongs(c, a, t_kept'[c], t_was'[c]), c \in TrapProcs => Ahead(a, t_tf'[c].epc, t_upc'[c])
    PROVE  TrapInv'
<1>1. /\ TrapTypes /\ t_run[h] \in {h} \union TrapProcs /\ (t_run[h] # h => t_at[h] = Loop)
      /\ (t_run[h] \in TrapProcs => ~t_intena[t_run[h]])
  BY Here
<1>2. t_at'[c] = a /\ \A d \in Trap!Contexts \ {c} : t_at'[d] = t_at[d]
  BY <1>1 DEF TrapTypes
<1>3. t_run'[h] # h => t_at'[h] = Loop
  BY <1>1, <1>2 DEF Trap!Contexts
<1>4. HartOK(h)'
  BY <1>1, <1>2, <1>3 DEF HartOK
<1>5. ContextOK(c)'
  BY <1>2 DEF ContextOK
<1>6. ASSUME c \in TrapProcs PROVE ProcOK(c)'
  <2>1. Running(c)' /\ ~t_intena'[c]
    BY <1>1, <1>6 DEF Running
  <2> QED
    BY <1>2, <1>6, <2>1 DEF ProcOK
<1>7. TrapTypes'
  BY <1>1 DEF TrapTypes
<1> QED
  BY <1>1, <1>2, <1>4, <1>5, <1>6, <1>7, OneHart

\* Process c gives up hart h and will go on at place a.
LEMMA Leaves ==
    ASSUME Trap!TrapAssumption, TrapInv, NEW h \in TrapHarts, NEW c \in TrapProcs, c = t_run[h], NEW a \in Parked,
           TrapTypes', t_panicked' = "no", t_run' = [t_run EXCEPT ![h] = h], t_at' = [t_at EXCEPT ![c] = a],
           t_csr' = [t_csr EXCEPT ![h].sp = h], Plain(t_at[c]),
           t_intena'[c] => a \in Interruptible, \A p \in TrapProcs \ {c} : t_intena'[p] = t_intena[p],
           t_pc' = t_pc, t_kept' = t_kept, t_was' = t_was,
           \A p \in TrapProcs \ {c} : t_tf'[p] = t_tf[p] /\ t_upc'[p] = t_upc[p],
           Belongs(c, a, t_kept[c], t_was[c]), Ahead(a, t_tf'[c].epc, t_upc'[c])
    PROVE  TrapInv'
<1>1. /\ TrapTypes /\ t_csr[h] \in Regs /\ t_at[h] = Loop /\ TrapHarts \intersect TrapProcs = {} /\ c \in Trap!Contexts /\ h \in Trap!Contexts
      /\ h # c /\ Fits(h, c, t_at[c], t_csr[h], t_tf[c], t_upc[c], t_was[c])
  BY Here, SMT DEF Trap!Contexts
<1>2. t_at'[c] = a /\ \A d \in Trap!Contexts \ {c} : t_at'[d] = t_at[d]
  BY <1>1 DEF TrapTypes
<1>3. t_run'[h] = h /\ \A g \in TrapHarts \ {h} : t_run'[g] = t_run[g] /\ t_csr'[g] = t_csr[g]
  BY <1>1 DEF TrapTypes
<1>4. /\ t_csr'[h].sp = h /\ t_csr'[h].stvec = t_csr[h].stvec /\ t_csr'[h].tp = t_csr[h].tp /\ t_csr'[h].satp = t_csr[h].satp
  BY <1>1 DEF TrapTypes, Regs
<1>5. t_csr[h].tp = h /\ t_csr[h].satp = "kernel" /\ t_csr[h].stvec = "kernelvec"
  BY PlainRegisters, ZenonT(30)
<1>6. Fits(h, h, Loop, t_csr'[h], t_tf'[h], t_upc'[h], t_was'[h])
  <2>1. Plain(Loop) /\ Loop \in Interruptible
    BY LoopPlace
  <2>2. PICK r : r = t_csr'[h]
    OBVIOUS
  <2>3. Fits(h, h, Loop, r, t_tf'[h], t_upc'[h], t_was'[h])
    <3>1. r.tp = h /\ r.satp = "kernel" /\ r.sp = h /\ r.stvec = "kernelvec"
      BY <1>4, <1>5, <2>2
    <3> QED
      BY <2>1, <3>1, FitsPlain
  <2> QED
    BY <2>2, <2>3
<1>7. HartOK(h)'
  BY <1>1, <1>2, <1>3, <1>6, LoopPlace, SMT DEF HartOK
<1>8. ContextOK(c)'
  BY <1>2 DEF ContextOK
<1>9. ~Running(c)'
  <2>1. \A g \in TrapHarts \ {h} : t_run[g] # c
    BY DEF TrapInv
  <2> QED
    BY <1>1, <1>3, <2>1, SMT DEF Running
<1>10. ProcOK(c)'
  BY <1>2, <1>9 DEF ProcOK
<1> QED
  BY <1>1, <1>2, <1>3, <1>7, <1>8, <1>10, OneHart, ZenonT(30)

\* The step of a process in the kernel proper that leaves everything as it is but its place,
\* and perhaps the interrupt enable bit of the hart.
LEMMA Moves ==
    ASSUME Trap!TrapAssumption, TrapInv, NEW h \in TrapHarts, NEW r \in Regs, NEW a \in Ordinary, t_at[t_run[h]] \in Ordinary,
           t_panicked' = "no", t_at' = [t_at EXCEPT ![t_run[h]] = a], t_csr' \in [TrapHarts -> Regs], t_csr'[h] = r,
           \A g \in TrapHarts \ {h} : t_csr'[g] = t_csr[g], t_killed' \in [TrapProcs -> BOOLEAN],
           r.tp = t_csr[h].tp /\ r.satp = t_csr[h].satp /\ r.sp = t_csr[h].sp /\ r.stvec = t_csr[h].stvec,
           r.sie => a \in Interruptible, UNCHANGED <<t_run, t_intena, t_pc, t_tf, t_kept, t_upc, t_was>>
    PROVE  TrapInv'
<1> DEFINE c == t_run[h]
<1>0. t_csr[h] \in Regs /\ c \in Trap!Contexts /\ h \in Trap!Contexts
  BY Here
<1>1. /\ c \in Trap!Contexts /\ c \in {h} \union TrapProcs /\ TrapTypes /\ t_csr[h] \in Regs /\ TrapHarts \intersect TrapProcs = {}
      /\ Fits(h, c, t_at[c], t_csr[h], t_tf[c], t_upc[c], t_was[c]) /\ Belongs(c, t_at[c], t_kept[c], t_was[c])
      /\ (t_at[c] = Trap!User => t_pc[c] = t_upc[c])
      /\ (c \in TrapProcs => t_tf[c] \in TrapFrames /\ Ahead(t_at[c], t_tf[c].epc, t_upc[c]))
  BY Here
<1>2. /\ Plain(t_at[c]) /\ t_at[c] \in Settled /\ t_at[c] \notin HartPlaces /\ Plain(a) /\ a \in Settled /\ a \in ProcPlaces
      /\ a \in TrapPlaces /\ a # Ecall /\ a # Trap!User /\ a \notin Vectors \union Saved /\ a \notin Saved
  BY OrdinaryPlaces
<1>3. c \in TrapProcs /\ c \notin TrapHarts
  BY <1>1, <1>2 DEF Belongs
<1>4. r.tp = h /\ r.satp = "kernel" /\ r.sp = c /\ r.stvec = "kernelvec"
  <2>1. t_csr[h].tp = h /\ t_csr[h].satp = "kernel" /\ t_csr[h].sp = c /\ t_csr[h].stvec = "kernelvec"
    BY <1>2, PlainRegisters, ZenonT(30)
  <2> QED
    BY <2>1
<1>5. Fits(h, c, a, r, t_tf[c], t_upc[c], t_was[c])
  BY <1>2, <1>4, FitsPlain
<1>6. Belongs(c, a, t_kept[c], t_was[c]) /\ Ahead(a, t_tf[c].epc, t_upc[c])
  BY <1>1, <1>2, <1>3 DEF Belongs, Ahead
<1>7. Typed'
  BY <1>1 DEF TrapTypes, Typed
<1> QED
  BY <1>1, <1>2, <1>5, <1>6, <1>7, Stays

\* forkret(), and the end of a system call, a page fault or another exception.
LEMMA TrapProceeds ==
    ASSUME Trap!TrapAssumption, TrapInv, NEW h \in TrapHarts, Trap!forkret(h) \/ (\E q \in TrapProcs : Trap!syscall(h, q)) \/ Trap!fault(h)
    PROVE  TrapInv'
<1> DEFINE c == t_run[h]
<1>0. t_csr[h] \in Regs /\ c \in Trap!Contexts /\ h \in Trap!Contexts
  BY Here
<1>1. /\ c \in Trap!Contexts /\ c \in {h} \union TrapProcs /\ TrapTypes /\ t_csr[h] \in Regs /\ TrapHarts \intersect TrapProcs = {}
      /\ Fits(h, c, t_at[c], t_csr[h], t_tf[c], t_upc[c], t_was[c]) /\ Belongs(c, t_at[c], t_kept[c], t_was[c])
      /\ (t_at[c] = Trap!User => t_pc[c] = t_upc[c])
      /\ (c \in TrapProcs => t_tf[c] \in TrapFrames /\ Ahead(t_at[c], t_tf[c].epc, t_upc[c]))
  BY Here
<1>2. t_at[c] \in Ordinary /\ t_panicked = "no"
  BY DEF Trap!forkret, Trap!syscall, Trap!fault, Trap!At, Ordinary
<1>3. PICK a \in Ordinary : t_at' = [t_at EXCEPT ![c] = a] /\ a \in Interruptible
  BY DEF Trap!forkret, Trap!syscall, Trap!fault, Trap!Go, Ordinary, Interruptible
<1>4. UNCHANGED <<t_run, t_csr, t_intena, t_pc, t_tf, t_kept, t_panicked, t_upc, t_was>>
  BY DEF Trap!forkret, Trap!syscall, Trap!fault
<1>5. c \in TrapProcs
  BY <1>1, <1>2, OrdinaryPlaces DEF Belongs
<1>6. t_killed' \in [TrapProcs -> BOOLEAN]
  <2>1. t_killed \in [TrapProcs -> BOOLEAN]
    BY <1>1 DEF TrapTypes, Typed
  <2>2. t_killed' = t_killed \/ \E p \in TrapProcs : \E k \in {t_killed[p], TRUE} : t_killed' = [t_killed EXCEPT ![p] = k]
    BY <1>5 DEF Trap!forkret, Trap!syscall, Trap!fault
  <2> QED
    BY <2>1, <2>2
<1>7. t_csr' \in [TrapHarts -> Regs]
  BY <1>1, <1>4 DEF TrapTypes
<1> QED
  BY <1>1, <1>2, <1>3, <1>4, <1>6, <1>7, Moves

\* usertrapret() turns interrupts off.
LEMMA TrapOff ==
    ASSUME Trap!TrapAssumption, TrapInv, NEW h \in TrapHarts, Trap!usertrapret_off(h)
    PROVE  TrapInv'
<1> DEFINE c == t_run[h]
<1> DEFINE a == <<"usertrapret", "vector">>
<1>0. t_csr[h] \in Regs /\ c \in Trap!Contexts /\ h \in Trap!Contexts
  BY Here
<1>1. /\ c \in Trap!Contexts /\ c \in {h} \union TrapProcs /\ TrapTypes /\ t_csr[h] \in Regs /\ TrapHarts \intersect TrapProcs = {}
      /\ Fits(h, c, t_at[c], t_csr[h], t_tf[c], t_upc[c], t_was[c]) /\ Belongs(c, t_at[c], t_kept[c], t_was[c])
      /\ (t_at[c] = Trap!User => t_pc[c] = t_upc[c])
      /\ (c \in TrapProcs => t_tf[c] \in TrapFrames /\ Ahead(t_at[c], t_tf[c].epc, t_upc[c]))
  BY Here
<1>2. t_at[c] \in Ordinary /\ a \in Ordinary /\ t_panicked = "no"
  BY DEF Trap!usertrapret_off, Trap!At, Ordinary
<1> DEFINE r == [t_csr[h] EXCEPT !.sie = FALSE]
<1>3. /\ r \in Regs /\ r.sie = FALSE /\ r.stvec = t_csr[h].stvec /\ r.cause = t_csr[h].cause /\ r.sepc = t_csr[h].sepc
      /\ r.spp = t_csr[h].spp /\ r.spie = t_csr[h].spie /\ r.tp = t_csr[h].tp /\ r.satp = t_csr[h].satp
      /\ r.sp = t_csr[h].sp
  BY <1>0 DEF Regs
<1> HIDE DEF r
<1>4. t_csr' \in [TrapHarts -> Regs] /\ t_csr'[h] = r /\ \A g \in TrapHarts \ {h} : t_csr'[g] = t_csr[g]
  BY <1>1, <1>3 DEF r, Trap!usertrapret_off, Trap!intr_off, TrapTypes
<1>5. t_at' = [t_at EXCEPT ![c] = a] /\ UNCHANGED <<t_run, t_intena, t_killed, t_pc, t_tf, t_kept, t_panicked, t_upc, t_was>>
  BY DEF Trap!usertrapret_off, Trap!Go
<1>6. t_killed' \in [TrapProcs -> BOOLEAN]
  BY <1>1, <1>5 DEF TrapTypes, Typed
<1> HIDE DEF a
<1> QED
  BY <1>1, <1>2, <1>3, <1>4, <1>5, <1>6, Moves

\* scheduler() turns interrupts on.
LEMMA TrapScheduler ==
    ASSUME Trap!TrapAssumption, TrapInv, NEW h \in TrapHarts, Trap!scheduler(h)
    PROVE  TrapInv'
<1> DEFINE c == t_run[h]
<1>0. t_csr[h] \in Regs /\ c \in Trap!Contexts /\ h \in Trap!Contexts
  BY Here
<1>1. /\ c \in Trap!Contexts /\ c \in {h} \union TrapProcs /\ TrapTypes /\ t_csr[h] \in Regs /\ TrapHarts \intersect TrapProcs = {}
      /\ Fits(h, c, t_at[c], t_csr[h], t_tf[c], t_upc[c], t_was[c]) /\ Belongs(c, t_at[c], t_kept[c], t_was[c])
      /\ (t_at[c] = Trap!User => t_pc[c] = t_upc[c])
      /\ (c \in TrapProcs => t_tf[c] \in TrapFrames /\ Ahead(t_at[c], t_tf[c].epc, t_upc[c]))
  BY Here
<1>2. t_at[c] = Loop /\ t_panicked = "no"
  BY DEF Trap!scheduler, Trap!At, Loop
<1> DEFINE r == [t_csr[h] EXCEPT !.sie = TRUE]
<1>3. /\ r \in Regs /\ r.sie = TRUE /\ r.stvec = t_csr[h].stvec /\ r.cause = t_csr[h].cause /\ r.sepc = t_csr[h].sepc
      /\ r.spp = t_csr[h].spp /\ r.spie = t_csr[h].spie /\ r.tp = t_csr[h].tp /\ r.satp = t_csr[h].satp
      /\ r.sp = t_csr[h].sp
  BY <1>0 DEF Regs
<1> HIDE DEF r
<1>4. t_csr' \in [TrapHarts -> Regs] /\ t_csr'[h] = r /\ \A g \in TrapHarts \ {h} : t_csr'[g] = t_csr[g]
  BY <1>1, <1>3 DEF r, Trap!scheduler, TrapTypes
<1>5. UNCHANGED <<t_run, t_intena, t_pc, t_tf, t_kept, t_killed, t_panicked, t_upc, t_was>> /\ t_at' = [t_at EXCEPT ![c] = Loop]
  BY <1>1, <1>2 DEF Trap!scheduler, TrapTypes
<1>6. Typed'
  BY <1>1, <1>5 DEF TrapTypes, Typed
<1>7. Plain(Loop) /\ Loop \in Interruptible /\ Loop \in TrapPlaces /\ Loop # Trap!User
  BY LoopPlace
<1>8. r.tp = h /\ r.satp = "kernel" /\ r.sp = c /\ r.stvec = "kernelvec"
  <2>1. t_csr[h].tp = h /\ t_csr[h].satp = "kernel" /\ t_csr[h].sp = c /\ t_csr[h].stvec = "kernelvec"
    BY <1>2, <1>7, PlainRegisters, ZenonT(30)
  <2> QED
    BY <1>3, <2>1
<1>9. Fits(h, c, Loop, r, t_tf[c], t_upc[c], t_was[c])
  BY <1>7, <1>8, FitsPlain
<1> QED
  BY <1>1, <1>2, <1>4, <1>5, <1>6, <1>7, <1>9, Stays

\* uservec takes the kernel's stack, hart number and page table from the trapframe.
LEMMA TrapUservec ==
    ASSUME Trap!TrapAssumption, TrapInv, NEW h \in TrapHarts, Trap!uservec(h)
    PROVE  TrapInv'
<1> DEFINE c == t_run[h]
<1> DEFINE a == <<"usertrap", "entry">>
<1>0. t_csr[h] \in Regs /\ c \in Trap!Contexts /\ h \in Trap!Contexts
  BY Here
<1>1. /\ c \in Trap!Contexts /\ c \in {h} \union TrapProcs /\ TrapTypes /\ t_csr[h] \in Regs /\ TrapHarts \intersect TrapProcs = {}
      /\ Fits(h, c, t_at[c], t_csr[h], t_tf[c], t_upc[c], t_was[c]) /\ Belongs(c, t_at[c], t_kept[c], t_was[c])
      /\ (t_at[c] = Trap!User => t_pc[c] = t_upc[c])
      /\ (c \in TrapProcs => t_tf[c] \in TrapFrames /\ Ahead(t_at[c], t_tf[c].epc, t_upc[c]))
  BY Here
<1>2. t_at[c] = <<"uservec", "entry">> /\ t_panicked = "no"
  BY DEF Trap!uservec, Trap!At
<1>3. /\ t_at[c] \notin HartPlaces /\ a \in ProcPlaces /\ a \in TrapPlaces /\ a # Ecall /\ a \notin Settled
      /\ a \notin Vectors \union Saved /\ a \notin Saved /\ a # Trap!User
  BY <1>2, UserPlaces DEF Trap!User
<1>4. c \in TrapProcs /\ c \notin TrapHarts
  BY <1>1, <1>3 DEF Belongs
<1>5. /\ ~t_csr[h].sie /\ t_csr[h].satp = c /\ t_csr[h].stvec = "uservec" /\ t_tf[c].sp = c /\ t_tf[c].hart = h /\ ~t_csr[h].spp
      /\ t_csr[h].cause \in Causes
      /\ t_upc[c] = IF t_csr[h].cause = "ecall" THEN Trap!Next1(t_csr[h].sepc.pc) ELSE t_csr[h].sepc.pc
  BY <1>2, Registers, ZenonT(30)
<1> DEFINE r == [t_csr[h] EXCEPT !.sp = c, !.tp = h, !.satp = "kernel"]
<1>8. /\ r \in Regs /\ r.sie = t_csr[h].sie /\ r.stvec = t_csr[h].stvec /\ r.cause = t_csr[h].cause
      /\ r.sepc = t_csr[h].sepc /\ r.spp = t_csr[h].spp /\ r.spie = t_csr[h].spie /\ r.tp = h /\ r.satp = "kernel"
      /\ r.sp = c
  BY <1>0 DEF Regs
<1> HIDE DEF r
<1>9. t_csr' \in [TrapHarts -> Regs] /\ t_csr'[h] = r /\ \A g \in TrapHarts \ {h} : t_csr'[g] = t_csr[g]
  BY <1>1, <1>5, <1>8 DEF r, Trap!uservec, TrapTypes
<1>10. t_at' = [t_at EXCEPT ![c] = a] /\ UNCHANGED <<t_run, t_intena, t_killed, t_pc, t_tf, t_kept, t_panicked, t_upc, t_was>>
  BY DEF Trap!uservec, Trap!Go
<1>11. Typed'
  BY <1>1, <1>10 DEF TrapTypes, Typed
<1>12. Fits(h, c, a, r, t_tf[c], t_upc[c], t_was[c])
  <2>1. /\ ~r.sie /\ r.tp = h /\ r.satp = "kernel" /\ r.sp = c /\ r.stvec = "uservec" /\ ~r.spp /\ r.cause \in Causes
        /\ t_upc[c] = IF r.cause = "ecall" THEN Trap!Next1(r.sepc.pc) ELSE r.sepc.pc
    BY <1>5, <1>8
  <2> QED
    BY <2>1, FitsUsertrap
<1>13. Belongs(c, a, t_kept[c], t_was[c]) /\ Ahead(a, t_tf[c].epc, t_upc[c])
  BY <1>3, <1>4 DEF Belongs, Ahead
<1> HIDE DEF a
<1> QED
  BY <1>1, <1>2, <1>3, <1>9, <1>10, <1>11, <1>12, <1>13, Stays

\* usertrap() saves sepc in the trapframe: SPP is clear, so it does not panic.
LEMMA TrapUsertrap ==
    ASSUME Trap!TrapAssumption, TrapInv, NEW h \in TrapHarts, Trap!usertrap(h)
    PROVE  TrapInv'
<1> DEFINE c == t_run[h]
<1> DEFINE a == <<"usertrap", t_csr[h].cause>>
<1>0. t_csr[h] \in Regs /\ c \in Trap!Contexts /\ h \in Trap!Contexts
  BY Here
<1>1. /\ c \in Trap!Contexts /\ c \in {h} \union TrapProcs /\ TrapTypes /\ t_csr[h] \in Regs /\ TrapHarts \intersect TrapProcs = {}
      /\ Fits(h, c, t_at[c], t_csr[h], t_tf[c], t_upc[c], t_was[c]) /\ Belongs(c, t_at[c], t_kept[c], t_was[c])
      /\ (t_at[c] = Trap!User => t_pc[c] = t_upc[c])
      /\ (c \in TrapProcs => t_tf[c] \in TrapFrames /\ Ahead(t_at[c], t_tf[c].epc, t_upc[c]))
  BY Here
<1>2. t_at[c] = <<"usertrap", "entry">> /\ t_panicked = "no"
  BY DEF Trap!usertrap, Trap!At
<1>3. c \in TrapProcs /\ c \notin TrapHarts
  BY <1>1, <1>2, UserPlaces DEF Belongs
<1>4. /\ ~t_csr[h].sie /\ t_csr[h].tp = h /\ t_csr[h].satp = "kernel" /\ t_csr[h].sp = c /\ ~t_csr[h].spp /\ t_csr[h].cause \in Causes
      /\ t_upc[c] = IF t_csr[h].cause = "ecall" THEN Trap!Next1(t_csr[h].sepc.pc) ELSE t_csr[h].sepc.pc
  BY <1>2, Registers, ZenonT(30)
<1>5. /\ t_csr' = [t_csr EXCEPT ![h].stvec = "kernelvec"]
      /\ t_at' = [t_at EXCEPT ![c] = a] /\ UNCHANGED <<t_run, t_pc, t_kept, t_intena, t_killed, t_panicked, t_upc, t_was>>
  BY <1>2, <1>4 DEF Trap!usertrap, Trap!Go
<1> DEFINE r == [t_csr[h] EXCEPT !.stvec = "kernelvec"]
<1>6. /\ r \in Regs /\ r.sie = t_csr[h].sie /\ r.stvec = "kernelvec" /\ r.cause = t_csr[h].cause
      /\ r.sepc = t_csr[h].sepc /\ r.spp = t_csr[h].spp /\ r.spie = t_csr[h].spie /\ r.tp = t_csr[h].tp
      /\ r.satp = t_csr[h].satp /\ r.sp = t_csr[h].sp
  BY <1>0 DEF Regs
<1> HIDE DEF r
<1>7. t_csr' \in [TrapHarts -> Regs] /\ t_csr'[h] = r /\ \A g \in TrapHarts \ {h} : t_csr'[g] = t_csr[g]
  BY <1>1, <1>5, <1>6 DEF r, TrapTypes
<1>8. PICK e \in Nat : e = t_csr[h].sepc.pc
  BY <1>1 DEF Regs, Sepcs
<1>9. t_tf'[c].epc = e /\ t_tf' \in [TrapProcs -> TrapFrames] /\ \A p \in TrapProcs \ {c} : t_tf'[p] = t_tf[p]
  <2>1. t_tf' = [t_tf EXCEPT ![c].epc = e] /\ t_tf \in [TrapProcs -> TrapFrames]
    BY <1>1, <1>2, <1>4, <1>8 DEF Trap!usertrap, TrapTypes, Typed
  <2> QED
    BY <1>3, <2>1, ZenonT(30) DEF TrapFrames
<1>10. Typed'
  BY <1>1, <1>5, <1>9 DEF TrapTypes, Typed
<1>11. t_csr[h].cause \in {"timer", "device", "fault", "bad", "ecall"}
  BY <1>4 DEF Trap!TrapAssumption
<1>12. (t_csr[h].cause = "ecall" /\ a = Ecall) \/ (t_csr[h].cause # "ecall" /\ a \in Ordinary)
  BY <1>11 DEF Ecall, Ordinary
<1>13. /\ Plain(a) /\ a \in ProcPlaces /\ a \in TrapPlaces /\ a # Trap!User /\ a \notin Vectors \union Saved /\ a \notin Saved
       /\ (a = Ecall => t_csr[h].cause = "ecall") /\ (a \in Settled => t_csr[h].cause # "ecall")
  <2>1. Ecall # Trap!User /\ Ecall \notin Vectors \union Saved /\ Ecall \notin Saved
    BY DEF Ecall, Trap!User, Vectors, Saved
  <2> HIDE DEF a
  <2> QED
    BY <1>12, <2>1, OrdinaryPlaces, EcallPlace
<1> HIDE DEF a
<1>14. Fits(h, c, a, r, t_tf'[c], t_upc'[c], t_was'[c])
  <2>1. ~r.sie /\ r.tp = h /\ r.satp = "kernel" /\ r.sp = c /\ r.stvec = "kernelvec"
    BY <1>4, <1>6
  <2> QED
    BY <1>13, <2>1, FitsPlain
<1>15. Belongs(c, a, t_kept'[c], t_was'[c])
  BY <1>3, <1>13 DEF Belongs
<1>16. Ahead(a, t_tf'[c].epc, t_upc'[c])
  BY <1>4, <1>5, <1>8, <1>9, <1>13 DEF Ahead
<1>17. t_at' = [t_at EXCEPT ![c] = a] /\ t_panicked' = "no" /\ UNCHANGED <<t_run, t_intena, t_pc, t_kept, t_upc, t_was>>
  BY <1>2, <1>5
<1> QED
  BY <1>1, <1>7, <1>9, <1>10, <1>13, <1>14, <1>15, <1>16, <1>17, Stays

\* usertrapret() sends traps to uservec.
LEMMA TrapVector ==
    ASSUME Trap!TrapAssumption, TrapInv, NEW h \in TrapHarts, Trap!usertrapret_vector(h)
    PROVE  TrapInv'
<1> DEFINE c == t_run[h]
<1>0. t_csr[h] \in Regs /\ c \in Trap!Contexts /\ h \in Trap!Contexts
  BY Here
<1>1. /\ c \in Trap!Contexts /\ c \in {h} \union TrapProcs /\ TrapTypes /\ t_csr[h] \in Regs /\ TrapHarts \intersect TrapProcs = {}
      /\ Fits(h, c, t_at[c], t_csr[h], t_tf[c], t_upc[c], t_was[c]) /\ Belongs(c, t_at[c], t_kept[c], t_was[c])
      /\ (t_at[c] = Trap!User => t_pc[c] = t_upc[c])
      /\ (c \in TrapProcs => t_tf[c] \in TrapFrames /\ Ahead(t_at[c], t_tf[c].epc, t_upc[c]))
  BY Here
<1>2. t_at[c] = <<"usertrapret", "vector">> /\ t_at[c] \in Ordinary /\ t_panicked = "no"
  BY DEF Trap!usertrapret_vector, Trap!At, Ordinary
<1>3. Plain(t_at[c]) /\ t_at[c] \in Settled /\ t_at[c] \notin HartPlaces /\ t_at[c] \notin Interruptible
  BY <1>2, OrdinaryPlaces, SMT DEF Interruptible, Loop
<1>4. c \in TrapProcs /\ c \notin TrapHarts
  BY <1>1, <1>3 DEF Belongs
<1>5. ~t_csr[h].sie /\ t_csr[h].tp = h /\ t_csr[h].satp = "kernel" /\ t_csr[h].sp = c
  BY <1>3, PlainRegisters, ZenonT(30)
<1> DEFINE r == [t_csr[h] EXCEPT !.stvec = "uservec"]
<1>6. /\ r \in Regs /\ r.sie = t_csr[h].sie /\ r.stvec = "uservec" /\ r.cause = t_csr[h].cause
      /\ r.sepc = t_csr[h].sepc /\ r.spp = t_csr[h].spp /\ r.spie = t_csr[h].spie /\ r.tp = t_csr[h].tp
      /\ r.satp = t_csr[h].satp /\ r.sp = t_csr[h].sp
  BY <1>0 DEF Regs
<1> HIDE DEF r
<1>7. t_csr' \in [TrapHarts -> Regs] /\ t_csr'[h] = r /\ \A g \in TrapHarts \ {h} : t_csr'[g] = t_csr[g]
  BY <1>1, <1>6 DEF r, Trap!usertrapret_vector, TrapTypes
<1>8. t_at' = [t_at EXCEPT ![c] = Frame] /\ UNCHANGED <<t_run, t_intena, t_killed, t_pc, t_tf, t_kept, t_panicked, t_upc, t_was>>
  BY DEF Trap!usertrapret_vector, Trap!Go, Frame
<1>9. Typed'
  BY <1>1, <1>8 DEF TrapTypes, Typed
<1>10. Fits(h, c, Frame, r, t_tf[c], t_upc[c], t_was[c])
  <2>1. ~r.sie /\ r.tp = h /\ r.satp = "kernel" /\ r.sp = c /\ r.stvec = "uservec"
    BY <1>5, <1>6
  <2> QED
    BY <2>1, FitsFrame
<1>11. Belongs(c, Frame, t_kept[c], t_was[c]) /\ Ahead(Frame, t_tf[c].epc, t_upc[c])
  BY <1>1, <1>3, <1>4, FramePlace DEF Belongs, Ahead
<1> QED
  BY <1>1, <1>2, <1>7, <1>8, <1>9, <1>10, <1>11, FramePlace, Stays

\* usertrapret() prepares the trapframe and the registers for sret.
LEMMA TrapFrame ==
    ASSUME Trap!TrapAssumption, TrapInv, NEW h \in TrapHarts, Trap!usertrapret_frame(h)
    PROVE  TrapInv'
<1> DEFINE c == t_run[h]
<1>0. t_csr[h] \in Regs /\ c \in Trap!Contexts /\ h \in Trap!Contexts
  BY Here
<1>1. /\ c \in Trap!Contexts /\ c \in {h} \union TrapProcs /\ TrapTypes /\ t_csr[h] \in Regs /\ TrapHarts \intersect TrapProcs = {}
      /\ Fits(h, c, t_at[c], t_csr[h], t_tf[c], t_upc[c], t_was[c]) /\ Belongs(c, t_at[c], t_kept[c], t_was[c])
      /\ (t_at[c] = Trap!User => t_pc[c] = t_upc[c])
      /\ (c \in TrapProcs => t_tf[c] \in TrapFrames /\ Ahead(t_at[c], t_tf[c].epc, t_upc[c]))
  BY Here
<1>2. t_at[c] = Frame /\ t_panicked = "no"
  BY DEF Trap!usertrapret_frame, Trap!At, Frame
<1>3. c \in TrapProcs /\ c \notin TrapHarts
  BY <1>1, <1>2, FramePlace DEF Belongs
<1>4. ~t_csr[h].sie /\ t_csr[h].tp = h /\ t_csr[h].satp = "kernel" /\ t_csr[h].sp = c /\ t_csr[h].stvec = "uservec"
  BY <1>2, Registers, ZenonT(30)
<1>5. t_upc[c] = t_tf[c].epc /\ t_tf[c].epc \in Nat
  BY <1>1, <1>2, <1>3, FramePlace DEF Ahead, TrapFrames
<1>6. PICK f \in TrapFrames : f = Trap!kernel(t_tf[c], h, c) /\ f.epc = t_tf[c].epc /\ f.sp = c /\ f.hart = h
  <2>1. /\ Trap!kernel(t_tf[c], h, c) \in TrapFrames /\ Trap!kernel(t_tf[c], h, c).epc = t_tf[c].epc /\ Trap!kernel(t_tf[c], h, c).sp = c
        /\ Trap!kernel(t_tf[c], h, c).hart = h
    BY <1>1, <1>3 DEF Trap!kernel, TrapFrames
  <2> QED
    BY <2>1
<1>7. t_tf'[c] = f /\ t_tf' \in [TrapProcs -> TrapFrames] /\ \A p \in TrapProcs \ {c} : t_tf'[p] = t_tf[p]
  BY <1>1, <1>3, <1>4, <1>6 DEF Trap!usertrapret_frame, TrapTypes, Typed
<1>8. PICK e \in Sepcs : e = [place |-> Trap!User, pc |-> t_upc[c]]
  BY <1>5, UserPlaces DEF Sepcs
<1> DEFINE r == [t_csr[h] EXCEPT !.spp = FALSE, !.spie = TRUE, !.sepc = e]
<1>11. /\ r \in Regs /\ r.sie = t_csr[h].sie /\ r.stvec = t_csr[h].stvec /\ r.cause = t_csr[h].cause /\ r.sepc = e
       /\ r.spp = FALSE /\ r.spie = TRUE /\ r.tp = t_csr[h].tp /\ r.satp = t_csr[h].satp /\ r.sp = t_csr[h].sp
  BY <1>0 DEF Regs
<1> HIDE DEF r
<1>12. t_csr' \in [TrapHarts -> Regs] /\ t_csr'[h] = r /\ \A g \in TrapHarts \ {h} : t_csr'[g] = t_csr[g]
  BY <1>1, <1>5, <1>8, <1>11 DEF r, Trap!usertrapret_frame, TrapTypes
<1>13. t_at' = [t_at EXCEPT ![c] = Userret] /\ UNCHANGED <<t_run, t_pc, t_kept, t_intena, t_killed, t_panicked, t_upc, t_was>>
  BY DEF Trap!usertrapret_frame, Trap!Go, Userret
<1>14. Typed'
  BY <1>1, <1>7, <1>13 DEF TrapTypes, Typed
<1>15. Fits(h, c, Userret, r, f, t_upc[c], t_was[c])
  <2>1. /\ ~r.sie /\ r.tp = h /\ r.satp = "kernel" /\ r.sp = c /\ r.stvec = "uservec" /\ f.sp = c /\ f.hart = h
        /\ r.sepc = [place |-> Trap!User, pc |-> t_upc[c]] /\ ~r.spp /\ r.spie
    BY <1>4, <1>6, <1>8, <1>11
  <2> QED
    BY <2>1, FitsUserret, ZenonT(30)
<1>16. Belongs(c, Userret, t_kept[c], t_was[c]) /\ Ahead(Userret, f.epc, t_upc[c]) /\ Userret \in TrapPlaces /\ Userret # Trap!User
  BY <1>3, UserPlaces DEF Belongs, Ahead, Userret, Trap!User
<1> QED
  BY <1>1, <1>2, <1>7, <1>12, <1>13, <1>14, <1>15, <1>16, Stays

\* sret leaves the enable bit as SPIE says and the other registers alone.
LEMMA AfterSret ==
    ASSUME NEW r \in Regs
    PROVE  \E s \in Regs : /\ s = Trap!Sret(r) /\ s.sie = (IF r.spp THEN r.spie ELSE FALSE) /\ s.stvec = r.stvec
                           /\ s.tp = r.tp /\ s.satp = r.satp /\ s.sp = r.sp
<1>1. PICK e \in Sepcs : e = Trap!NoFrame.sepc
  BY NonePlace DEF Trap!NoFrame, Sepcs
<1>2. PICK i \in BOOLEAN : i = IF r.spp THEN r.spie ELSE FALSE
  BY DEF Regs
<1> DEFINE s == [r EXCEPT !.sie = i, !.cause = "none", !.sepc = e, !.spp = FALSE, !.spie = FALSE]
<1>3. /\ s \in Regs /\ s.sie = i /\ s.stvec = r.stvec /\ s.tp = r.tp /\ s.satp = r.satp /\ s.sp = r.sp
  BY ZenonT(30) DEF Regs
<1> HIDE DEF s
<1> QED
  BY <1>1, <1>2, <1>3 DEF s, Trap!Sret

\* userret goes back to the program.
LEMMA TrapUserret ==
    ASSUME Trap!TrapAssumption, TrapInv, NEW h \in TrapHarts, Trap!userret(h)
    PROVE  TrapInv'
<1> DEFINE c == t_run[h]
<1>0. t_csr[h] \in Regs /\ c \in Trap!Contexts /\ h \in Trap!Contexts
  BY Here
<1>1. /\ c \in Trap!Contexts /\ c \in {h} \union TrapProcs /\ TrapTypes /\ t_csr[h] \in Regs /\ TrapHarts \intersect TrapProcs = {}
      /\ Fits(h, c, t_at[c], t_csr[h], t_tf[c], t_upc[c], t_was[c]) /\ Belongs(c, t_at[c], t_kept[c], t_was[c])
      /\ (t_at[c] = Trap!User => t_pc[c] = t_upc[c])
      /\ (c \in TrapProcs => t_tf[c] \in TrapFrames /\ Ahead(t_at[c], t_tf[c].epc, t_upc[c]))
  BY Here
<1>2. t_at[c] = Userret /\ t_panicked = "no"
  BY DEF Trap!userret, Trap!At, Userret
<1>3. c \in TrapProcs /\ c \notin TrapHarts
  BY <1>1, <1>2, UserPlaces DEF Belongs
<1>4. /\ t_csr[h].stvec = "uservec" /\ t_tf[c].sp = c /\ t_tf[c].hart = h
      /\ t_csr[h].sepc = [place |-> Trap!User, pc |-> t_upc[c]] /\ ~t_csr[h].spp
  BY <1>2, Registers, ZenonT(30)
<1>5. PICK s \in Regs : s = Trap!Sret(t_csr[h]) /\ s.sie = (IF t_csr[h].spp THEN t_csr[h].spie ELSE FALSE) /\ s.stvec = t_csr[h].stvec
  BY <1>0, AfterSret
<1> DEFINE r == [s EXCEPT !.satp = c, !.tp = "user", !.sp = "user"]
<1>6. /\ r \in Regs /\ r.sie = s.sie /\ r.stvec = s.stvec /\ r.satp = c
  BY <1>3 DEF Regs
<1> HIDE DEF r
<1>9. t_csr' \in [TrapHarts -> Regs] /\ t_csr'[h] = r /\ \A g \in TrapHarts \ {h} : t_csr'[g] = t_csr[g]
  BY <1>1, <1>5, <1>6 DEF r, Trap!userret, TrapTypes
<1>10. /\ t_at' = [t_at EXCEPT ![c] = Trap!User] /\ t_panicked' = "no" /\ UNCHANGED <<t_run, t_tf, t_kept, t_intena, t_killed, t_upc, t_was>>
  BY <1>2, <1>4, SMT DEF Trap!userret
<1>11. Typed' /\ t_pc'[c] = t_upc'[c] /\ \A p \in TrapProcs \ {c} : t_pc'[p] = t_pc[p]
  <2>1. t_pc' = [t_pc EXCEPT ![c] = t_upc[c]]
    BY <1>4, SMT DEF Trap!userret
  <2> QED
    BY <1>1, <1>3, <1>10, <2>1 DEF TrapTypes, Typed
<1>12. Fits(h, c, Trap!User, r, t_tf[c], t_upc[c], t_was[c])
  <2>1. ~r.sie /\ r.satp = c /\ r.stvec = "uservec"
    BY <1>4, <1>5, <1>6
  <2> QED
    BY <1>4, <2>1, FitsUser
<1>13. Belongs(c, Trap!User, t_kept[c], t_was[c]) /\ Ahead(Trap!User, t_tf[c].epc, t_upc[c]) /\ Trap!User \in TrapPlaces
  BY <1>3, UserPlaces DEF Belongs, Ahead
<1> QED
  BY <1>1, <1>9, <1>10, <1>11, <1>12, <1>13, Stays

\* kerneltrap() saves the registers: neither of its panics is reached.
LEMMA TrapKernelvec ==
    ASSUME Trap!TrapAssumption, TrapInv, NEW h \in TrapHarts, Trap!kernelvec(h)
    PROVE  TrapInv'
<1> DEFINE c == t_run[h]
<1> DEFINE a == <<"kerneltrap", t_csr[h].cause>>
<1>0. t_csr[h] \in Regs /\ c \in Trap!Contexts /\ h \in Trap!Contexts
  BY Here
<1>1. /\ c \in Trap!Contexts /\ c \in {h} \union TrapProcs /\ TrapTypes /\ t_csr[h] \in Regs /\ TrapHarts \intersect TrapProcs = {}
      /\ Fits(h, c, t_at[c], t_csr[h], t_tf[c], t_upc[c], t_was[c]) /\ Belongs(c, t_at[c], t_kept[c], t_was[c])
      /\ (t_at[c] = Trap!User => t_pc[c] = t_upc[c])
      /\ (c \in TrapProcs => t_tf[c] \in TrapFrames /\ Ahead(t_at[c], t_tf[c].epc, t_upc[c]))
  BY Here
<1>2. t_at[c] = <<"kernelvec", "entry">> /\ t_at[c] \in Vectors /\ t_panicked = "no"
  BY DEF Trap!kernelvec, Trap!At, Vectors
<1>3. /\ ~t_csr[h].sie /\ t_csr[h].tp = h /\ t_csr[h].satp = "kernel" /\ t_csr[h].sp = c /\ t_csr[h].stvec = "kernelvec"
      /\ t_csr[h].spp /\ t_csr[h].spie /\ t_csr[h].sepc.place = t_was[c] /\ t_csr[h].cause \in {"timer", "device"}
  BY <1>2, Registers, ZenonT(30)
<1>4. t_was[c] \in Interruptible /\ (c \in TrapHarts <=> t_was[c] = Loop) /\ t_at[c] \in Settled
  BY <1>1, <1>2, VectorPlaces DEF Belongs
<1>5. PICK k \in Locals : /\ k = [sepc |-> t_csr[h].sepc, spp |-> t_csr[h].spp, spie |-> t_csr[h].spie]
                          /\ k.sepc = t_csr[h].sepc /\ k.spp = t_csr[h].spp /\ k.spie = t_csr[h].spie
  <2>1. t_csr[h].sepc \in Sepcs /\ t_csr[h].spp \in BOOLEAN /\ t_csr[h].spie \in BOOLEAN
    BY <1>0 DEF Regs
  <2> DEFINE k == [sepc |-> t_csr[h].sepc, spp |-> t_csr[h].spp, spie |-> t_csr[h].spie]
  <2>2. k \in Locals /\ k.sepc = t_csr[h].sepc /\ k.spp = t_csr[h].spp /\ k.spie = t_csr[h].spie
    BY <2>1 DEF Locals
  <2> QED
    BY <2>2
<1>6. t_kept' = [t_kept EXCEPT ![c] = k]
  BY <1>3, <1>5 DEF Trap!kernelvec
<1>7. t_at' = [t_at EXCEPT ![c] = a] /\ UNCHANGED <<t_run, t_csr, t_pc, t_tf, t_intena, t_killed, t_panicked, t_upc, t_was>>
  BY <1>3 DEF Trap!kernelvec, Trap!Go
<1>8. Typed' /\ t_kept'[c] = k /\ t_csr' \in [TrapHarts -> Regs] /\ \A d \in Trap!Contexts \ {c} : t_kept'[d] = t_kept[d]
  BY <1>1, <1>6, <1>7 DEF TrapTypes, Typed
<1>9. a \in Saved
  BY <1>3 DEF Saved
<1> HIDE DEF a
<1>10. Plain(a) /\ a \in Settled /\ a \in TrapPlaces /\ a # Trap!User /\ a \in HartPlaces /\ a \in ProcPlaces /\ a # Ecall
  BY <1>9, SavedPlaces
<1>11. Fits(h, c, a, t_csr[h], t_tf[c], t_upc[c], t_was[c])
  BY <1>3, <1>10, FitsPlain, ZenonT(30)
<1>12. Belongs(c, a, k, t_was[c]) /\ (c \in TrapProcs => Ahead(a, t_tf[c].epc, t_upc[c]))
  BY <1>1, <1>3, <1>4, <1>5, <1>10 DEF Belongs, Ahead
<1>13. Belongs(c, a, t_kept'[c], t_was'[c])
  BY <1>7, <1>8, <1>12
<1> QED
  BY <1>1, <1>2, <1>7, <1>8, <1>10, <1>11, <1>12, <1>13, Stays

\* kerneltrap() puts back what kernelvec needs, other traps in between or not.
LEMMA TrapEnd ==
    ASSUME Trap!TrapAssumption, TrapInv, NEW h \in TrapHarts, Trap!kerneltrap_end(h)
    PROVE  TrapInv'
<1> DEFINE c == t_run[h]
<1> DEFINE a == <<"kernelvec", "sret">>
<1>0. t_csr[h] \in Regs /\ c \in Trap!Contexts /\ h \in Trap!Contexts
  BY Here
<1>1. /\ c \in Trap!Contexts /\ c \in {h} \union TrapProcs /\ TrapTypes /\ t_csr[h] \in Regs /\ TrapHarts \intersect TrapProcs = {}
      /\ Fits(h, c, t_at[c], t_csr[h], t_tf[c], t_upc[c], t_was[c]) /\ Belongs(c, t_at[c], t_kept[c], t_was[c])
      /\ (t_at[c] = Trap!User => t_pc[c] = t_upc[c])
      /\ (c \in TrapProcs => t_tf[c] \in TrapFrames /\ Ahead(t_at[c], t_tf[c].epc, t_upc[c]))
  BY Here
<1>2. t_at[c] = <<"kerneltrap", "check">> /\ t_at[c] \in Saved /\ a \in Vectors /\ a # <<"kernelvec", "entry">> /\ t_panicked = "no"
  BY DEF Trap!kerneltrap_end, Trap!At, Saved, Vectors
<1>3. Plain(t_at[c]) /\ t_at[c] \in Settled
  BY <1>2, SavedPlaces
<1>4. /\ t_csr[h].tp = h /\ t_csr[h].satp = "kernel" /\ t_csr[h].sp = c /\ t_csr[h].stvec = "kernelvec"
  BY <1>3, PlainRegisters, ZenonT(30)
<1>5. t_kept[c].sepc.place = t_was[c] /\ t_kept[c].spp /\ t_kept[c].spie /\ t_was[c] \in Interruptible /\ (c \in TrapHarts <=> t_was[c] = Loop)
  BY <1>1, <1>2 DEF Belongs
<1>6. t_kept[c].sepc \in Sepcs /\ t_kept[c].spp \in BOOLEAN /\ t_kept[c].spie \in BOOLEAN
  BY <1>1 DEF TrapTypes, Typed, Locals
<1> DEFINE r == [t_csr[h] EXCEPT !.sepc = t_kept[c].sepc, !.spp = t_kept[c].spp, !.spie = t_kept[c].spie, !.sie = FALSE]
<1>7. /\ r \in Regs /\ r.sie = FALSE /\ r.stvec = t_csr[h].stvec /\ r.cause = t_csr[h].cause
      /\ r.sepc = t_kept[c].sepc /\ r.spp = t_kept[c].spp /\ r.spie = t_kept[c].spie /\ r.tp = t_csr[h].tp
      /\ r.satp = t_csr[h].satp /\ r.sp = t_csr[h].sp
  BY <1>0, <1>6 DEF Regs
<1> HIDE DEF r
<1>8. t_csr' \in [TrapHarts -> Regs] /\ t_csr'[h] = r /\ \A g \in TrapHarts \ {h} : t_csr'[g] = t_csr[g]
  BY <1>1, <1>7 DEF r, Trap!kerneltrap_end, Trap!restore, TrapTypes
<1>9. t_at' = [t_at EXCEPT ![c] = a] /\ UNCHANGED <<t_run, t_pc, t_tf, t_intena, t_killed, t_panicked, t_upc, t_was>>
  BY DEF Trap!kerneltrap_end, Trap!Go
<1>10. Typed' /\ \A d \in Trap!Contexts \ {c} : t_kept'[d] = t_kept[d]
  <2>1. PICK k \in Locals : k = Trap!NoFrame
    BY NonePlace DEF Trap!NoFrame, Locals, Sepcs
  <2>2. t_kept' = [t_kept EXCEPT ![c] = k]
    BY <2>1 DEF Trap!kerneltrap_end
  <2> QED
    BY <1>1, <1>9, <2>2 DEF TrapTypes, Typed
<1> HIDE DEF a
<1>11. Fits(h, c, a, r, t_tf[c], t_upc[c], t_was[c])
  <2>1. /\ ~r.sie /\ r.tp = h /\ r.satp = "kernel" /\ r.sp = c /\ r.stvec = "kernelvec" /\ r.sepc.place = t_was[c] /\ r.spp /\ r.spie
    BY <1>4, <1>5, <1>7
  <2> QED
    BY <1>2, <2>1, FitsVector, SMT
<1>12. a \in Settled /\ a \in TrapPlaces /\ a # Trap!User /\ a \in HartPlaces /\ a \in ProcPlaces /\ a # Ecall /\ a \notin Saved
  BY <1>2, VectorPlaces
<1>13. Belongs(c, a, t_kept'[c], t_was[c]) /\ (c \in TrapProcs => Ahead(a, t_tf[c].epc, t_upc[c]))
  BY <1>1, <1>3, <1>5, <1>12 DEF Belongs, Ahead
<1> QED
  BY <1>1, <1>2, <1>8, <1>9, <1>10, <1>11, <1>12, <1>13, Stays

\* kernelvec goes back to the interrupted code.
LEMMA TrapSret ==
    ASSUME Trap!TrapAssumption, TrapInv, NEW h \in TrapHarts, Trap!kernelvec_sret(h)
    PROVE  TrapInv'
<1> DEFINE c == t_run[h]
<1> DEFINE a == t_was[c]
<1>0. t_csr[h] \in Regs /\ c \in Trap!Contexts /\ h \in Trap!Contexts
  BY Here
<1>1. /\ c \in Trap!Contexts /\ c \in {h} \union TrapProcs /\ TrapTypes /\ t_csr[h] \in Regs /\ TrapHarts \intersect TrapProcs = {}
      /\ Fits(h, c, t_at[c], t_csr[h], t_tf[c], t_upc[c], t_was[c]) /\ Belongs(c, t_at[c], t_kept[c], t_was[c])
      /\ (t_at[c] = Trap!User => t_pc[c] = t_upc[c])
      /\ (c \in TrapProcs => t_tf[c] \in TrapFrames /\ Ahead(t_at[c], t_tf[c].epc, t_upc[c]))
  BY Here
<1>2. t_at[c] = <<"kernelvec", "sret">> /\ t_at[c] \in Vectors /\ t_panicked = "no"
  BY DEF Trap!kernelvec_sret, Trap!At, Vectors
<1>3. /\ t_csr[h].tp = h /\ t_csr[h].satp = "kernel" /\ t_csr[h].sp = c /\ t_csr[h].stvec = "kernelvec" /\ t_csr[h].sepc.place = a
  BY <1>2, Registers, ZenonT(30)
<1>4. a \in Interruptible /\ (c \in TrapHarts <=> a = Loop) /\ t_at[c] \in Settled
  BY <1>1, <1>2, VectorPlaces DEF Belongs
<1>5. t_at' = [t_at EXCEPT ![c] = a] /\ UNCHANGED <<t_run, t_pc, t_tf, t_kept, t_intena, t_killed, t_panicked, t_upc>>
  BY <1>3 DEF Trap!kernelvec_sret
<1>6. PICK r \in Regs : r = Trap!Sret(t_csr[h]) /\ r.stvec = t_csr[h].stvec /\ r.tp = t_csr[h].tp /\ r.satp = t_csr[h].satp /\ r.sp = t_csr[h].sp
  BY <1>0, AfterSret
<1>7. t_csr' \in [TrapHarts -> Regs] /\ t_csr'[h] = r /\ \A g \in TrapHarts \ {h} : t_csr'[g] = t_csr[g]
  BY <1>1, <1>6 DEF Trap!kernelvec_sret, TrapTypes
<1>8. Typed' /\ \A d \in Trap!Contexts \ {c} : t_was'[d] = t_was[d]
  BY <1>1, <1>5, NonePlace, SMT DEF Trap!kernelvec_sret, TrapTypes, Typed
<1> HIDE DEF a
<1>9. /\ Plain(a) /\ a \in TrapPlaces /\ a # Trap!User /\ a \notin Vectors \union Saved /\ a \notin Saved /\ a # Ecall
      /\ (a = Loop => a \in HartPlaces /\ a \notin Settled) /\ (a # Loop => a \in ProcPlaces)
  BY <1>4, InterruptiblePlaces, OrdinaryPlaces, LoopPlace
<1>10. Fits(h, c, a, r, t_tf[c], t_upc[c], t_was'[c])
  <2>1. r.tp = h /\ r.satp = "kernel" /\ r.sp = c /\ r.stvec = "kernelvec"
    BY <1>3, <1>6
  <2> QED
    BY <1>4, <1>9, <2>1, FitsPlain
<1>11. Belongs(c, a, t_kept[c], t_was'[c]) /\ (c \in TrapProcs => Ahead(a, t_tf[c].epc, t_upc[c]))
  BY <1>1, <1>4, <1>9 DEF Belongs, Ahead
<1> QED
  BY <1>1, <1>2, <1>5, <1>7, <1>8, <1>9, <1>10, <1>11, Stays

\* A step of the program.
LEMMA TrapExecute ==
    ASSUME Trap!TrapAssumption, TrapInv, NEW h \in TrapHarts, Trap!execute(h)
    PROVE  TrapInv'
<1> DEFINE c == t_run[h]
<1>0. t_csr[h] \in Regs /\ c \in Trap!Contexts /\ h \in Trap!Contexts
  BY Here
<1>1. /\ c \in Trap!Contexts /\ c \in {h} \union TrapProcs /\ TrapTypes /\ t_csr[h] \in Regs /\ TrapHarts \intersect TrapProcs = {}
      /\ Fits(h, c, t_at[c], t_csr[h], t_tf[c], t_upc[c], t_was[c]) /\ Belongs(c, t_at[c], t_kept[c], t_was[c])
      /\ (t_at[c] = Trap!User => t_pc[c] = t_upc[c])
      /\ (c \in TrapProcs => t_tf[c] \in TrapFrames /\ Ahead(t_at[c], t_tf[c].epc, t_upc[c]))
  BY Here
<1>2. t_at[c] = Trap!User /\ t_panicked' = "no" /\ UNCHANGED <<t_run, t_csr, t_at, t_tf, t_kept, t_intena, t_killed, t_was>>
  BY DEF Trap!execute
<1>3. c \in TrapProcs /\ c \notin TrapHarts
  BY <1>1, <1>2, UserPlaces DEF Belongs
<1>4. /\ Typed' /\ t_pc'[c] = t_upc'[c] /\ \A p \in TrapProcs \ {c} : t_pc'[p] = t_pc[p] /\ t_upc'[p] = t_upc[p]
  <2>1. PICK k \in Nat : k = Trap!Next1(t_pc[c]) /\ k = Trap!Next1(t_upc[c])
    BY <1>1, <1>2, <1>3, NextNat DEF TrapTypes, Typed
  <2>2. t_pc' = [t_pc EXCEPT ![c] = k] /\ t_upc' = [t_upc EXCEPT ![c] = k]
    BY <2>1 DEF Trap!execute
  <2> QED
    BY <1>1, <1>2, <1>3, <2>2 DEF TrapTypes, Typed
<1>5. Fits(h, c, Trap!User, t_csr[h], t_tf[c], t_upc'[c], t_was[c])
  BY <1>1, <1>2, FitsUser
<1>6. Belongs(c, Trap!User, t_kept[c], t_was[c]) /\ Ahead(Trap!User, t_tf[c].epc, t_upc'[c]) /\ Trap!User \in TrapPlaces
  BY <1>3, UserPlaces DEF Belongs, Ahead
<1>7. t_at' = [t_at EXCEPT ![c] = Trap!User] /\ t_csr' \in [TrapHarts -> Regs]
  BY <1>1, <1>2 DEF TrapTypes
<1>8. t_panicked' = "no" /\ UNCHANGED <<t_run, t_csr, t_tf, t_kept, t_intena, t_was>>
  BY <1>2
<1> QED
  BY <1>1, <1>4, <1>5, <1>6, <1>7, <1>8, Stays, ZenonT(30)

\* A step inside kerneltrap() that leaves everything as it is but the place.
LEMMA Inside ==
    ASSUME Trap!TrapAssumption, TrapInv, NEW h \in TrapHarts, NEW a \in Saved, t_at[t_run[h]] \in Saved, t_panicked' = "no",
           t_at' = [t_at EXCEPT ![t_run[h]] = a], UNCHANGED <<t_run, t_csr, t_intena, t_killed, t_pc, t_tf, t_kept, t_upc, t_was>>
    PROVE  TrapInv'
<1> DEFINE c == t_run[h]
<1>0. t_csr[h] \in Regs /\ c \in Trap!Contexts /\ h \in Trap!Contexts
  BY Here
<1>1. /\ c \in Trap!Contexts /\ c \in {h} \union TrapProcs /\ TrapTypes /\ t_csr[h] \in Regs /\ TrapHarts \intersect TrapProcs = {}
      /\ Fits(h, c, t_at[c], t_csr[h], t_tf[c], t_upc[c], t_was[c]) /\ Belongs(c, t_at[c], t_kept[c], t_was[c])
      /\ (t_at[c] = Trap!User => t_pc[c] = t_upc[c])
      /\ (c \in TrapProcs => t_tf[c] \in TrapFrames /\ Ahead(t_at[c], t_tf[c].epc, t_upc[c]))
  BY Here
<1>2. /\ Plain(t_at[c]) /\ t_at[c] \in Settled /\ t_at[c] \notin Interruptible /\ Plain(a) /\ a \in Settled /\ a \in ProcPlaces
      /\ a \in HartPlaces /\ a \in TrapPlaces /\ a # Ecall /\ a # Trap!User
  BY SavedPlaces
<1>3. Fits(h, c, a, t_csr[h], t_tf[c], t_upc[c], t_was[c])
  <2>1. ~t_csr[h].sie /\ t_csr[h].tp = h /\ t_csr[h].satp = "kernel" /\ t_csr[h].sp = c /\ t_csr[h].stvec = "kernelvec"
    BY <1>2, PlainRegisters, ZenonT(30)
  <2> QED
    BY <1>2, <2>1, FitsPlain
<1>4. Belongs(c, a, t_kept[c], t_was[c]) /\ (c \in TrapProcs => Ahead(a, t_tf[c].epc, t_upc[c]))
  BY <1>1, <1>2 DEF Belongs, Ahead
<1>5. Typed' /\ t_csr' \in [TrapHarts -> Regs]
  BY <1>1 DEF TrapTypes, Typed
<1> QED
  BY <1>1, <1>2, <1>3, <1>4, <1>5, Stays

\* The PLIC's claim, the device's service and its completion, in usertrap() or kerneltrap().
LEMMA TrapDevice ==
    ASSUME Trap!TrapAssumption, TrapInv, NEW h \in TrapHarts, Trap!plic_claim(h) \/ Trap!serve(h) \/ Trap!plic_complete(h)
    PROVE  TrapInv'
<1> DEFINE c == t_run[h]
<1>0. t_csr[h] \in Regs /\ c \in Trap!Contexts /\ h \in Trap!Contexts
  BY Here
<1>1. /\ c \in Trap!Contexts /\ c \in {h} \union TrapProcs /\ TrapTypes /\ t_csr[h] \in Regs /\ TrapHarts \intersect TrapProcs = {}
      /\ Fits(h, c, t_at[c], t_csr[h], t_tf[c], t_upc[c], t_was[c]) /\ Belongs(c, t_at[c], t_kept[c], t_was[c])
      /\ (t_at[c] = Trap!User => t_pc[c] = t_upc[c])
      /\ (c \in TrapProcs => t_tf[c] \in TrapFrames /\ Ahead(t_at[c], t_tf[c].epc, t_upc[c]))
  BY Here
<1>2. PICK rt \in {"usertrap", "kerneltrap"} : rt = t_at[c][1]
  BY DEF Trap!plic_claim, Trap!serve, Trap!plic_complete, Trap!devintr
<1>3. PICK s \in {"device", "serve", "complete"} : t_at[c] = <<rt, s>> /\ t_panicked = "no"
  BY <1>2 DEF Trap!plic_claim, Trap!serve, Trap!plic_complete, Trap!devintr, Trap!At
<1>4. PICK t \in {"serve", "complete", "check"} : t_at' = [t_at EXCEPT ![c] = <<rt, t>>]
  BY <1>2 DEF Trap!plic_claim, Trap!serve, Trap!plic_complete, Trap!Go
<1>5. t_panicked' = "no" /\ UNCHANGED <<t_run, t_csr, t_pc, t_tf, t_kept, t_intena, t_killed, t_upc, t_was>>
  BY <1>3 DEF Trap!plic_claim, Trap!serve, Trap!plic_complete
<1>6. t_csr' \in [TrapHarts -> Regs] /\ t_killed' \in [TrapProcs -> BOOLEAN]
  BY <1>1, <1>5 DEF TrapTypes, Typed
<1>7. CASE rt = "usertrap"
  <2>1. PICK a \in Ordinary : a = <<rt, t>>
    BY <1>7 DEF Ordinary
  <2>2. t_at[c] \in Ordinary /\ t_at[c] \notin Interruptible
    BY <1>3, <1>7, SMT DEF Ordinary, Interruptible, Loop
  <2>3. ~t_csr[h].sie
    BY <1>1, <2>2, OrdinaryPlaces, FitsPlain, ZenonT(30)
  <2>4. t_at' = [t_at EXCEPT ![c] = a]
    BY <1>4, <2>1
  <2> QED
    BY <1>0, <1>5, <1>6, <2>2, <2>3, <2>4, Moves
<1>8. CASE rt = "kerneltrap"
  <2>1. PICK a \in Saved : a = <<rt, t>>
    BY <1>8 DEF Saved
  <2>2. t_at[c] \in Saved
    BY <1>3, <1>8 DEF Saved
  <2>3. t_at' = [t_at EXCEPT ![c] = a]
    BY <1>4, <2>1
  <2> QED
    BY <1>5, <2>2, <2>3, Inside
<1> QED
  BY <1>7, <1>8

\* exit(): the process leaves its hart for good.
LEMMA TrapExit ==
    ASSUME Trap!TrapAssumption, TrapInv, NEW h \in TrapHarts, t_run[h] \in TrapProcs, Plain(t_at[t_run[h]]), t_panicked = "no", Trap!exit(h)
    PROVE  TrapInv'
<1> DEFINE c == t_run[h]
<1>0. t_csr[h] \in Regs /\ c \in Trap!Contexts /\ h \in Trap!Contexts
  BY Here
<1>1. /\ c \in Trap!Contexts /\ c \in {h} \union TrapProcs /\ TrapTypes /\ t_csr[h] \in Regs /\ TrapHarts \intersect TrapProcs = {}
      /\ Fits(h, c, t_at[c], t_csr[h], t_tf[c], t_upc[c], t_was[c]) /\ Belongs(c, t_at[c], t_kept[c], t_was[c])
      /\ (t_at[c] = Trap!User => t_pc[c] = t_upc[c])
      /\ (c \in TrapProcs => t_tf[c] \in TrapFrames /\ Ahead(t_at[c], t_tf[c].epc, t_upc[c]))
  BY Here
<1>2. /\ t_at' = [t_at EXCEPT ![c] = Trap!None] /\ t_run' = [t_run EXCEPT ![h] = h] /\ t_csr' = [t_csr EXCEPT ![h].sp = h]
      /\ t_panicked' = "no" /\ UNCHANGED <<t_pc, t_kept, t_intena, t_was>>
  BY DEF Trap!exit
<1>3. ~t_intena[c]
  BY Here
<1>4. Typed' /\ \A p \in TrapProcs \ {c} : t_tf'[p] = t_tf[p] /\ t_upc'[p] = t_upc[p]
  <2>1. PICK f \in TrapFrames : f = [epc |-> 0, hart |-> "none", sp |-> "none"]
    BY DEF TrapFrames
  <2>2. t_tf' = [t_tf EXCEPT ![c] = f] /\ t_upc' = [t_upc EXCEPT ![c] = 0] /\ t_killed' = [t_killed EXCEPT ![c] = FALSE]
    BY <2>1 DEF Trap!exit
  <2> QED
    BY <1>1, <1>2, <2>2 DEF TrapTypes, Typed
<1>5. TrapTypes'
  <2> DEFINE r == [t_csr[h] EXCEPT !.sp = h]
  <2>1. /\ r \in Regs /\ r.sie = t_csr[h].sie /\ r.stvec = t_csr[h].stvec /\ r.tp = t_csr[h].tp
        /\ r.satp = t_csr[h].satp /\ r.sp = h
    BY <1>0 DEF Regs
  <2> HIDE DEF r
  <2>2. t_csr' \in [TrapHarts -> Regs]
    BY <1>1, <1>2, <2>1 DEF r, TrapTypes
  <2> QED
    BY <1>0, <1>1, <1>2, <1>4, <2>2, NonePlace DEF TrapTypes
<1>6. Belongs(c, Trap!None, t_kept[c], t_was[c]) /\ Ahead(Trap!None, t_tf'[c].epc, t_upc'[c]) /\ Trap!None \in Parked
  BY <1>1, NonePlace DEF Belongs, Ahead
<1> QED
  BY <1>2, <1>3, <1>4, <1>5, <1>6, Leaves

\* A process gives up its hart and will go on at place a.
LEMMA TrapLeave ==
    ASSUME Trap!TrapAssumption, TrapInv, NEW h \in TrapHarts, t_run[h] \in TrapProcs, Plain(t_at[t_run[h]]), t_panicked = "no",
           NEW a \in Parked, a \in TrapPlaces, Trap!Leave(h, a), UNCHANGED <<t_pc, t_tf, t_kept, t_killed, t_panicked, t_upc, t_was>>,
           t_csr[h].sie => a \in Interruptible, Belongs(t_run[h], a, t_kept[t_run[h]], t_was[t_run[h]]),
           Ahead(a, t_tf[t_run[h]].epc, t_upc[t_run[h]])
    PROVE  TrapInv'
<1> DEFINE c == t_run[h]
<1>0. t_csr[h] \in Regs /\ c \in Trap!Contexts /\ h \in Trap!Contexts
  BY Here
<1>1. /\ c \in Trap!Contexts /\ c \in {h} \union TrapProcs /\ TrapTypes /\ t_csr[h] \in Regs /\ TrapHarts \intersect TrapProcs = {}
      /\ Fits(h, c, t_at[c], t_csr[h], t_tf[c], t_upc[c], t_was[c]) /\ Belongs(c, t_at[c], t_kept[c], t_was[c])
      /\ (t_at[c] = Trap!User => t_pc[c] = t_upc[c])
      /\ (c \in TrapProcs => t_tf[c] \in TrapFrames /\ Ahead(t_at[c], t_tf[c].epc, t_upc[c]))
  BY Here
<1>2. /\ t_at' = [t_at EXCEPT ![c] = a] /\ t_run' = [t_run EXCEPT ![h] = h] /\ t_csr' = [t_csr EXCEPT ![h].sp = h]
      /\ t_intena' = [t_intena EXCEPT ![c] = t_csr[h].sie]
  BY DEF Trap!Leave
<1>3. t_csr[h].sie \in BOOLEAN
  BY <1>0 DEF Regs
<1>4. t_intena' \in [TrapProcs -> BOOLEAN] /\ t_intena'[c] = t_csr[h].sie /\ \A p \in TrapProcs \ {c} : t_intena'[p] = t_intena[p]
  BY <1>1, <1>2, <1>3 DEF TrapTypes
<1>5. t_intena'[c] => a \in Interruptible
  BY <1>4
<1>6. TrapTypes'
  <2> DEFINE r == [t_csr[h] EXCEPT !.sp = h]
  <2>1. /\ r \in Regs /\ r.sie = t_csr[h].sie /\ r.stvec = t_csr[h].stvec /\ r.tp = t_csr[h].tp
        /\ r.satp = t_csr[h].satp /\ r.sp = h
    BY <1>0 DEF Regs
  <2> HIDE DEF r
  <2>2. t_csr' \in [TrapHarts -> Regs]
    BY <1>1, <1>2, <2>1 DEF r, TrapTypes
  <2> QED
    BY <1>0, <1>1, <1>2, <1>4, <2>2 DEF TrapTypes, Typed
<1> QED
  BY <1>2, <1>4, <1>5, <1>6, Leaves

\* A system call, or swapin(), that sleeps.
LEMMA TrapSleep ==
    ASSUME Trap!TrapAssumption, TrapInv, NEW h \in TrapHarts, Trap!sleep(h)
    PROVE  TrapInv'
<1> DEFINE c == t_run[h]
<1>0. t_csr[h] \in Regs /\ c \in Trap!Contexts /\ h \in Trap!Contexts
  BY Here
<1>1. /\ c \in Trap!Contexts /\ c \in {h} \union TrapProcs /\ TrapTypes /\ t_csr[h] \in Regs /\ TrapHarts \intersect TrapProcs = {}
      /\ Fits(h, c, t_at[c], t_csr[h], t_tf[c], t_upc[c], t_was[c]) /\ Belongs(c, t_at[c], t_kept[c], t_was[c])
      /\ (t_at[c] = Trap!User => t_pc[c] = t_upc[c])
      /\ (c \in TrapProcs => t_tf[c] \in TrapFrames /\ Ahead(t_at[c], t_tf[c].epc, t_upc[c]))
  BY Here
<1>2. t_at[c] \in Parked /\ t_at[c] \in Ordinary /\ t_panicked = "no"
  BY DEF Trap!sleep, Trap!At, Parked, Ordinary
<1>3. Trap!Leave(h, t_at[c]) /\ UNCHANGED <<t_pc, t_tf, t_kept, t_killed, t_panicked, t_upc, t_was>>
  BY DEF Trap!sleep
<1>4. Plain(t_at[c]) /\ t_at[c] \notin HartPlaces /\ t_at[c] \in TrapPlaces
  BY <1>2, OrdinaryPlaces
<1>5. c \in TrapProcs
  BY <1>1, <1>4 DEF Belongs
<1>6. t_csr[h].sie => t_at[c] \in Interruptible
  BY <1>1, <1>4, FitsPlain, ZenonT(30)
<1> QED
  BY <1>1, <1>2, <1>3, <1>4, <1>5, <1>6, TrapLeave

\* The end of usertrap(), with a yield() after a timer interrupt.
LEMMA TrapCheck ==
    ASSUME Trap!TrapAssumption, TrapInv, NEW h \in TrapHarts, Trap!check(h)
    PROVE  TrapInv'
<1> DEFINE c == t_run[h]
<1> DEFINE a == <<"usertrapret", "off">>
<1>0. t_csr[h] \in Regs /\ c \in Trap!Contexts /\ h \in Trap!Contexts
  BY Here
<1>1. /\ c \in Trap!Contexts /\ c \in {h} \union TrapProcs /\ TrapTypes /\ t_csr[h] \in Regs /\ TrapHarts \intersect TrapProcs = {}
      /\ Fits(h, c, t_at[c], t_csr[h], t_tf[c], t_upc[c], t_was[c]) /\ Belongs(c, t_at[c], t_kept[c], t_was[c])
      /\ (t_at[c] = Trap!User => t_pc[c] = t_upc[c])
      /\ (c \in TrapProcs => t_tf[c] \in TrapFrames /\ Ahead(t_at[c], t_tf[c].epc, t_upc[c]))
  BY Here
<1>2. /\ t_at[c] \in {<<"usertrap", "check">>, <<"usertrap", "timer">>} /\ t_at[c] \in Ordinary /\ t_panicked = "no"
      /\ a \in Ordinary /\ a \in Interruptible /\ a \in Parked
  BY DEF Trap!check, Trap!At, Ordinary, Interruptible, Parked
<1>3. Plain(t_at[c]) /\ t_at[c] \notin HartPlaces /\ t_at[c] \in Settled
  BY <1>2, OrdinaryPlaces
<1>4. c \in TrapProcs /\ c \notin TrapHarts
  BY <1>1, <1>3 DEF Belongs
<1>5. CASE t_killed[c]
  <2>1. Trap!exit(h)
    BY <1>5 DEF Trap!check
  <2> QED
    BY <1>2, <1>3, <1>4, <2>1, TrapExit
<1>6. CASE ~t_killed[c] /\ t_at[c] = <<"usertrap", "timer">>
  <2>1. Trap!Leave(h, a) /\ UNCHANGED <<t_pc, t_tf, t_kept, t_killed, t_panicked, t_upc, t_was>>
    <3>1. t_at[c][2] = "timer"
      BY <1>6, SMT
    <3> QED
      BY <1>6, <3>1 DEF Trap!check
  <2> HIDE DEF a
  <2>2. Belongs(c, a, t_kept[c], t_was[c]) /\ Ahead(a, t_tf[c].epc, t_upc[c]) /\ a \in TrapPlaces
    BY <1>1, <1>2, <1>3, <1>4, OrdinaryPlaces DEF Belongs, Ahead
  <2> QED
    BY <1>2, <1>3, <1>4, <2>1, <2>2, TrapLeave
<1>7. CASE ~t_killed[c] /\ t_at[c] = <<"usertrap", "check">>
  <2>1. t_at' = [t_at EXCEPT ![c] = a] /\ UNCHANGED <<t_run, t_csr, t_intena, t_pc, t_tf, t_kept, t_killed, t_panicked, t_upc, t_was>>
    <3>1. t_at[c][2] # "timer"
      BY <1>7, SMT
    <3> QED
      BY <1>7, <3>1 DEF Trap!check, Trap!Go
  <2>2. t_csr' \in [TrapHarts -> Regs] /\ t_killed' \in [TrapProcs -> BOOLEAN]
    BY <1>1, <2>1 DEF TrapTypes, Typed
  <2> HIDE DEF a
  <2> QED
    BY <1>0, <1>2, <2>1, <2>2, Moves
<1> QED
  BY <1>2, <1>5, <1>6, <1>7

\* A system call starts: the program goes on behind the ecall.
LEMMA TrapEcall ==
    ASSUME Trap!TrapAssumption, TrapInv, NEW h \in TrapHarts, Trap!ecall(h)
    PROVE  TrapInv'
<1> DEFINE c == t_run[h]
<1> DEFINE a == <<"syscall", "entry">>
<1>0. t_csr[h] \in Regs /\ c \in Trap!Contexts /\ h \in Trap!Contexts
  BY Here
<1>1. /\ c \in Trap!Contexts /\ c \in {h} \union TrapProcs /\ TrapTypes /\ t_csr[h] \in Regs /\ TrapHarts \intersect TrapProcs = {}
      /\ Fits(h, c, t_at[c], t_csr[h], t_tf[c], t_upc[c], t_was[c]) /\ Belongs(c, t_at[c], t_kept[c], t_was[c])
      /\ (t_at[c] = Trap!User => t_pc[c] = t_upc[c])
      /\ (c \in TrapProcs => t_tf[c] \in TrapFrames /\ Ahead(t_at[c], t_tf[c].epc, t_upc[c]))
  BY Here
<1>2. t_at[c] = Ecall /\ t_panicked = "no" /\ a \in Ordinary /\ a \in Interruptible
  BY DEF Trap!ecall, Trap!At, Ecall, Ordinary, Interruptible
<1>3. Plain(t_at[c]) /\ t_at[c] \notin HartPlaces
  BY <1>2, EcallPlace
<1>4. c \in TrapProcs /\ c \notin TrapHarts
  BY <1>1, <1>3 DEF Belongs
<1>5. CASE t_killed[c]
  <2>1. Trap!exit(h)
    BY <1>5 DEF Trap!ecall
  <2> QED
    BY <1>2, <1>3, <1>4, <2>1, TrapExit
<1>6. CASE ~t_killed[c]
  <2>1. t_at' = [t_at EXCEPT ![c] = a] /\ t_csr' = [t_csr EXCEPT ![h].sie = TRUE] /\ t_panicked' = "no"
        /\ UNCHANGED <<t_run, t_intena, t_pc, t_kept, t_killed, t_upc, t_was>>
    BY <1>2, <1>6 DEF Trap!ecall, Trap!Go
  <2>2. PICK e \in Nat : e = Trap!Next1(t_tf[c].epc)
    BY <1>1, <1>4, NextNat DEF TrapFrames
  <2>3. t_tf'[c].epc = e /\ t_tf' \in [TrapProcs -> TrapFrames] /\ \A p \in TrapProcs \ {c} : t_tf'[p] = t_tf[p]
    <3>1. t_tf' = [t_tf EXCEPT ![c].epc = e]
      BY <1>1, <1>4, <1>6, <2>2 DEF Trap!ecall, Trap!AfterEcall, TrapTypes, Typed
    <3> QED
      BY <1>1, <1>4, <3>1 DEF TrapTypes, Typed, TrapFrames
  <2> DEFINE r == [t_csr[h] EXCEPT !.sie = TRUE]
  <2>4. /\ r \in Regs /\ r.sie = TRUE /\ r.stvec = t_csr[h].stvec /\ r.cause = t_csr[h].cause
        /\ r.sepc = t_csr[h].sepc /\ r.spp = t_csr[h].spp /\ r.spie = t_csr[h].spie /\ r.tp = t_csr[h].tp
        /\ r.satp = t_csr[h].satp /\ r.sp = t_csr[h].sp
    BY <1>0 DEF Regs
  <2> HIDE DEF r
  <2>5. Typed' /\ t_csr' \in [TrapHarts -> Regs] /\ t_csr'[h] = r /\ \A g \in TrapHarts \ {h} : t_csr'[g] = t_csr[g]
    BY <1>1, <2>1, <2>3, <2>4 DEF r, TrapTypes, Typed
  <2> HIDE DEF a
  <2>6. Plain(a) /\ a \in TrapPlaces /\ a \in ProcPlaces /\ a # Trap!User /\ a # Ecall /\ a \notin Vectors \union Saved /\ a \notin Saved
    BY <1>2, OrdinaryPlaces
  <2>7. r.tp = h /\ r.satp = "kernel" /\ r.sp = c /\ r.stvec = "kernelvec"
    BY <1>1, <1>3, <2>4, FitsPlain, ZenonT(30)
  <2>8. Fits(h, c, a, r, t_tf'[c], t_upc[c], t_was[c])
    BY <1>2, <2>6, <2>7, FitsPlain
  <2>9. Belongs(c, a, t_kept[c], t_was[c]) /\ Ahead(a, t_tf'[c].epc, t_upc[c])
    BY <1>1, <1>2, <1>4, <2>2, <2>3, <2>6 DEF Belongs, Ahead
  <2>10. t_at' = [t_at EXCEPT ![c] = a] /\ t_panicked' = "no" /\ UNCHANGED <<t_run, t_intena, t_pc, t_kept, t_upc, t_was>>
    BY <2>1
  <2> QED
    BY <1>1, <2>3, <2>5, <2>6, <2>8, <2>9, <2>10, Stays
<1> QED
  BY <1>5, <1>6

\* A timer interrupt of the kernel: yield(), unless it is the scheduler that was interrupted.
LEMMA TrapTimer ==
    ASSUME Trap!TrapAssumption, TrapInv, NEW h \in TrapHarts, Trap!kerneltrap_timer(h)
    PROVE  TrapInv'
<1> DEFINE c == t_run[h]
<1> DEFINE a == <<"kerneltrap", "check">>
<1>0. t_csr[h] \in Regs /\ c \in Trap!Contexts /\ h \in Trap!Contexts
  BY Here
<1>1. /\ c \in Trap!Contexts /\ c \in {h} \union TrapProcs /\ TrapTypes /\ t_csr[h] \in Regs /\ TrapHarts \intersect TrapProcs = {}
      /\ Fits(h, c, t_at[c], t_csr[h], t_tf[c], t_upc[c], t_was[c]) /\ Belongs(c, t_at[c], t_kept[c], t_was[c])
      /\ (t_at[c] = Trap!User => t_pc[c] = t_upc[c])
      /\ (c \in TrapProcs => t_tf[c] \in TrapFrames /\ Ahead(t_at[c], t_tf[c].epc, t_upc[c]))
  BY Here
<1>2. t_at[c] \in Saved /\ t_panicked = "no" /\ a \in Saved /\ a \in Parked
  BY DEF Trap!kerneltrap_timer, Trap!At, Saved, Parked
<1>3. Plain(t_at[c]) /\ t_at[c] \in Settled /\ t_at[c] \notin Interruptible
  BY <1>2, SavedPlaces
<1>4. CASE c \in TrapProcs
  <2>1. Trap!Leave(h, a) /\ UNCHANGED <<t_pc, t_tf, t_kept, t_killed, t_panicked, t_upc, t_was>>
    BY <1>4 DEF Trap!kerneltrap_timer
  <2> HIDE DEF a
  <2>2. Belongs(c, a, t_kept[c], t_was[c]) /\ Ahead(a, t_tf[c].epc, t_upc[c]) /\ a \in TrapPlaces
    BY <1>1, <1>2, <1>3, <1>4, SavedPlaces DEF Belongs, Ahead
  <2>3. ~t_csr[h].sie
    BY <1>1, <1>3, FitsPlain, ZenonT(30)
  <2> QED
    BY <1>2, <1>3, <1>4, <2>1, <2>2, <2>3, TrapLeave
<1>5. CASE c \notin TrapProcs
  <2>1. t_at' = [t_at EXCEPT ![c] = a] /\ t_panicked' = "no" /\ UNCHANGED <<t_run, t_csr, t_intena, t_pc, t_tf, t_kept, t_killed, t_upc, t_was>>
    BY <1>2, <1>5 DEF Trap!kerneltrap_timer, Trap!Go
  <2> HIDE DEF a
  <2> QED
    BY <1>2, <2>1, Inside
<1> QED
  BY <1>4, <1>5

LEMMA SepcOf ==
    ASSUME NEW p \in TrapPlaces, NEW u \in Nat
    PROVE  \E e \in Sepcs : e = [place |-> p, pc |-> u] /\ e.place = p /\ e.pc = u
<1> DEFINE e == [place |-> p, pc |-> u]
<1>1. e \in Sepcs /\ e.place = p /\ e.pc = u
  BY DEF Sepcs
<1> QED
  BY <1>1

\* A trap from user mode.
LEMMA TrapFromUser ==
    ASSUME Trap!TrapAssumption, TrapInv, NEW h \in TrapHarts, NEW cause \in Causes, Trap!trap(h, cause), t_at[t_run[h]] = Trap!User
    PROVE  TrapInv'
<1> DEFINE c == t_run[h]
<1> DEFINE a == <<"uservec", "entry">>
<1>0. t_csr[h] \in Regs /\ c \in Trap!Contexts /\ h \in Trap!Contexts
  BY Here
<1>1. /\ c \in Trap!Contexts /\ c \in {h} \union TrapProcs /\ TrapTypes /\ t_csr[h] \in Regs /\ TrapHarts \intersect TrapProcs = {}
      /\ Fits(h, c, t_at[c], t_csr[h], t_tf[c], t_upc[c], t_was[c]) /\ Belongs(c, t_at[c], t_kept[c], t_was[c])
      /\ (t_at[c] = Trap!User => t_pc[c] = t_upc[c])
      /\ (c \in TrapProcs => t_tf[c] \in TrapFrames /\ Ahead(t_at[c], t_tf[c].epc, t_upc[c]))
  BY Here
<1>2. t_panicked = "no" /\ t_at[c] = Trap!User
  BY DEF Trap!trap
<1>3. c \in TrapProcs /\ c \notin TrapHarts
  BY <1>1, <1>2, UserPlaces DEF Belongs
<1>4. ~t_csr[h].sie /\ t_csr[h].satp = c /\ t_csr[h].stvec = "uservec" /\ t_tf[c].sp = c /\ t_tf[c].hart = h /\ t_pc[c] = t_upc[c]
  BY <1>2, Registers, ZenonT(30)
<1>5. PICK u \in Nat : u = t_upc[c]
  BY <1>1, <1>3 DEF TrapTypes, Typed
<1>6. PICK v \in Nat : v = IF cause = "ecall" THEN Trap!Next1(u) ELSE u
  BY NextNat
<1>7. PICK e \in Sepcs : e = [place |-> Trap!User, pc |-> u] /\ e.pc = u
  BY UserPlaces, SepcOf, SMT
<1> DEFINE r == [t_csr[h] EXCEPT !.sepc = e, !.spp = FALSE, !.spie = t_csr[h].sie, !.sie = FALSE, !.cause = cause]
<1>8. /\ r \in Regs /\ r.sie = FALSE /\ r.stvec = t_csr[h].stvec /\ r.cause = cause /\ r.sepc = e /\ r.spp = FALSE
      /\ r.spie = t_csr[h].sie /\ r.tp = t_csr[h].tp /\ r.satp = t_csr[h].satp /\ r.sp = t_csr[h].sp
  BY <1>0 DEF Regs
<1> HIDE DEF r
<1>9. t_csr' \in [TrapHarts -> Regs] /\ t_csr'[h] = r /\ \A g \in TrapHarts \ {h} : t_csr'[g] = t_csr[g]
  <2>1. t_csr' = [t_csr EXCEPT ![h] = r]
    BY <1>1, <1>2, <1>4, <1>5, <1>7 DEF r, Trap!trap, TrapTypes
  <2> QED
    BY <1>1, <1>8, <2>1 DEF TrapTypes
<1>10. t_at' = [t_at EXCEPT ![c] = a] /\ t_panicked' = "no" /\ UNCHANGED <<t_run, t_tf, t_kept, t_intena, t_killed, t_was>>
  BY <1>2, <1>4 DEF Trap!trap
<1>11. t_upc'[c] = v /\ t_upc' \in [TrapProcs -> Nat] /\ t_pc' \in [TrapProcs -> Nat]
       /\ \A p \in TrapProcs \ {c} : t_pc'[p] = t_pc[p] /\ t_upc'[p] = t_upc[p]
  <2>1. t_pc' = [t_pc EXCEPT ![c] = 0] /\ t_upc' = [t_upc EXCEPT ![c] = v]
    BY <1>1, <1>2, <1>5, <1>6 DEF Trap!trap, TrapTypes, Typed
  <2> QED
    BY <1>1, <1>3, <2>1 DEF TrapTypes, Typed
<1>12. Typed'
  BY <1>1, <1>10, <1>11 DEF TrapTypes, Typed
<1>13. Fits(h, c, a, r, t_tf[c], t_upc'[c], t_was[c])
  <2>1. /\ ~r.sie /\ r.satp = c /\ r.stvec = "uservec" /\ t_tf[c].sp = c /\ t_tf[c].hart = h /\ ~r.spp /\ r.cause \in Causes
        /\ t_upc'[c] = IF r.cause = "ecall" THEN Trap!Next1(r.sepc.pc) ELSE r.sepc.pc
    BY <1>4, <1>6, <1>7, <1>8, <1>11
  <2> QED
    BY <2>1, FitsUservec
<1>14. Belongs(c, a, t_kept[c], t_was[c]) /\ Ahead(a, t_tf[c].epc, t_upc'[c]) /\ a \in TrapPlaces /\ a # Trap!User
  BY <1>3, UserPlaces DEF Belongs, Ahead, Trap!User
<1> HIDE DEF a
<1> QED
  BY <1>1, <1>9, <1>10, <1>11, <1>12, <1>13, <1>14, Stays, ZenonT(30)

\* An interrupt of the kernel, where interrupts are on.
LEMMA TrapFromKernel ==
    ASSUME Trap!TrapAssumption, TrapInv, NEW h \in TrapHarts, NEW cause \in Causes, Trap!trap(h, cause), t_at[t_run[h]] # Trap!User
    PROVE  TrapInv'
<1> DEFINE c == t_run[h]
<1> DEFINE a == <<"kernelvec", "entry">>
<1>0. t_csr[h] \in Regs /\ c \in Trap!Contexts /\ h \in Trap!Contexts
  BY Here
<1>1. /\ c \in Trap!Contexts /\ c \in {h} \union TrapProcs /\ TrapTypes /\ t_csr[h] \in Regs /\ TrapHarts \intersect TrapProcs = {}
      /\ Fits(h, c, t_at[c], t_csr[h], t_tf[c], t_upc[c], t_was[c]) /\ Belongs(c, t_at[c], t_kept[c], t_was[c])
      /\ (t_at[c] = Trap!User => t_pc[c] = t_upc[c])
      /\ (c \in TrapProcs => t_tf[c] \in TrapFrames /\ Ahead(t_at[c], t_tf[c].epc, t_upc[c]))
  BY Here
<1>2. t_panicked = "no" /\ t_csr[h].sie /\ cause \in {"timer", "device"}
  BY DEF Trap!trap
<1>3. t_at[c] \in Interruptible
  BY <1>1, <1>2 DEF Fits
<1>4. Plain(t_at[c]) /\ t_at[c] \in TrapPlaces /\ (t_at[c] # Loop => t_at[c] \in Settled /\ t_at[c] \notin HartPlaces) /\ Loop \notin ProcPlaces
  BY <1>3, InterruptiblePlaces, OrdinaryPlaces, LoopPlace
<1>5. t_csr[h].tp = h /\ t_csr[h].satp = "kernel" /\ t_csr[h].sp = c /\ t_csr[h].stvec = "kernelvec"
  BY <1>4, PlainRegisters, ZenonT(30)
<1>6. (c \in TrapHarts <=> t_at[c] = Loop) /\ (c \in TrapProcs => t_at[c] # Loop)
  BY <1>1, <1>4 DEF Belongs
<1>7. PICK e \in Sepcs : e = [place |-> t_at[c], pc |-> 0] /\ e.place = t_at[c]
  BY <1>4, SepcOf, SMT
<1> DEFINE r == [t_csr[h] EXCEPT !.sepc = e, !.spp = TRUE, !.spie = t_csr[h].sie, !.sie = FALSE, !.cause = cause]
<1>8. /\ r \in Regs /\ r.sie = FALSE /\ r.stvec = t_csr[h].stvec /\ r.cause = cause /\ r.sepc = e /\ r.spp = TRUE
      /\ r.spie = t_csr[h].sie /\ r.tp = t_csr[h].tp /\ r.satp = t_csr[h].satp /\ r.sp = t_csr[h].sp
  BY <1>0 DEF Regs
<1> HIDE DEF r
<1>9. t_csr' \in [TrapHarts -> Regs] /\ t_csr'[h] = r /\ \A g \in TrapHarts \ {h} : t_csr'[g] = t_csr[g]
  <2>1. t_csr' = [t_csr EXCEPT ![h] = r]
    BY <1>1, <1>7 DEF r, Trap!trap, TrapTypes
  <2> QED
    BY <1>1, <1>8, <2>1 DEF TrapTypes
<1>10. /\ t_at' = [t_at EXCEPT ![c] = a] /\ t_panicked' = "no" /\ UNCHANGED <<t_run, t_pc, t_upc, t_tf, t_kept, t_intena, t_killed>>
       /\ t_was' = [t_was EXCEPT ![c] = t_at[c]]
  BY <1>2, <1>5 DEF Trap!trap
<1>11. Typed' /\ t_was'[c] = t_at[c] /\ \A d \in Trap!Contexts \ {c} : t_was'[d] = t_was[d]
  BY <1>1, <1>4, <1>10 DEF TrapTypes, Typed
<1>12. Fits(h, c, a, r, t_tf[c], t_upc[c], t_at[c])
  <2>1. a \in Vectors
    BY DEF Vectors
  <2>2. /\ ~r.sie /\ r.tp = h /\ r.satp = "kernel" /\ r.sp = c /\ r.stvec = "kernelvec"
        /\ r.sepc.place = t_at[c] /\ r.spp /\ r.spie /\ r.cause \in {"timer", "device"}
    BY <1>2, <1>5, <1>7, <1>8
  <2> HIDE DEF a
  <2> QED
    BY <2>1, <2>2, FitsVector, SMT
<1>13. a \in HartPlaces /\ a \in ProcPlaces /\ a \notin Saved /\ a \in TrapPlaces /\ a # Trap!User /\ a # Ecall
  BY VectorPlaces DEF Vectors
<1> HIDE DEF a
<1>14. Belongs(c, a, t_kept[c], t_at[c]) /\ (c \in TrapProcs => Ahead(a, t_tf[c].epc, t_upc[c]))
  BY <1>1, <1>3, <1>4, <1>6, <1>13 DEF Belongs, Ahead
<1>15. t_at' = [t_at EXCEPT ![c] = a] /\ t_panicked' = "no" /\ UNCHANGED <<t_run, t_pc, t_upc, t_tf, t_kept, t_intena>>
  BY <1>10
<1>16. Fits(h, c, a, r, t_tf'[c], t_upc'[c], t_was'[c]) /\ Belongs(c, a, t_kept'[c], t_was'[c])
  BY <1>11, <1>12, <1>14, <1>15
<1> QED
  BY <1>1, <1>9, <1>11, <1>13, <1>14, <1>15, <1>16, Stays

\* swtch() to process p: the trap registers and tp stay with the hart.
LEMMA TrapSwtch ==
    ASSUME Trap!TrapAssumption, TrapInv, NEW h \in TrapHarts, NEW p \in TrapProcs, Trap!swtch(h, p)
    PROVE  TrapInv'
<1> DEFINE c == t_run[h]
<1>0. t_csr[h] \in Regs /\ c \in Trap!Contexts /\ h \in Trap!Contexts
  BY Here
<1>1. /\ c \in Trap!Contexts /\ c \in {h} \union TrapProcs /\ TrapTypes /\ t_csr[h] \in Regs /\ TrapHarts \intersect TrapProcs = {}
      /\ Fits(h, c, t_at[c], t_csr[h], t_tf[c], t_upc[c], t_was[c]) /\ Belongs(c, t_at[c], t_kept[c], t_was[c])
      /\ (t_at[c] = Trap!User => t_pc[c] = t_upc[c])
      /\ (c \in TrapProcs => t_tf[c] \in TrapFrames /\ Ahead(t_at[c], t_tf[c].epc, t_upc[c]))
  BY Here
<1>2. t_at[c] = Loop /\ t_panicked = "no" /\ t_at[p] # Trap!None /\ \A g \in TrapHarts : t_run[g] # p
  BY DEF Trap!swtch, Trap!At, Loop
<1>3. c = h
  BY <1>1, <1>2, LoopPlace DEF Belongs
<1>4. UNCHANGED <<t_at, t_pc, t_tf, t_kept, t_killed, t_upc, t_was>> /\ t_panicked' = "no"
  BY <1>2 DEF Trap!swtch
<1>5. t_run'[h] = p /\ \A g \in TrapHarts \ {h} : t_run'[g] = t_run[g]
  BY <1>1 DEF Trap!swtch, TrapTypes
<1>6. ProcOK(p) /\ t_at[p] \in Parked /\ t_intena[p] \in BOOLEAN
  BY <1>1, <1>2 DEF TrapInv, ProcOK, Running, TrapTypes
<1>7. Plain(t_at[p]) /\ t_at[p] # Trap!User
  BY <1>2, <1>6, ParkedPlaces, OrdinaryPlaces, SavedPlaces
<1>8. PICK i \in BOOLEAN : i = (IF t_at[p] = <<"forkret", "entry">> THEN t_csr[h].sie ELSE t_intena[p])
  <2>1. t_csr[h].sie \in BOOLEAN
    BY <1>0 DEF Regs
  <2> QED
    BY <1>6, <2>1
<1>9. i => t_at[p] \in Interruptible
  <2>1. <<"forkret", "entry">> \in Interruptible
    BY DEF Interruptible
  <2> QED
    BY <1>6, <1>8, <2>1 DEF ProcOK
<1>10. p \in Trap!Contexts
  BY DEF Trap!Contexts
<1> DEFINE r == [t_csr[h] EXCEPT !.sp = p, !.sie = i]
<1>11. /\ r \in Regs /\ r.sie = i /\ r.stvec = t_csr[h].stvec /\ r.tp = t_csr[h].tp /\ r.satp = t_csr[h].satp
       /\ r.sp = p
  BY <1>0, <1>10 DEF Regs
<1> HIDE DEF r
<1>12. t_csr' \in [TrapHarts -> Regs] /\ t_csr'[h] = r /\ \A g \in TrapHarts \ {h} : t_csr'[g] = t_csr[g]
  <2>1. t_csr' = [t_csr EXCEPT ![h] = r]
    BY <1>1, <1>8 DEF r, Trap!swtch, TrapTypes, Regs
  <2> QED
    BY <1>1, <1>11, <2>1 DEF TrapTypes
<1>13. t_csr[h].tp = h /\ t_csr[h].satp = "kernel" /\ t_csr[h].stvec = "kernelvec"
  BY <1>2, LoopPlace, PlainRegisters, ZenonT(30)
<1>14. Fits(h, p, t_at[p], r, t_tf[p], t_upc[p], t_was[p])
  <2>1. r.tp = h /\ r.satp = "kernel" /\ r.sp = p /\ r.stvec = "kernelvec" /\ (r.sie => t_at[p] \in Interruptible)
    BY <1>9, <1>11, <1>13
  <2> QED
    BY <1>7, <2>1, FitsPlain
<1>15. ASSUME NEW g \in TrapHarts PROVE HartOK(g)'
  <2>1. CASE g = h
    <3>1. t_run'[h] = p /\ t_at'[h] = Loop /\ t_at'[p] # Trap!User /\ p \in {h} \union TrapProcs
      BY <1>2, <1>3, <1>4, <1>5, <1>7
    <3>2. Fits(h, p, t_at'[p], t_csr'[h], t_tf'[p], t_upc'[p], t_was'[p])
      BY <1>4, <1>12, <1>14
    <3> QED
      BY <2>1, <3>1, <3>2 DEF HartOK
  <2>2. CASE g # h
    <3>1. t_run'[g] = t_run[g] /\ t_csr'[g] = t_csr[g] /\ HartOK(g)
      BY <1>5, <1>12, <2>2 DEF TrapInv
    <3> QED
      BY <1>4, <3>1 DEF HartOK
  <2> QED
    BY <2>1, <2>2
<1>16. ASSUME NEW q \in TrapProcs PROVE ProcOK(q)'
  <2>1. t_intena' = [t_intena EXCEPT ![p] = FALSE]
    BY DEF Trap!swtch
  <2>2. CASE q = p
    <3>1. Running(p)' /\ ~t_intena'[p]
      BY <1>1, <1>5, <2>1 DEF Running, TrapTypes
    <3> QED
      BY <1>4, <1>6, <2>2, <3>1 DEF ProcOK
  <2>3. CASE q # p
    <3>1. Running(q)' <=> Running(q)
      BY <1>1, <1>3, <1>5, <2>3 DEF Running
    <3>2. t_intena'[q] = t_intena[q] /\ ProcOK(q)
      BY <1>1, <2>1, <2>3 DEF TrapInv, TrapTypes
    <3> QED
      BY <1>4, <3>1, <3>2 DEF ProcOK
  <2> QED
    BY <2>2, <2>3
<1>17. TrapTypes'
  BY <1>1, <1>4, <1>10, <1>12 DEF Trap!swtch, TrapTypes, Typed
<1>18. ASSUME NEW g \in TrapHarts, NEW k \in TrapHarts, g # k PROVE t_run'[g] # t_run'[k]
  BY <1>2, <1>5, <1>18, ZenonT(30) DEF TrapInv
<1>19. ASSUME NEW d \in Trap!Contexts PROVE ContextOK(d)'
  BY <1>4 DEF TrapInv, ContextOK
<1> QED
  BY <1>4, <1>15, <1>16, <1>17, <1>18, <1>19 DEF TrapInv

\* fork(): the child q starts with its parent's trapframe.
LEMMA TrapFork ==
    ASSUME Trap!TrapAssumption, TrapInv, NEW h \in TrapHarts, NEW q \in TrapProcs, Trap!fork(h, q)
    PROVE  TrapInv'
<1> DEFINE c == t_run[h]
<1>0. t_csr[h] \in Regs /\ c \in Trap!Contexts /\ h \in Trap!Contexts
  BY Here
<1>1. /\ c \in Trap!Contexts /\ c \in {h} \union TrapProcs /\ TrapTypes /\ t_csr[h] \in Regs /\ TrapHarts \intersect TrapProcs = {}
      /\ Fits(h, c, t_at[c], t_csr[h], t_tf[c], t_upc[c], t_was[c]) /\ Belongs(c, t_at[c], t_kept[c], t_was[c])
      /\ (t_at[c] = Trap!User => t_pc[c] = t_upc[c])
      /\ (c \in TrapProcs => t_tf[c] \in TrapFrames /\ Ahead(t_at[c], t_tf[c].epc, t_upc[c]))
  BY Here
<1>2. t_at[c] \in Ordinary /\ t_panicked = "no" /\ t_at[q] = Trap!None
  BY DEF Trap!fork, Trap!At, Ordinary
<1>3. Plain(t_at[c]) /\ t_at[c] \in Settled /\ t_at[c] \notin HartPlaces
  BY <1>2, OrdinaryPlaces
<1>4. c \in TrapProcs /\ q # c /\ q \in Trap!Contexts /\ c \notin TrapHarts /\ q \notin TrapHarts
  <2>1. Trap!None \notin Ordinary
    BY DEF Trap!None, Ordinary
  <2> QED
    BY <1>1, <1>2, <1>3, <2>1 DEF Belongs, Trap!Contexts
<1>5. t_panicked' = "no" /\ UNCHANGED <<t_run, t_csr, t_pc, t_kept, t_intena, t_killed, t_was>>
  BY <1>2 DEF Trap!fork
<1>6. PICK a \in Ordinary, b \in Ordinary : /\ t_at' = [t_at EXCEPT ![q] = b, ![c] = a]
                                            /\ a \in Interruptible /\ b \in Parked
  BY DEF Trap!fork, Ordinary, Interruptible, Parked
<1>7. /\ Plain(a) /\ a \in TrapPlaces /\ a \in ProcPlaces /\ a # Trap!User /\ a # Ecall /\ a \notin Vectors \union Saved /\ a \notin Saved
      /\ b \in TrapPlaces /\ b \in ProcPlaces /\ b # Ecall /\ b \notin Vectors \union Saved /\ b \notin Saved
  BY OrdinaryPlaces
<1>8. t_at'[q] = b /\ t_at'[c] = a /\ t_at' \in [Trap!Contexts -> TrapPlaces] /\ \A d \in Trap!Contexts \ {q, c} : t_at'[d] = t_at[d]
  BY <1>1, <1>4, <1>6, <1>7 DEF TrapTypes
<1>9. /\ t_tf'[q] = t_tf[c] /\ t_upc'[q] = t_upc[c] /\ t_tf' \in [TrapProcs -> TrapFrames] /\ t_upc' \in [TrapProcs -> Nat]
      /\ \A p \in TrapProcs \ {q} : t_tf'[p] = t_tf[p] /\ t_upc'[p] = t_upc[p]
  BY <1>1, <1>4 DEF Trap!fork, TrapTypes, Typed
<1>10. TrapTypes'
  BY <1>1, <1>5, <1>8, <1>9 DEF TrapTypes, Typed
<1>11. Fits(h, c, a, t_csr[h], t_tf[c], t_upc[c], t_was[c])
  <2>1. t_csr[h].tp = h /\ t_csr[h].satp = "kernel" /\ t_csr[h].sp = c /\ t_csr[h].stvec = "kernelvec"
    BY <1>3, PlainRegisters, ZenonT(30)
  <2> QED
    BY <1>6, <1>7, <2>1, FitsPlain
<1>12. ASSUME NEW g \in TrapHarts
       PROVE  t_run[g] \in Trap!Contexts /\ t_run[g] # q /\ (g # h => t_run[g] # c) /\ HartOK(g) /\ g \notin {q, c} /\ g \in Trap!Contexts
  <2>1. t_run[g] \in Trap!Contexts /\ HartOK(g)
    BY <1>1 DEF TrapInv, TrapTypes
  <2>2. t_at[t_run[g]] # Trap!None
    BY <2>1 DEF HartOK, Fits
  <2> QED
    BY <1>2, <1>4, <2>1, <2>2 DEF TrapInv, Trap!Contexts
<1>13. ASSUME NEW g \in TrapHarts PROVE HartOK(g)'
  <2>1. t_at'[g] = t_at[g] /\ HartOK(g)
    BY <1>8, <1>12
  <2>2. CASE g = h
    <3>1. Fits(h, c, t_at'[c], t_csr'[h], t_tf'[c], t_upc'[c], t_was'[c]) /\ t_at'[c] # Trap!User /\ t_run'[h] = c
      BY <1>4, <1>5, <1>7, <1>8, <1>9, <1>11
    <3>2. c \in {h} \union TrapProcs /\ (c # h => t_at'[h] = Loop)
      BY <2>1, <2>2 DEF HartOK
    <3> QED
      BY <2>2, <3>1, <3>2 DEF HartOK
  <2>3. CASE g # h
    <3>1. t_at'[t_run[g]] = t_at[t_run[g]]
      BY <1>8, <1>12, <2>3
    <3>2. CASE t_run[g] \in TrapProcs
      <4>1. t_tf'[t_run[g]] = t_tf[t_run[g]] /\ t_upc'[t_run[g]] = t_upc[t_run[g]]
        BY <1>9, <1>12, <3>2
      <4> QED
        BY <1>5, <2>1, <3>1, <4>1 DEF HartOK
    <3>3. CASE t_run[g] = g
      <4>1. t_at[g] \in HartPlaces
        BY <1>12 DEF TrapInv, ContextOK, Belongs
      <4>2. t_at[g] \notin Userside \union {Userret} /\ t_at[g] \notin Entering /\ t_at[g] # Userret /\ t_at[g] # Trap!User
        BY <4>1, SMT DEF HartPlaces, Loop, Vectors, Saved, Userside, Userret, Entering, Trap!User
      <4> QED
        BY <1>5, <2>1, <3>1, <3>3, <4>2 DEF HartOK, Fits
    <3> QED
      BY <2>1, <3>2, <3>3 DEF HartOK
  <2> QED
    BY <2>2, <2>3
<1>14. ASSUME NEW d \in Trap!Contexts PROVE ContextOK(d)'
  <2>1. Belongs(c, a, t_kept[c], t_was[c]) /\ Belongs(q, b, t_kept[q], t_was[q])
    BY <1>4, <1>7 DEF Belongs
  <2>2. d \notin {q, c} => ContextOK(d)'
    BY <1>5, <1>8 DEF TrapInv, ContextOK
  <2> QED
    BY <1>5, <1>8, <2>1, <2>2 DEF ContextOK
<1>15. ASSUME NEW p \in TrapProcs PROVE ProcOK(p)'
  <2>1. Running(p)' <=> Running(p)
    BY <1>5 DEF Running
  <2>2. t_upc[c] = t_tf[c].epc
    BY <1>1, <1>3, <1>4 DEF Ahead
  <2>3. CASE p = q
    <3>1. ~Running(q) /\ ~t_intena[q]
      BY <1>2, <1>12, NonePlace DEF Running, TrapInv, ProcOK
    <3>2. Ahead(b, t_tf[c].epc, t_upc[c])
      BY <1>7, <2>2 DEF Ahead
    <3> QED
      BY <1>5, <1>6, <1>8, <1>9, <2>1, <2>3, <3>1, <3>2 DEF ProcOK
  <2>4. CASE p = c
    <3>1. Running(c) /\ ~t_intena[c]
      BY <1>4, Here DEF Running
    <3>2. Ahead(a, t_tf[c].epc, t_upc[c])
      BY <1>7, <2>2 DEF Ahead
    <3> QED
      BY <1>4, <1>5, <1>8, <1>9, <2>1, <2>4, <3>1, <3>2 DEF ProcOK
  <2>5. CASE p \notin {q, c}
    <3>1. t_at'[p] = t_at[p] /\ t_tf'[p] = t_tf[p] /\ t_upc'[p] = t_upc[p] /\ ProcOK(p)
      BY <1>8, <1>9, <2>5 DEF TrapInv, Trap!Contexts
    <3> QED
      BY <1>5, <2>1, <3>1 DEF ProcOK
  <2> QED
    BY <2>3, <2>4, <2>5
<1>16. \A g, k \in TrapHarts : g # k => t_run'[g] # t_run'[k]
  BY <1>5 DEF TrapInv
<1> QED
  BY <1>5, <1>10, <1>13, <1>14, <1>15, <1>16 DEF TrapInv

LEMMA TrapInit ==
    ASSUME Trap!TrapAssumption, Trap!Init
    PROVE  TrapInv
<1>1. TrapHarts \intersect TrapProcs = {} /\ t_run = [h \in TrapHarts |-> h] /\ t_panicked = "no"
  BY DEF Trap!Init, Trap!TrapAssumption
<1>2. PICK b \in Ordinary : b = <<"forkret", "entry">> /\ b \in Parked
  BY DEF Ordinary, Parked
<1>3. Trap!NoFrame \in Locals /\ Trap!NoFrame.sepc \in Sepcs
  <2>1. PICK e \in Sepcs : e = [place |-> Trap!None, pc |-> 0]
    BY NonePlace, SepcOf
  <2>2. Trap!NoFrame = [sepc |-> e, spp |-> FALSE, spie |-> FALSE]
    BY <2>1 DEF Trap!NoFrame
  <2> QED
    BY <2>2 DEF Locals
<1>4. t_csr \in [TrapHarts -> Regs] /\ \A h \in TrapHarts : /\ t_csr[h].sie = FALSE /\ t_csr[h].stvec = "kernelvec" /\ t_csr[h].tp = h
                                                  /\ t_csr[h].satp = "kernel" /\ t_csr[h].sp = h
  <2>1. PICK e \in Sepcs : e = Trap!NoFrame.sepc
    BY <1>3
  <2>2. t_csr = [h \in TrapHarts |-> [sie |-> FALSE, stvec |-> "kernelvec", cause |-> "none", sepc |-> e,
                                spp |-> FALSE, spie |-> FALSE, tp |-> h, satp |-> "kernel", sp |-> h]]
    BY <2>1 DEF Trap!Init
  <2> QED
    BY <2>1, <2>2 DEF Regs, Trap!Contexts
<1>5. PICK p \in TrapProcs : t_at = [c \in Trap!Contexts |-> IF c \in TrapHarts THEN Loop ELSE IF c = p THEN b ELSE Trap!None]
  BY <1>2 DEF Trap!Init, Loop
<1>6. Typed
  <2>1. PICK f \in TrapFrames : f = [epc |-> 0, hart |-> "none", sp |-> "none"] /\ f.epc = 0
    <3> DEFINE f == [epc |-> 0, hart |-> "none", sp |-> "none"]
    <3>1. f \in TrapFrames /\ f.epc = 0
      BY DEF TrapFrames
    <3> QED
      BY <3>1
  <2>2. t_tf = [q \in TrapProcs |-> f]
    BY <2>1 DEF Trap!Init
  <2> QED
    BY <1>3, <2>2, NonePlace, ZenonT(30) DEF Trap!Init, Typed
<1>7. TrapTypes
  <2>1. t_run \in [TrapHarts -> Trap!Contexts]
    BY <1>1 DEF Trap!Contexts
  <2>2. t_at \in [Trap!Contexts -> TrapPlaces]
    BY <1>5, LoopPlace, NonePlace, OrdinaryPlaces
  <2>3. t_intena \in [TrapProcs -> BOOLEAN]
    BY DEF Trap!Init
  <2> QED
    BY <1>4, <1>6, <2>1, <2>2, <2>3 DEF TrapTypes
<1>8. ASSUME NEW h \in TrapHarts PROVE HartOK(h)
  <2>1. t_at[h] = Loop /\ t_run[h] = h
    BY <1>1, <1>5 DEF Trap!Contexts
  <2>2. Fits(h, h, Loop, t_csr[h], t_tf[h], t_upc[h], t_was[h])
    BY <1>4, LoopPlace, FitsPlain
  <2> QED
    BY <2>1, <2>2, LoopPlace DEF HartOK
<1>9. ASSUME NEW c \in Trap!Contexts PROVE ContextOK(c)
  <2>1. CASE c \in TrapHarts
    BY <1>1, <1>5, <2>1, LoopPlace DEF ContextOK, Belongs
  <2>2. CASE c \notin TrapHarts
    <3>1. t_at[c] = Trap!None \/ t_at[c] = b
      BY <1>5, <2>2
    <3> QED
      BY <2>2, <3>1, NonePlace, OrdinaryPlaces DEF ContextOK, Belongs
  <2> QED
    BY <2>1, <2>2
<1>10. ASSUME NEW q \in TrapProcs PROVE ProcOK(q)
  <2>1. t_at[q] = Trap!None \/ t_at[q] = b
    BY <1>1, <1>5 DEF Trap!Contexts
  <2>2. t_upc[q] = 0 /\ t_tf[q].epc = 0 /\ ~t_intena[q]
    BY DEF Trap!Init
  <2>3. t_at[q] \in Parked /\ t_at[q] # Ecall
    BY <1>2, <2>1, NonePlace, OrdinaryPlaces
  <2> QED
    BY <2>2, <2>3 DEF ProcOK, Ahead
<1> QED
  BY <1>1, <1>7, <1>8, <1>9, <1>10 DEF TrapInv

LEMMA TrapStep ==
    ASSUME Trap!TrapAssumption, TrapInv, [Trap!Next]_(Trap!vars)
    PROVE  TrapInv'
<1>1. ASSUME NEW h \in TrapHarts, Trap!Kernel(h) PROVE TrapInv'
  BY <1>1, TrapScheduler, TrapSwtch, TrapProceeds, TrapUservec, TrapUsertrap, TrapEcall, TrapFork,
     TrapCheck, TrapOff, TrapVector, TrapFrame, TrapUserret, TrapKernelvec, TrapTimer, TrapEnd, TrapSret, TrapDevice, ZenonT(30)
  DEF Trap!Kernel
<1>2. ASSUME NEW h \in TrapHarts, NEW cause \in Causes, Trap!trap(h, cause) PROVE TrapInv'
  BY <1>2, TrapFromUser, TrapFromKernel
<1>3. ASSUME Trap!raise \/ UNCHANGED Trap!vars PROVE TrapInv'
  <2>1. UNCHANGED <<t_run, t_csr, t_at, t_pc, t_tf, t_kept, t_intena, t_killed, t_panicked, t_upc, t_was>>
    BY <1>3 DEF Trap!raise, Trap!vars
  <2>2. TrapTypes' /\ t_panicked' = "no"
    BY <2>1 DEF TrapInv, TrapTypes, Typed
  <2>3. \A g, h \in TrapHarts : g # h => t_run'[g] # t_run'[h]
    BY <2>1 DEF TrapInv
  <2>4. \A h \in TrapHarts : HartOK(h)'
    BY <2>1 DEF TrapInv, HartOK
  <2>5. \A c \in Trap!Contexts : ContextOK(c)'
    BY <2>1 DEF TrapInv, ContextOK
  <2>6. \A p \in TrapProcs : ProcOK(p)'
    BY <2>1 DEF TrapInv, ProcOK, Running
  <2> QED
    BY <2>2, <2>3, <2>4, <2>5, <2>6 DEF TrapInv
<1>4. ASSUME NEW h \in TrapHarts, Trap!sleep(h) \/ Trap!execute(h) PROVE TrapInv'
  BY <1>4, TrapSleep, TrapExecute
<1> QED
  BY <1>1, <1>2, <1>3, <1>4 DEF Trap!Next

\* The invariant says what the runs check.
LEMMA TrapSafe ==
    ASSUME Trap!TrapAssumption, TrapInv
    PROVE  Trap!NoPanic /\ Trap!KernelRight /\ Trap!Resumes
<1>1. ASSUME NEW h \in TrapHarts
      PROVE  /\ Fits(h, t_run[h], t_at[t_run[h]], t_csr[h], t_tf[t_run[h]], t_upc[t_run[h]], t_was[t_run[h]])
             /\ (t_at[t_run[h]] = Trap!User => t_pc[t_run[h]] = t_upc[t_run[h]])
  BY Here
<1>2. Trap!KernelRight
  BY <1>1, ZenonT(30) DEF Trap!KernelRight, Fits, Userside
<1>3. Trap!Resumes
  <2>1. Trap!User \in Vectored /\ <<"kernelvec", "sret">> \in Vectors
    BY DEF Vectored, Vectors
  <2>2. ASSUME NEW h \in TrapHarts
        PROVE  /\ t_at[t_run[h]] = Userret => t_csr[h].sepc = [place |-> Trap!User, pc |-> t_upc[t_run[h]]] /\ ~t_csr[h].spp /\ t_csr[h].spie
               /\ t_at[t_run[h]] = <<"kernelvec", "sret">> => t_csr[h].sepc.place = t_was[t_run[h]] /\ t_csr[h].spp /\ t_csr[h].spie
               /\ t_at[t_run[h]] = Trap!User => t_pc[t_run[h]] = t_upc[t_run[h]] /\ t_csr[h].stvec = "uservec"
    <3> DEFINE a == t_at[t_run[h]]
    <3>1. Fits(h, t_run[h], a, t_csr[h], t_tf[t_run[h]], t_upc[t_run[h]], t_was[t_run[h]]) /\ (a = Trap!User => t_pc[t_run[h]] = t_upc[t_run[h]])
      BY <1>1
    <3> HIDE DEF a
    <3>2. a = Userret => t_csr[h].sepc = [place |-> Trap!User, pc |-> t_upc[t_run[h]]] /\ ~t_csr[h].spp /\ t_csr[h].spie
      BY <3>1 DEF Fits
    <3>3. a = <<"kernelvec", "sret">> => t_csr[h].sepc.place = t_was[t_run[h]] /\ t_csr[h].spp /\ t_csr[h].spie
      BY <2>1, <3>1 DEF Fits
    <3>4. a = Trap!User => t_pc[t_run[h]] = t_upc[t_run[h]] /\ t_csr[h].stvec = "uservec"
      BY <2>1, <3>1 DEF Fits
    <3> QED
      BY <3>2, <3>3, <3>4 DEF a
  <2> QED
    BY <2>2 DEF Trap!Resumes, Userret
<1> QED
  BY <1>2, <1>3 DEF Trap!NoPanic, TrapInv

\* For any number of harts and processes and a program of any length: every sret of
\* userret and kernelvec goes back to where that program or that kernel code was
\* interrupted, although yield() in usertrap() and kerneltrap() lets other contexts use
\* the registers of the hart, and the process may go on on another one; the kernel runs
\* on the right stack with the right hart number; usertrap() and kerneltrap() never panic.
THEOREM TrapRight == Trap!Spec => []Resumes
<1>1. Trap!Init => TrapInv
  BY CpusAssumption, TrapInit
<1>2. TrapInv /\ [Trap!Next]_(Trap!vars) => TrapInv'
  BY CpusAssumption, TrapStep
<1>3. TrapInv => Resumes
  BY CpusAssumption, TrapSafe DEF Resumes
<1> QED
  BY <1>1, <1>2, <1>3, PTL DEF Trap!Spec

=============================================================================
