----------------------------- MODULE PageTable ------------------------------
(***************************************************************************)
(* The tree behind a user address space: walk(), mappages(), uvmunmap(),   *)
(* uvmalloc(), uvmdealloc(), uvmfree() and freewalk() of kernel/vm.c, with *)
(* proc_pagetable() and proc_freepagetable() of kernel/proc.c.  Module     *)
(* SwapVM has the same calls over a flat table, with eviction; here        *)
(* kalloc() fails when memory is out.  Addresses count pages.              *)
(***************************************************************************)
EXTENDS Integers, FiniteSets

CONSTANTS
    LEVELS, FANOUT,     \* 3 and 512
    NFRAMES             \* physical pages

PageTableAssumption == LEVELS \in Nat \ {0} /\ FANOUT \in Nat \ {0, 1} /\ NFRAMES \in Nat /\ FANOUT ^ LEVELS > 2

MAXVA == FANOUT ^ LEVELS
TRAMPOLINE == MAXVA - 1
TRAPFRAME == MAXVA - 2
Physical == 1 .. NFRAMES
Trampoline == NFRAMES + 1       \* the kernel's page with the trampoline code

VARIABLES
    m,          \* memory: [tab, free, panic]
    pagetable,  \* the root, 0 for none
    sz,         \* pages of the process
    trapframe,  \* its frame, 0 for none
    other       \* frames held elsewhere in the kernel

vars == <<m, pagetable, sz, trapframe, other>>

None == [k |-> "none", f |-> 0]
Pte(k, f) == [k |-> k, f |-> f]
Empty == [i \in 0 .. FANOUT - 1 |-> None]

Init ==
    /\ m = [tab |-> [f \in Physical |-> Empty], free |-> Physical, panic |-> FALSE]
    /\ pagetable = 0 /\ sz = 0 /\ trapframe = 0 /\ other = {}

MinOf(S) == CHOOSE x \in S : \A y \in S : x <= y

\* kalloc() and memset(): [s, f], f = 0 when there is none.
kalloc(s) ==
    IF s.free = {} THEN [s |-> s, f |-> 0]
    ELSE LET f == MinOf(s.free) IN [s |-> [s EXCEPT !.free = @ \ {f}, !.tab[f] = Empty], f |-> f]

\* kfree().  A page that is free already is recorded as a panic.
kfree(s, f) == [s EXCEPT !.free = @ \union {f}, !.tab[f] = Empty, !.panic = @ \/ f \in s.free]

Panics(s) == [s EXCEPT !.panic = TRUE]

-----------------------------------------------------------------------------
PX(level, va) == (va \div FANOUT ^ level) % FANOUT

\* walk() from table t: the level-0 table, 0 when one is missing.
RECURSIVE walk(_, _, _, _, _)
walk(s, t, level, va, alloc) ==
    LET e == s.tab[t][PX(level, va)]
        a == kalloc(s)
    IN  IF level = 0 THEN [s |-> s, t |-> t]
        ELSE IF e.k # "none" THEN walk(s, e.f, level - 1, va, alloc)
        ELSE IF ~alloc \/ a.f = 0 THEN [s |-> s, t |-> 0]
        ELSE walk([a.s EXCEPT !.tab[t][PX(level, va)] = Pte("table", a.f)], a.f, level - 1, va, alloc)

\* mappages() of one page: [s, ok].
mappages(s, root, va, f) ==
    LET w == walk(s, root, LEVELS - 1, va, TRUE)
    IN  IF w.t = 0 THEN [s |-> w.s, ok |-> FALSE]
        ELSE IF w.s.tab[w.t][PX(0, va)].k # "none" THEN [s |-> Panics(w.s), ok |-> TRUE]
        ELSE [s |-> [w.s EXCEPT !.tab[w.t][PX(0, va)] = Pte("leaf", f)], ok |-> TRUE]

\* uvmunmap() of the pages first .. last.
RECURSIVE uvmunmap(_, _, _, _, _)
uvmunmap(s, root, first, last, do_free) ==
    LET w == walk(s, root, LEVELS - 1, first, FALSE)
        e == s.tab[w.t][PX(0, first)]
        cleared == [s EXCEPT !.tab[w.t][PX(0, first)] = None]
    IN  IF first > last \/ s.panic THEN s
        ELSE IF w.t = 0 THEN Panics(s)
        ELSE IF e.k # "leaf" THEN Panics(s)
        ELSE uvmunmap(IF do_free THEN kfree(cleared, e.f) ELSE cleared, root, first + 1, last, do_free)

\* freewalk().
RECURSIVE freewalk(_, _, _)
freewalk(s, t, i) ==
    LET e == s.tab[t][i]
    IN  IF i = FANOUT THEN kfree(s, t)
        ELSE IF e.k = "table" THEN freewalk([freewalk(s, e.f, 0) EXCEPT !.tab[t][i] = None], t, i + 1)
        ELSE IF e.k = "leaf" THEN Panics(s)
        ELSE freewalk(s, t, i + 1)

uvmfree(s, root, n) == freewalk(uvmunmap(s, root, 0, n - 1, TRUE), root, 0)

\* (mutant) the pages mapped so far are kept
Mut_Undo(s, root, a, old) == s

\* uvmdealloc() from a back to old.
Undo(s, root, a, old) == uvmunmap(s, root, old, a - 1, TRUE)

Dropped(s, f) == kfree(s, f)

\* uvmalloc(): [s, ok].
RECURSIVE Grow(_, _, _, _, _)
Grow(s, root, a, old, new) ==
    LET mem == kalloc(s)
        r == mappages(mem.s, root, a, mem.f)
    IN  IF a = new THEN [s |-> s, ok |-> TRUE]
        ELSE IF mem.f = 0 THEN [s |-> Undo(s, root, a, old), ok |-> FALSE]
        ELSE IF ~r.ok THEN [s |-> Undo(Dropped(r.s, mem.f), root, a, old), ok |-> FALSE]
        ELSE Grow(r.s, root, a + 1, old, new)

-----------------------------------------------------------------------------
\* proc_pagetable() when the trapframe cannot be mapped.  It never comes to that: the
\* trampoline is in the same level-0 table.
NoTrapframe(s, root) == uvmfree(uvmunmap(s, root, TRAMPOLINE, TRAMPOLINE, FALSE), root, 0)

\* allocproc(): the trapframe and proc_pagetable(), or nothing.
proc_pagetable ==
    LET tf == kalloc(m)
        r == kalloc(tf.s)
        a == mappages(r.s, r.f, TRAMPOLINE, Trampoline)
        b == mappages(a.s, r.f, TRAPFRAME, tf.f)
        none(s) == /\ m' = kfree(s, tf.f) /\ UNCHANGED <<pagetable, trapframe>>
    IN  /\ pagetable = 0 /\ ~m.panic
        /\ \/ tf.f = 0 /\ UNCHANGED <<m, pagetable, trapframe>>
           \/ /\ tf.f # 0
              /\ IF r.f = 0 THEN none(tf.s)
                 ELSE IF ~a.ok THEN none(uvmfree(a.s, r.f, 0))
                 ELSE IF ~b.ok THEN none(NoTrapframe(b.s, r.f))
                 ELSE m' = b.s /\ pagetable' = r.f /\ trapframe' = tf.f
        /\ UNCHANGED <<sz, other>>

growproc ==
    /\ pagetable # 0 /\ ~m.panic
    /\ \E n \in 0 .. TRAPFRAME :
          IF n >= sz
          THEN LET r == Grow(m, pagetable, sz, sz, n) IN m' = r.s /\ sz' = IF r.ok THEN n ELSE sz
          ELSE m' = Undo(m, pagetable, sz, n) /\ sz' = n
    /\ UNCHANGED <<pagetable, trapframe, other>>

proc_freepagetable(s, root, n) ==
    uvmfree(uvmunmap(uvmunmap(s, root, TRAMPOLINE, TRAMPOLINE, FALSE), root, TRAPFRAME, TRAPFRAME, FALSE), root, n)

\* freeproc(): the trapframe, then the page table.
freeproc ==
    /\ pagetable # 0 /\ ~m.panic
    /\ m' = proc_freepagetable(kfree(m, trapframe), pagetable, sz)
    /\ pagetable' = 0 /\ sz' = 0 /\ trapframe' = 0
    /\ UNCHANGED other

\* The rest of the kernel takes and returns pages.
others ==
    /\ ~m.panic
    /\ \/ LET a == kalloc(m) IN a.f # 0 /\ m' = a.s /\ other' = other \union {a.f}
       \/ \E f \in other : m' = kfree(m, f) /\ other' = other \ {f}
    /\ UNCHANGED <<pagetable, sz, trapframe>>

Next == proc_pagetable \/ growproc \/ freeproc \/ others

Spec == Init /\ [][Next]_vars

-----------------------------------------------------------------------------
(* Properties.                                                             *)

\* The tables of the tree, and the pages it maps, found from the root.
RECURSIVE Tables(_, _)
Tables(t, level) ==
    {t} \union (IF level = 0 THEN {}
                ELSE UNION {Tables(m.tab[t][i].f, level - 1) : i \in {j \in 0 .. FANOUT - 1 : m.tab[t][j].k = "table"}})
Leaf(va) == LET w == walk(m, pagetable, LEVELS - 1, va, FALSE) IN IF w.t = 0 THEN None ELSE m.tab[w.t][PX(0, va)]
Mapped == {va \in 0 .. MAXVA - 1 : Leaf(va).k = "leaf"}
UserFrames == {Leaf(va).f : va \in 0 .. sz - 1}

\* The address space is the pages below sz, the trapframe and the trampoline, each at
\* its own frame, after any sequence of calls and failures.
MappedExactly ==
    pagetable # 0 /\ ~m.panic =>
        /\ Mapped = (0 .. sz - 1) \union {TRAPFRAME, TRAMPOLINE}
        /\ Leaf(TRAPFRAME).f = trapframe /\ Leaf(TRAMPOLINE).f = Trampoline
        /\ Cardinality(UserFrames) = sz

\* Every frame is free, in the rest of the kernel, a table of the tree, a user page or the
\* trapframe, and just one of them: a call that fails half way leaks nothing.
FramesOnce ==
    LET tables == IF pagetable = 0 THEN {} ELSE Tables(pagetable, LEVELS - 1)
        user == IF pagetable = 0 THEN {} ELSE UserFrames
        tf == {trapframe} \ {0}
    IN  ~m.panic =>
            /\ m.free \union other \union tables \union user \union tf = Physical
            /\ Cardinality(m.free) + Cardinality(other) + Cardinality(tables) + Cardinality(user) + Cardinality(tf) = NFRAMES

\* mappages() never meets a mapping, uvmunmap() never misses one, and freewalk() never
\* meets a leaf.
NoPanic == ~m.panic

=============================================================================
