-------------------------------- MODULE Exec --------------------------------
(***************************************************************************)
(* exec() and loadseg() of kernel/exec.c, with uvmalloc(), uvmclear(),     *)
(* copyout() and proc_freepagetable() as they use them, for one process,   *)
(* beside other processes that allocate pages and so evict pages of this   *)
(* one (swapout(), in full in module SwapVM, is a step here).              *)
(*                                                                         *)
(* Memory is in units, PGSIZE of them to a page.  The unit at offset k of  *)
(* the program's file is 100 + k, unit k of argument j is 1000 j + k, and  *)
(* a pointer to x is -1 - x, so that the contents tell where they belong.  *)
(***************************************************************************)
EXTENDS Integers, Sequences, FiniteSets

CONSTANTS
    Frames,         \* physical pages, numbered
    SLOTS,          \* swap slots
    PGSIZE, NPAGES, \* MAXVA is NPAGES * PGSIZE
    ADDR,           \* addresses are computed modulo ADDR
    USERSTACK, MAXARG,
    ALIGN, PTR,     \* alignment of sp, and sizeof(uint64)
    Elfs,           \* programs: sequences of [va, memsz, off, filesz]
    Argvs           \* argument vectors: sequences of string sizes, the 0 included

Units == 0 .. PGSIZE - 1
Zeros == [u \in Units |-> 0]
Nobody == 0

\* Free frames are alike: the first stands for any.
First(S) == {f \in S : \A g \in S : f <= g}

ExecAssumption ==
    /\ Frames \subseteq Nat \ {Nobody} /\ Cardinality(Frames) < NPAGES /\ NPAGES * PGSIZE < ADDR
    /\ \A v \in Argvs : Len(v) < MAXARG /\ \A k \in DOMAIN v : v[k] \in 1 .. PGSIZE

VARIABLES
    mem,        \* content of each frame
    free,       \* frames that are on the free list or other processes'
    other,      \* how many of these are other processes'
    pt, sz,     \* page table and size of "cur", the process, and of "new"
    ip, op,     \* exec() holds the inode, locked; it is in a transaction
    x,          \* the other variables of exec()
    was,        \* history: what the memory of the process held before the call
    panicked

vars == <<mem, free, other, pt, sz, ip, op, x, was, panicked>>

Free == Cardinality(free) - other

Unmapped == [at |-> "none", f |-> Nobody, c |-> Zeros, u |-> FALSE]
Empty == [k \in 0 .. NPAGES - 1 |-> Unmapped]
Idle == [pc |-> "user", elf |-> <<>>, argv |-> <<>>, have |-> FALSE, i |-> 1, a |-> 0,
         from |-> 0, upto |-> 0, j |-> 0, pa |-> Nobody, sp |-> 0, ustack |-> <<>>]

\* A process whose memory is one page.
Init ==
    /\ \E f \in First(Frames) :
          /\ mem = [g \in Frames |-> Zeros] /\ free = Frames \ {f} /\ other = 0
          /\ pt = [cur |-> [Empty EXCEPT ![0] = [Unmapped EXCEPT !.at = "mem", !.f = f, !.u = TRUE]],
                   new |-> Empty]
    /\ sz = [cur |-> PGSIZE, new |-> 0]
    /\ ip = FALSE /\ op = FALSE /\ x = Idle /\ panicked = "no"
    /\ was = [k \in 0 .. PGSIZE - 1 |-> 0]

PGROUNDUP(n) == ((n + PGSIZE - 1) \div PGSIZE) * PGSIZE
Page(a) == a \div PGSIZE

At(pc) == x.pc = pc /\ panicked = "no"
panic(why) == panicked' = why /\ UNCHANGED <<mem, free, other, pt, sz, ip, op, x, was>>

\* The unit at address a, in memory or on the swap disk.
Value(as, a) ==
    LET e == pt[as][Page(a)]
    IN  IF e.at = "mem" THEN mem[e.f][a % PGSIZE] ELSE e.c[a % PGSIZE]

-----------------------------------------------------------------------------
(* Memory.                                                                 *)

Pages == {"cur", "new"} \X (0 .. NPAGES - 1)
Mapped(f) == {y \in Pages : pt[y[1]][y[2]].f = f}
InUse == {y \in Pages : pt[y[1]][y[2]].at = "swap"}
Evictable(y) == pt[y[1]][y[2]].at = "mem" /\ Cardinality(InUse) < SLOTS

\* swapout() of page y: which one depends on the accessed bits and on who else has
\* turned the clock.  The frame goes to the free list.
swapout(y) ==
    LET e == pt[y[1]][y[2]]
    IN  /\ Evictable(y)
        /\ pt' = [pt EXCEPT ![y[1]][y[2]] = [@ EXCEPT !.at = "swap", !.f = Nobody, !.c = mem[e.f]]]
        /\ free' = free \union {e.f} /\ mem' = [mem EXCEPT ![e.f] = Zeros]

\* kalloc() of another process evicts a page of this one; it gets or frees a page.
evict ==
    /\ panicked = "no" /\ \E y \in Pages : swapout(y)
    /\ UNCHANGED <<other, sz, ip, op, x, was, panicked>>
other_alloc ==
    /\ panicked = "no" /\ Free > 0 /\ other' = other + 1
    /\ UNCHANGED <<mem, free, pt, sz, ip, op, x, was, panicked>>
other_free ==
    /\ panicked = "no" /\ other > 0 /\ other' = other - 1
    /\ UNCHANGED <<mem, free, pt, sz, ip, op, x, was, panicked>>

\* swapin(), on a page fault of the process.
swapin ==
    /\ At("user") /\ Free > 0
    /\ \E k \in 0 .. NPAGES - 1 : \E f \in First(free) :
          /\ pt.cur[k].at = "swap"
          /\ free' = free \ {f} /\ mem' = [mem EXCEPT ![f] = pt.cur[k].c]
          /\ pt' = [pt EXCEPT !.cur[k] = [@ EXCEPT !.at = "mem", !.f = f, !.c = Zeros]]
    /\ UNCHANGED <<other, sz, ip, op, x, was, panicked>>

\* Pages S of as are unmapped: the frames, the table and memory after it.
FramesOf(as, S) == {pt[as][k].f : k \in S} \ {Nobody}
Gone(as, S) == [k \in 0 .. NPAGES - 1 |-> IF k \in S THEN Unmapped ELSE pt[as][k]]
Wiped(F) == [f \in Frames |-> IF f \in F THEN Zeros ELSE mem[f]]

\* The pages of an image of size n.
Image(n) == 0 .. Page(PGROUNDUP(n)) - 1

\* proc_freepagetable(as, n): uvmunmap() insists on a mapping, freewalk() that none is left.
Freeable(as, n) ==
    /\ \A k \in Image(n) : pt[as][k].at # "none"
    /\ \A k \in (0 .. NPAGES - 1) \ Image(n) : pt[as][k].at = "none"

-----------------------------------------------------------------------------
(* exec() as far as the stack.                                             *)

\* namei() has found the inode: begin_op(); ilock(ip).
exec ==
    /\ At("user")
    /\ \E e \in Elfs, v \in Argvs : x' = [Idle EXCEPT !.pc = "header", !.elf = e, !.argv = v]
    /\ ip' = TRUE /\ op' = TRUE
    /\ was' = [a \in 0 .. PGROUNDUP(sz.cur) - 1 |-> Value("cur", a)]
    /\ UNCHANGED <<mem, free, other, pt, sz, panicked>>

\* readi() of the header and proc_pagetable(): either may fail.
header ==
    /\ At("header")
    /\ \/ x' = [x EXCEPT !.pc = "bad"]
       \/ x' = [x EXCEPT !.pc = "segment", !.have = TRUE]
    /\ UNCHANGED <<mem, free, other, pt, sz, ip, op, was, panicked>>

\* The checks of a program header.
Sound(s) == s.memsz >= s.filesz /\ (s.va + s.memsz) % ADDR >= s.va /\ s.va % PGSIZE = 0

\* uvmalloc(pagetable, sz, upto): nothing to do when it is not larger.
Grow(upto, then) ==
    [x EXCEPT !.pc = IF upto < sz.new THEN then ELSE "grow", !.upto = upto, !.a = PGROUNDUP(sz.new),
              !.from = PGROUNDUP(sz.new), !.j = 0]

\* A turn of the loop over the program headers; readi() of one may fail.
segment ==
    /\ At("segment") /\ x.i <= Len(x.elf)
    /\ LET s == x.elf[x.i]
       IN  \/ x' = [x EXCEPT !.pc = "bad"]
           \/ Sound(s) /\ x' = Grow((s.va + s.memsz) % ADDR, "walk")
    /\ UNCHANGED <<mem, free, other, pt, sz, ip, op, was, panicked>>

\* A page of uvmalloc(): kalloc(), if necessary after a swapout(), and mappages().
grow ==
    /\ At("grow") /\ x.a < x.upto
    /\ \/ /\ Free = 0 /\ \E y \in Pages : swapout(y)
          /\ UNCHANGED x
       \/ Free > 0 /\ \E f \in First(free) :
             /\ free' = free \ {f} /\ mem' = [mem EXCEPT ![f] = Zeros]
             /\ pt' = [pt EXCEPT !.new[Page(x.a)] = [Unmapped EXCEPT !.at = "mem", !.f = f, !.u = TRUE]]
             /\ x' = [x EXCEPT !.a = @ + PGSIZE]
    /\ UNCHANGED <<other, sz, ip, op, was, panicked>>

\* uvmdealloc(pagetable, a, oldsz)
Undo == Page(x.from) .. Page(x.a) - 1

\* kalloc() fails: uvmalloc() returns 0.
grow_fails ==
    /\ At("grow") /\ x.a < x.upto /\ Free = 0 /\ ~\E y \in Pages : Evictable(y)
    /\ free' = free \union FramesOf("new", Undo) /\ mem' = Wiped(FramesOf("new", Undo))
    /\ pt' = [pt EXCEPT !.new = Gone("new", Undo)]
    /\ x' = [x EXCEPT !.pc = "bad"]
    /\ UNCHANGED <<other, sz, ip, op, was, panicked>>

\* uvmalloc() returns: a new size of 0 is an error.
grown ==
    /\ At("grow") /\ x.a >= x.upto
    /\ sz' = IF x.upto = 0 THEN sz ELSE [sz EXCEPT !.new = x.upto]
    /\ x' = [x EXCEPT !.pc = IF x.upto = 0 THEN "bad" ELSE IF ip THEN "walk" ELSE "clear"]
    /\ UNCHANGED <<mem, free, other, pt, ip, op, was, panicked>>

\* loadseg(): walkaddr(), and then readi() into the physical page.
walk ==
    LET s == x.elf[x.i]
        k == Page(s.va + x.j)
    IN  /\ At("walk")
        /\ IF x.j >= s.filesz
           THEN x' = [x EXCEPT !.pc = "segment", !.i = @ + 1] /\ UNCHANGED <<mem, free, other, pt, sz, ip, op, was, panicked>>
           ELSE IF k >= NPAGES \/ pt.new[k].at # "mem" \/ ~pt.new[k].u
           THEN panic("loadseg: address should exist")
           ELSE /\ x' = [x EXCEPT !.pc = "readi", !.pa = pt.new[k].f]
                /\ UNCHANGED <<mem, free, other, pt, sz, ip, op, was, panicked>>

\* (mutant) a whole page, past the end of the segment
Mut_Amount(left) == PGSIZE

\* n of loadseg().
Amount(left) == IF left < PGSIZE THEN left ELSE PGSIZE

\* readi() reads n bytes at offset + i, or fails.
readi ==
    LET s == x.elf[x.i]
        n == Amount(s.filesz - x.j)
    IN  /\ At("readi")
        /\ \/ /\ mem' = [mem EXCEPT ![x.pa] = [u \in Units |-> IF u < n THEN 100 + s.off + x.j + u ELSE @[u]]]
              /\ x' = [x EXCEPT !.pc = "walk", !.j = @ + PGSIZE, !.pa = Nobody]
           \/ x' = [x EXCEPT !.pc = "bad", !.pa = Nobody] /\ UNCHANGED mem
        /\ UNCHANGED <<free, other, pt, sz, ip, op, was, panicked>>

-----------------------------------------------------------------------------
(* The stack, and the end.                                                 *)

\* iunlockput(ip); end_op(); then the guard page and the stack.
stack ==
    /\ At("segment") /\ x.i > Len(x.elf)
    /\ ip' = FALSE /\ op' = FALSE
    /\ sz' = [sz EXCEPT !.new = PGROUNDUP(@)]
    /\ LET top == PGROUNDUP(sz.new) IN
       x' = [x EXCEPT !.pc = "grow", !.upto = top + (USERSTACK + 1) * PGSIZE, !.a = top, !.from = top]
    /\ UNCHANGED <<mem, free, other, pt, was, panicked>>

stackbase == sz.new - USERSTACK * PGSIZE

uvmclear ==
    /\ At("clear")
    /\ pt' = [pt EXCEPT !.new[Page(sz.new - (USERSTACK + 1) * PGSIZE)].u = FALSE]
    /\ x' = [x EXCEPT !.pc = "push", !.sp = sz.new]
    /\ UNCHANGED <<mem, free, other, sz, ip, op, was, panicked>>

\* sp -= n, rounded down.
Down(sp, n) == (sp - n) - ((sp - n) % ALIGN)

\* copyout(new, a, the n units of c): it needs every page present and for the user.
Writable(a, n) == \A k \in Page(a) .. Page(a + n - 1) : pt.new[k].at = "mem" /\ pt.new[k].u

Copied(a, n, c) ==
    [f \in Frames |->
        IF \E y \in Mapped(f) : y[1] = "new"
        THEN LET base == PGSIZE * (CHOOSE k \in 0 .. NPAGES - 1 : pt.new[k].f = f)
             IN  [u \in Units |-> IF base + u \in a .. a + n - 1 THEN c[base + u - a] ELSE mem[f][u]]
        ELSE mem[f]]

Overflows(sp) == sp < stackbase

\* Argument number argc goes onto the stack.
push ==
    LET argc == Len(x.ustack)
        n == x.argv[argc + 1]
        sp == Down(x.sp, n)
    IN  /\ At("push") /\ argc < Len(x.argv)
        /\ IF argc >= MAXARG \/ Overflows(sp) \/ ~Writable(sp, n)
           THEN x' = [x EXCEPT !.pc = "bad"] /\ UNCHANGED mem
           ELSE /\ mem' = Copied(sp, n, [k \in 0 .. n - 1 |-> 1000 * (argc + 1) + k])
                /\ x' = [x EXCEPT !.sp = sp, !.ustack = Append(@, sp)]
        /\ UNCHANGED <<free, other, pt, sz, ip, op, was, panicked>>

\* ustack[argc] = 0, and the array of pointers.
pushargv ==
    LET argc == Len(x.ustack)
        n == (argc + 1) * PTR
        sp == Down(x.sp, n)
    IN  /\ At("push") /\ argc = Len(x.argv)
        /\ IF Overflows(sp) \/ ~Writable(sp, n)
           THEN x' = [x EXCEPT !.pc = "bad"] /\ UNCHANGED mem
           ELSE /\ mem' = Copied(sp, n, [k \in 0 .. n - 1 |->
                             IF k \div PTR < argc THEN -1 - x.ustack[(k \div PTR) + 1] ELSE 0])
                /\ x' = [x EXCEPT !.pc = "commit", !.sp = sp]
        /\ UNCHANGED <<free, other, pt, sz, ip, op, was, panicked>>

\* The size the old page table is freed with.
oldsz == sz.cur

\* The process gets the new image, and the old one is freed.
commit ==
    /\ At("commit")
    /\ IF ~Freeable("cur", oldsz) THEN panic("uvmunmap or freewalk")
       ELSE /\ free' = free \union FramesOf("cur", Image(sz.cur)) /\ mem' = Wiped(FramesOf("cur", Image(sz.cur)))
            /\ pt' = [cur |-> pt.new, new |-> Empty] /\ sz' = [cur |-> sz.new, new |-> 0]
            /\ x' = [Idle EXCEPT !.pc = "main", !.elf = x.elf, !.argv = x.argv, !.sp = x.sp]
            /\ was' = <<>>
            /\ UNCHANGED <<other, ip, op, panicked>>

\* The program runs.
main ==
    /\ At("main") /\ x' = Idle
    /\ UNCHANGED <<mem, free, other, pt, sz, ip, op, was, panicked>>

\* The transaction after the error path.
op_after == IF ip THEN FALSE ELSE op

bad ==
    /\ At("bad")
    /\ IF x.have /\ ~Freeable("new", sz.new) THEN panic("uvmunmap or freewalk")
       ELSE /\ free' = free \union FramesOf("new", Image(sz.new)) /\ mem' = Wiped(FramesOf("new", Image(sz.new)))
            /\ pt' = [pt EXCEPT !.new = Empty] /\ sz' = [sz EXCEPT !.new = 0]
            /\ ip' = FALSE /\ op' = op_after
            /\ x' = [Idle EXCEPT !.pc = "failed"]
            /\ UNCHANGED <<other, was, panicked>>

failed ==
    /\ At("failed") /\ x' = Idle /\ was' = <<>>
    /\ UNCHANGED <<mem, free, other, pt, sz, ip, op, panicked>>

-----------------------------------------------------------------------------
Halted == panicked # "no" /\ UNCHANGED vars

Call ==
    \/ header \/ segment \/ grow \/ grow_fails \/ grown \/ walk \/ readi \/ stack
    \/ uvmclear \/ push \/ pushargv \/ commit \/ main \/ bad \/ failed

Next == exec \/ Call \/ evict \/ other_alloc \/ other_free \/ swapin \/ Halted

Spec == Init /\ [][Next]_vars

-----------------------------------------------------------------------------
(* Properties.                                                             *)

TypeOK ==
    /\ free \subseteq Frames /\ other \in 0 .. Cardinality(free) /\ ip \in BOOLEAN /\ op \in BOOLEAN
    /\ sz.cur \in 0 .. NPAGES * PGSIZE /\ sz.new \in 0 .. NPAGES * PGSIZE
    /\ \A y \in Pages : pt[y[1]][y[2]].at \in {"none", "mem", "swap"}
    /\ x.a % PGSIZE = 0

NoPanic == panicked = "no"

\* Every frame is free, another process's, or mapped at one page of one image, on every
\* path through exec(): an exec() that fails gives back all it took.
FramesOwned ==
    \A f \in Frames : (IF f \in free THEN 1 ELSE 0) + Cardinality(Mapped(f)) = 1

\* Between calls no inode is locked, no transaction is open, no second image is left.
CallEnds == x.pc \in {"user", "main"} => ~ip /\ ~op /\ pt.new = Empty

\* exec() that fails, at whatever point, leaves the memory of the process as it was.
FailsCleanly == x.pc = "failed" => \A a \in 0 .. PGROUNDUP(sz.cur) - 1 : Value("cur", a) = was[a]

\* Address a below the stack holds what the last segment that covers it has there: bytes
\* of the file, or 0 behind them.
Program(a) ==
    LET in(k) == x.elf[k].va <= a /\ a < x.elf[k].va + x.elf[k].filesz
        S == {k \in DOMAIN x.elf : in(k)}
    IN  IF S = {} THEN 0
        ELSE LET k == CHOOSE m \in S : \A l \in S : l <= m
             IN  100 + x.elf[k].off + a - x.elf[k].va
ImageLoaded ==
    x.pc = "main" => \A a \in 0 .. sz.cur - (USERSTACK + 1) * PGSIZE - 1 : Value("cur", a) = Program(a)

\* main() finds its arguments: argv[j] points to all of string j, the strings and the
\* array lie within the stack and do not overlap, a 0 ends the array, sp is aligned.
ArgvRight ==
    x.pc = "main" =>
        /\ x.sp % ALIGN = 0 /\ x.sp >= sz.cur - USERSTACK * PGSIZE
        /\ Value("cur", x.sp + Len(x.argv) * PTR) = 0
        /\ \A j \in DOMAIN x.argv :
              LET p == -1 - Value("cur", x.sp + (j - 1) * PTR)
              IN  /\ p \in 0 .. sz.cur - 1 /\ p % ALIGN = 0
                  /\ \A k \in 0 .. x.argv[j] - 1 : Value("cur", p + k) = 1000 * j + k

=============================================================================
