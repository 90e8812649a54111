------------------------------ MODULE UserCopy ------------------------------
(***************************************************************************)
(* How the kernel reads and writes user memory: copyout(), copyin() and    *)
(* copyinstr() of kernel/vm.c, fetchaddr(), fetchstr() and argstr() of     *)
(* kernel/syscall.c, and the arguments of sys_exec() in kernel/sysfile.c.  *)
(* A user pointer is any number below SPACE, and pointer arithmetic wraps  *)
(* there; a pointer takes one unit of memory, as a character does.         *)
(* Physical memory is named by the address it is mapped at.                *)
(***************************************************************************)
EXTENDS Integers, Sequences

CONSTANTS
    PGSIZE, NPAGES, SPACE,  \* page size, pages below MAXVA, 2^64
    Values,                 \* what memory holds: characters and pointers, 0 is NUL
    MAXARG, MAXPATH,
    KPAGES                  \* pages kalloc() has

UserCopyAssumption ==
    /\ {PGSIZE, NPAGES, MAXARG, MAXPATH, KPAGES, SPACE} \subseteq Nat /\ PGSIZE > 0
    /\ NPAGES * PGSIZE < SPACE /\ 0 \in Values /\ Values \subseteq 0 .. SPACE - 1

MAXVA == NPAGES * PGSIZE

VARIABLES
    perm,       \* of each page: "none" (not there, evicted, or not PTE_U), "ro", "rw"
    mem,        \* user memory
    sz,         \* p->sz
    free,       \* pages kalloc() has left
    res         \* the last call and its result

vars == <<perm, mem, sz, free, res>>

NoCall == [op |-> "none"]

Init ==
    /\ perm \in [0 .. NPAGES - 1 -> {"none", "ro", "rw"}]
    /\ mem \in {m \in [0 .. MAXVA - 1 -> Values] : \A x \in DOMAIN m : perm[x \div PGSIZE] = "none" => m[x] = 0}
    /\ sz \in {MAXVA, MAXVA - PGSIZE} /\ \A q \in 0 .. NPAGES - 1 : q * PGSIZE >= sz => perm[q] = "none"
    /\ free = KPAGES /\ res = NoCall

-----------------------------------------------------------------------------
PGROUNDDOWN(va) == (va \div PGSIZE) * PGSIZE
Plus(a, n) == (a + n) % SPACE

\* walkaddr(): whether the page of va can be read.
walkaddr(va) == va < MAXVA /\ perm[va \div PGSIZE] # "none"

\* (mutants) the offset in the page is not counted; a string may go on for ever
Mut_Chunk(va, len) == IF PGSIZE > len THEN len ELSE PGSIZE

\* The bytes up to the end of the page, or as many as are left.
Chunk(va, len) == LET n == PGSIZE - (va - PGROUNDDOWN(va)) IN IF n > len THEN len ELSE n

Left(max, n) == max - n

NextPage(va) == Plus(PGROUNDDOWN(va), PGSIZE)

\* copyout(): [ret, mem].
RECURSIVE Out(_, _, _)
Out(m, dstva, src) ==
    LET n == Chunk(dstva, Len(src))
    IN  IF src = <<>> THEN [ret |-> 0, mem |-> m]
        ELSE IF PGROUNDDOWN(dstva) >= MAXVA \/ perm[dstva \div PGSIZE] # "rw" THEN [ret |-> -1, mem |-> m]
        ELSE Out([x \in DOMAIN m |-> IF dstva <= x /\ x < dstva + n THEN src[x - dstva + 1] ELSE m[x]],
                 NextPage(dstva), SubSeq(src, n + 1, Len(src)))

Bytes(va, n) == [k \in 1 .. n |-> IF va + k - 1 < MAXVA THEN mem[va + k - 1] ELSE 0]

\* copyin(): [ret, dst].
RECURSIVE In(_, _, _)
In(dst, srcva, len) ==
    LET n == Chunk(srcva, len)
    IN  IF len = 0 THEN [ret |-> 0, dst |-> dst]
        ELSE IF ~walkaddr(PGROUNDDOWN(srcva)) THEN [ret |-> -1, dst |-> dst]
        ELSE In(dst \o Bytes(srcva, n), NextPage(srcva), len - n)

\* copyinstr(): [ret, dst], dst without its NUL.
RECURSIVE InStr(_, _, _)
InStr(dst, srcva, max) ==
    LET n == Chunk(srcva, max)
        b == Bytes(srcva, n)
        nuls == {k \in 1 .. n : b[k] = 0}
    IN  IF max = 0 \/ ~walkaddr(PGROUNDDOWN(srcva)) THEN [ret |-> -1, dst |-> dst]
        ELSE IF nuls = {} THEN InStr(dst \o b, NextPage(srcva), Left(max, n))
        ELSE LET k == CHOOSE k \in nuls : \A j \in nuls : k <= j
             IN  [ret |-> 0, dst |-> dst \o SubSeq(b, 1, k - 1)]

\* fetchaddr(): [ret, dst], with the two tests of the bound.
fetchaddr(addr) == IF addr >= sz \/ Plus(addr, 1) > sz THEN [ret |-> -1, dst |-> <<>>] ELSE In(<<>>, addr, 1)

\* fetchstr() returns strlen(buf).
fetchstr(addr, max) ==
    LET r == InStr(<<>>, addr, max)
    IN  [ret |-> IF r.ret < 0 THEN -1 ELSE Len(r.dst), dst |-> r.dst]

-----------------------------------------------------------------------------
(* The calls.                                                              *)

Srcs == {[k \in 1 .. n |-> 2] : n \in 0 .. 2 * PGSIZE + 1}

copyout ==
    /\ res = NoCall
    /\ \E va \in 0 .. SPACE - 1, src \in Srcs :
          LET r == Out(mem, va, src)
          IN  mem' = r.mem /\ res' = [op |-> "copyout", va |-> va, src |-> src, ret |-> r.ret]
    /\ UNCHANGED <<perm, sz, free>>

copyin ==
    /\ res = NoCall
    /\ \E va \in 0 .. SPACE - 1, len \in 0 .. 2 * PGSIZE + 1 :
          LET r == In(<<>>, va, len) IN res' = [op |-> "copyin", va |-> va, len |-> len, ret |-> r.ret, dst |-> r.dst]
    /\ UNCHANGED <<perm, mem, sz, free>>

argstr ==
    /\ res = NoCall
    /\ \E va \in 0 .. SPACE - 1, max \in 1 .. PGSIZE + 1 :
          LET r == fetchstr(va, max) IN res' = [op |-> "argstr", va |-> va, max |-> max, ret |-> r.ret, dst |-> r.dst]
    /\ UNCHANGED <<perm, mem, sz, free>>

\* sys_exec(): the argument loop.  got counts the pages in argv.
RECURSIVE Args(_, _, _)
Args(argv, got, uargv) ==
    LET i == Len(argv)
        a == fetchaddr(Plus(uargv, i))
        s == fetchstr(a.dst[1], PGSIZE)
    IN  IF i >= MAXARG \/ a.ret < 0 THEN [ok |-> FALSE, argv |-> <<>>, got |-> got]
        ELSE IF a.dst[1] = 0 THEN [ok |-> TRUE, argv |-> argv, got |-> got]
        ELSE IF got = KPAGES THEN [ok |-> FALSE, argv |-> <<>>, got |-> got]
        ELSE IF s.ret < 0 THEN [ok |-> FALSE, argv |-> <<>>, got |-> got + 1]
        ELSE Args(Append(argv, s.dst), got + 1, uargv)

\* What the loops at the end of sys_exec() free: every non-zero argv[i].
Returned(r) == r.got

\* res holds what exec() is called with.
sys_exec ==
    /\ res = NoCall
    /\ \E path \in 0 .. SPACE - 1, uargv \in 0 .. SPACE - 1 :
          LET p == fetchstr(path, MAXPATH)
              r == IF p.ret < 0 THEN [ok |-> FALSE, argv |-> <<>>, got |-> 0] ELSE Args(<<>>, 0, uargv)
          IN  /\ res' = [op |-> "exec", path |-> path, uargv |-> uargv, ok |-> r.ok, argv |-> r.argv]
              /\ free' = free - r.got + Returned(r)
    /\ UNCHANGED <<perm, mem, sz>>

returns == res # NoCall /\ res' = NoCall /\ UNCHANGED <<perm, mem, sz, free>>

Next == copyout \/ copyin \/ argstr \/ sys_exec \/ returns

Spec == Init /\ [][Next]_vars

-----------------------------------------------------------------------------
(* Properties, without pages and chunks: a range of addresses.             *)

Cells(va, n) == va .. va + n - 1
Readable(C) == \A x \in C : x < MAXVA /\ perm[x \div PGSIZE] # "none"
Writable(C) == \A x \in C : x < MAXVA /\ perm[x \div PGSIZE] = "rw"

\* copyout() succeeds exactly when the program may write all of the range, and then
\* changes just that; when it fails it has filled whole pages in front of the first it
\* may not write, and nothing else.  No range wraps around.
CopyoutRight ==
    copyout =>
       LET c == res'
           C == Cells(c.va, Len(c.src))
           bad == {x \in C : ~Writable({x})}
           done == {x \in C : \A y \in bad : y > x}
       IN  /\ (c.ret = 0) = Writable(C)
           /\ mem' = [x \in DOMAIN mem |-> IF x \in done THEN c.src[x - c.va + 1] ELSE mem[x]]

\* copyin() succeeds exactly when the program may read all of the range, and gives it.
CopyinRight ==
    res.op = "copyin" =>
        /\ (res.ret = 0) = Readable(Cells(res.va, res.len))
        /\ res.ret = 0 => res.dst = Bytes(res.va, res.len)

\* The length of the string at va when it ends within max characters and everything up
\* to the NUL can be read, whatever lies behind it; otherwise none.
StrLens(va, max) ==
    {n \in 0 .. max - 1 : Readable(Cells(va, n + 1)) /\ mem[va + n] = 0 /\ \A k \in 0 .. n - 1 : mem[va + k] # 0}

\* argstr() gives the string at va, or fails when there is none.
ArgstrRight ==
    res.op = "argstr" =>
        LET L == StrLens(res.va, res.max)
        IN  IF L = {} THEN res.ret = -1 ELSE res.ret \in L /\ res.dst = Bytes(res.va, res.ret)

\* The pointers of an argument vector of n strings at va, below p->sz.
IsVector(va, n) ==
    /\ va + n < sz /\ Readable(Cells(va, n + 1)) /\ mem[va + n] = 0
    /\ \A k \in 0 .. n - 1 : mem[va + k] # 0 /\ StrLens(mem[va + k], PGSIZE) # {}

\* sys_exec() hands exec() exactly the strings of a well-formed vector, and gives back
\* every page it took for them however it ends.
ExecArgs ==
    /\ res = NoCall \/ res.op = "exec" => free = KPAGES
    /\ res.op = "exec" =>
          LET V == {n \in 0 .. MAXARG - 1 : n <= KPAGES /\ IsVector(res.uargv, n)}
          IN  IF V = {} \/ StrLens(res.path, MAXPATH) = {} THEN ~res.ok
              ELSE /\ res.ok /\ Len(res.argv) \in V
                   /\ \A k \in 1 .. Len(res.argv) :
                         LET a == mem[res.uargv + k - 1] IN res.argv[k] = Bytes(a, CHOOSE n \in StrLens(a, PGSIZE) : TRUE)

\* argstr() returns the length of the string with its NUL, as its comment has it.
LengthWithNul == res.op = "argstr" /\ res.ret >= 0 => res.ret = Len(res.dst) + 1

=============================================================================
