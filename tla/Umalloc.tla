------------------------------ MODULE Umalloc -------------------------------
(***************************************************************************)
(* malloc() and free() of user/umalloc.c.  Addresses count headers (units  *)
(* of sizeof(Header) bytes); base is at address 0 and the heap begins      *)
(* above it.  A block is its header and what follows.                      *)
(***************************************************************************)
EXTENDS Integers, TLC

CONSTANTS
    UNIT,       \* sizeof(Header)
    NALLOC,     \* units morecore() asks for at least: 4096
    MAXBRK,     \* bound: sbrk() fails beyond
    MAXBYTES    \* bound: the largest request

UmallocAssumption == UNIT \in Nat \ {0} /\ NALLOC \in Nat \ {0} /\ MAXBRK \in Nat /\ MAXBYTES \in Nat

HEAP == 2
base == 0

VARIABLES
    hdr,        \* address -> [ptr, size], for base and every block
    freep,      \* -1 stands for the null pointer of the first call
    brk,
    live,       \* ghost: address -> bytes asked for, of the blocks handed out
    core,       \* ghost: the units morecore() has got
    refused     \* ghost: the last malloc() returned 0, asked for so many units

vars == <<hdr, freep, brk, live, core, refused>>

H(p, z) == [ptr |-> p, size |-> z]
Put(f, a, v) == [x \in DOMAIN f \union {a} |-> IF x = a THEN v ELSE f[x]]
Drop(f, a) == [x \in DOMAIN f \ {a} |-> f[x]]

Init ==
    /\ hdr = [x \in {base} |-> H(base, 0)] /\ freep = -1 /\ brk = HEAP
    /\ live = [x \in {} |-> 0] /\ core = {} /\ refused = 0

-----------------------------------------------------------------------------
\* (mutant) any free block below bp would do
Mut_Here(p, q, bp) == p < bp \/ p >= q

\* free(): bp belongs between free blocks p and q, or at the end of the list.
Here(p, q, bp) == (p < bp /\ bp < q) \/ (p >= q /\ (bp > p \/ bp < q))

\* The free block after which bp belongs.
RECURSIVE Place(_, _, _)
Place(h, p, bp) ==
    LET q == h[p].ptr
    IN  IF Here(p, q, bp) THEN p ELSE Place(h, q, bp)

\* Joined with the block above it, or linked to it.
Upper(h, p, bp) ==
    LET q == h[p].ptr
    IN  IF bp + h[bp].size = q
        THEN Drop(Put(h, bp, H(h[q].ptr, h[bp].size + h[q].size)), q)
        ELSE Put(h, bp, [h[bp] EXCEPT !.ptr = q])

\* Joined with the block below it, or linked from it.
Lower(h, p, bp) ==
    IF p + h[p].size = bp
    THEN Drop(Put(h, p, H(h[bp].ptr, h[p].size + h[bp].size)), bp)
    ELSE Put(h, p, [h[p] EXCEPT !.ptr = bp])

\* free(bp), as a function of the headers: [hdr, freep].
Freed(h, fp, bp) ==
    LET p == Place(h, fp, bp)
        u == Upper(h, p, bp)
    IN  [hdr |-> Lower(u, p, bp), freep |-> p]

-----------------------------------------------------------------------------

nunits(nbytes) == (nbytes + UNIT - 1) \div UNIT + 1

\* morecore(): as much from sbrk(), freed at once.  Null when sbrk() fails.
Ask(nu) == IF nu < NALLOC THEN NALLOC ELSE nu

Fits(size, n) == size >= n

\* Block p, found after prevp, gives up n units: all of it, or its tail.
Taken(h, prevp, p, n) ==
    IF h[p].size = n
    THEN [hdr |-> Put(Put(h, prevp, [h[prevp] EXCEPT !.ptr = h[p].ptr]), p, H(0, n)), freep |-> prevp, at |-> p]
    ELSE LET rest == h[p].size - n
         IN  [hdr |-> Put(Put(h, p, [h[p] EXCEPT !.size = rest]), p + rest, H(0, n)), freep |-> prevp, at |-> p + rest]

\* The loop of malloc(): the blocks after prevp in turn; back at freep, more memory.
RECURSIVE Search(_, _, _, _, _)
Search(h, fp, b, prevp, n) ==
    LET p == h[prevp].ptr
    IN  IF Fits(h[p].size, n) THEN [brk |-> b] @@ Taken(h, prevp, p, n)
        ELSE IF p # fp THEN Search(h, fp, b, p, n)
        ELSE IF b + Ask(n) > MAXBRK THEN [hdr |-> h, freep |-> fp, at |-> -1, brk |-> b]
        ELSE LET f == Freed(Put(h, b, H(0, Ask(n))), fp, b)
             IN  Search(f.hdr, f.freep, b + Ask(n), f.freep, n)

malloc ==
    \E nbytes \in 0 .. MAXBYTES :
        LET n == nunits(nbytes)
            fp == IF freep = -1 THEN base ELSE freep
            r == Search(hdr, fp, brk, fp, n)
        IN  /\ hdr' = r.hdr /\ freep' = r.freep /\ brk' = r.brk
            /\ core' = core \union (brk .. r.brk - 1)
            /\ live' = IF r.at = -1 THEN live ELSE Put(live, r.at, nbytes)
            /\ refused' = IF r.at = -1 THEN n ELSE 0

free ==
    \E bp \in DOMAIN live :
        LET r == Freed(hdr, freep, bp)
        IN  /\ hdr' = r.hdr /\ freep' = r.freep
            /\ live' = Drop(live, bp) /\ refused' = 0
            /\ UNCHANGED <<brk, core>>

\* The program moves the break itself.
sbrk ==
    /\ brk < MAXBRK /\ brk' = brk + 1 /\ refused' = 0
    /\ UNCHANGED <<hdr, freep, live, core>>

Next == malloc \/ free \/ sbrk

Spec == Init /\ [][Next]_vars

-----------------------------------------------------------------------------
(* Properties.                                                             *)

Free == DOMAIN hdr \ (DOMAIN live \union {base})
Units(a) == a .. a + hdr[a].size - 1

\* The free list is circular through base and every free block, and climbs.
FreeListRight ==
    /\ freep # -1 => freep \in Free \union {base}
    /\ \A a \in Free \union {base} :
          LET above == {x \in Free : x > a}
          IN  IF above = {} THEN hdr[a].ptr = base
              ELSE hdr[a].ptr \in above /\ \A x \in above : hdr[a].ptr <= x

\* Blocks never overlap, and nothing got from sbrk() is lost.
Accounted ==
    /\ UNION {Units(a) : a \in DOMAIN hdr} = core
    /\ \A a, b \in DOMAIN hdr : a # b => Units(a) \intersect Units(b) = {}

\* free() leaves no two free blocks next to each other.
Coalesced == \A a, b \in Free : a + hdr[a].size # b

\* A block has room behind its header for what was asked.
BigEnough == \A a \in DOMAIN live : (hdr[a].size - 1) * UNIT >= live[a]

\* malloc() fails only when no free block would do.
RefusedForCause == refused > 0 => \A a \in Free : hdr[a].size < refused

=============================================================================
