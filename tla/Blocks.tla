------------------------------- MODULE Blocks -------------------------------
(***************************************************************************)
(* Disk blocks and file contents: balloc(), bfree(), bzero(), bmap(),      *)
(* itrunc(), readi() and writei() of kernel/fs.c under fileread() and      *)
(* filewrite() of kernel/file.c.                                           *)
(*                                                                         *)
(* Several open files may share an inode; a turn of writei()'s loop is a   *)
(* step, under the inode's lock, and other inodes' writers allocate        *)
(* between two turns.                                                      *)
(***************************************************************************)
EXTENDS Integers, Sequences, FiniteSets

CONSTANTS
    Inodes, Files, inode,       \* inode[f]: the inode file f is open on
    BSIZE, NDIRECT, NINDIRECT, BPB, MAXOPBLOCKS,
    Meta,                       \* blocks 0 .. Meta - 1: boot block to bitmap
    SIZE, SWAPBASE,             \* sb.size, and where the swap area starts
    Values, MaxN,               \* what programs write, and how much in one call
    NULL

MAXFILE == NDIRECT + NINDIRECT
\* (mutant) as much as the log takes
Mut_max == MAXOPBLOCKS * BSIZE
\* filewrite(): what one transaction may write.
max == ((MAXOPBLOCKS - 1 - 1 - 2) \div 2) * BSIZE

BlocksAssumption ==
    /\ {BSIZE, NDIRECT, NINDIRECT, BPB, MAXOPBLOCKS, Meta, SIZE, SWAPBASE, MaxN} \subseteq Nat
    /\ inode \in [Files -> Inodes] /\ Values \subseteq Nat /\ max > 0 /\ Meta < SIZE

VARIABLES
    bitmap,     \* the blocks marked in use
    data,       \* content of each block: a function of 0 .. n - 1
    addrs,      \* ip->addrs, 0 .. NDIRECT
    size,       \* ip->size
    lock,       \* the file whose call holds the inode, or NULL
    off,        \* f->off
    w,          \* the filewrite() of each file: what is left of it
    logged,     \* the blocks the transaction of each file has logged
    bytes,      \* history: the byte last stored at each position of an inode
    panicked

vars == <<bitmap, data, addrs, size, lock, off, w, logged, bytes, panicked>>

Blocks == 0 .. SIZE - 1
Idle == [pc |-> "idle", n |-> 0, n1 |-> 0, tot |-> 0, v |-> 0]

\* A block is BSIZE bytes of data or NINDIRECT block numbers.
Width == IF BSIZE > NINDIRECT THEN BSIZE ELSE NINDIRECT
Zero == [k \in 0 .. Width - 1 |-> 0]

Init ==
    /\ bitmap = 0 .. Meta - 1 /\ data = [b \in Blocks |-> Zero]
    /\ addrs = [i \in Inodes |-> [k \in 0 .. NDIRECT |-> 0]]
    /\ size = [i \in Inodes |-> 0] /\ lock = [i \in Inodes |-> NULL]
    /\ off = [f \in Files |-> 0] /\ w = [f \in Files |-> Idle]
    /\ logged = [f \in Files |-> {}]
    /\ bytes = [i \in Inodes |-> [k \in 0 .. MAXFILE * BSIZE - 1 |-> 0]]
    /\ panicked = FALSE

MinOf(a, b) == IF a < b THEN a ELSE b

-----------------------------------------------------------------------------
(* balloc() and bmap().  m is the part of the state they change.           *)

\* The first block balloc() must not use.
limit == MinOf(SWAPBASE, SIZE)

FreeBlocks(m) == {b \in 0 .. limit - 1 : b \notin m.bitmap}

bzero(m, b) == [m.data EXCEPT ![b] = Zero]

\* balloc(): the first free block, marked and zeroed; addr is 0 when there is none.
balloc(m) ==
    IF FreeBlocks(m) = {} THEN [m EXCEPT !.addr = 0]
    ELSE LET b == CHOOSE x \in FreeBlocks(m) : \A y \in FreeBlocks(m) : x <= y
         IN  [m EXCEPT !.addr = b, !.bitmap = @ \union {b}, !.data = bzero(m, b),
                       !.logged = @ \union {<<"bitmap", b \div BPB>>, <<"block", b>>}]

\* An entry of ip->addrs, allocated if necessary.
direct(m, k) ==
    IF m.addrs[k] # 0 THEN [m EXCEPT !.addr = m.addrs[k]]
    ELSE LET a == balloc(m) IN [a EXCEPT !.addrs[k] = a.addr]

\* An entry of the indirect block at address x.
indirect(m, x, k) ==
    IF m.data[x][k] # 0 THEN [m EXCEPT !.addr = m.data[x][k]]
    ELSE LET a == balloc(m)
         IN  IF a.addr = 0 THEN a
             ELSE [a EXCEPT !.data[x][k] = a.addr, !.logged = @ \union {<<"block", x>>}]

bmap(m, bn) ==
    IF bn < NDIRECT THEN direct(m, bn)
    ELSE LET t == direct(m, NDIRECT)
         IN  IF t.addr = 0 THEN t ELSE indirect(t, t.addr, bn - NDIRECT)

Part(f) == [bitmap |-> bitmap, data |-> data, addrs |-> addrs[inode[f]], logged |-> logged[f], addr |-> 0]

-----------------------------------------------------------------------------
(* filewrite() and writei()                                                *)

filewrite(f) ==
    /\ w[f].pc = "idle" /\ ~panicked
    /\ \E n \in 1 .. MaxN, v \in Values : w' = [w EXCEPT ![f] = [Idle EXCEPT !.pc = "chunk", !.n = n, !.v = v]]
    /\ UNCHANGED <<bitmap, data, addrs, size, lock, off, logged, bytes, panicked>>

\* begin_op(); ilock(); the checks of writei(), of which a failure ends the call.
chunk(f) ==
    LET i == inode[f]
        n1 == MinOf(w[f].n, max)
    IN  /\ w[f].pc = "chunk" /\ lock[i] = NULL
        /\ IF off[f] > size[i] \/ off[f] + n1 > MAXFILE * BSIZE
           THEN w' = [w EXCEPT ![f] = Idle] /\ UNCHANGED lock
           ELSE /\ w' = [w EXCEPT ![f] = [@ EXCEPT !.pc = "block", !.n1 = n1, !.tot = 0]]
                /\ lock' = [lock EXCEPT ![i] = f]
        /\ UNCHANGED <<bitmap, data, addrs, size, off, logged, bytes, panicked>>

\* Bytes o .. o + k - 1 of function g get value v.
Stored(g, o, k, v) == [x \in DOMAIN g |-> IF o <= x /\ x < o + k THEN v ELSE g[x]]

\* (mutant) the copy does not stop at the end of the block
Mut_Fits(f, o) == w[f].n1 - w[f].tot

\* m = min(n - tot, BSIZE - off % BSIZE)
Fits(f, o) == MinOf(w[f].n1 - w[f].tot, BSIZE - (o % BSIZE))

\* A turn of the loop of writei(): bmap(), copy, log_write(); no block, or a source
\* address that fails after k bytes, ends the loop.
block(f) ==
    LET i == inode[f]
        o == off[f] + w[f].tot
        t == bmap(Part(f), o \div BSIZE)
        m == Fits(f, o)
    IN  /\ w[f].pc = "block" /\ w[f].tot < w[f].n1
        /\ bitmap' = t.bitmap /\ addrs' = [addrs EXCEPT ![i] = t.addrs]
        /\ \/ /\ t.addr = 0
              /\ w' = [w EXCEPT ![f].pc = "iupdate"]
              /\ data' = t.data /\ logged' = [logged EXCEPT ![f] = t.logged] /\ UNCHANGED bytes
           \/ /\ t.addr # 0
              /\ data' = [t.data EXCEPT ![t.addr] = Stored(@, o % BSIZE, m, w[f].v)]
              /\ bytes' = [bytes EXCEPT ![i] = Stored(@, o, m, w[f].v)]
              /\ logged' = [logged EXCEPT ![f] = t.logged \union {<<"block", t.addr>>}]
              /\ w' = [w EXCEPT ![f].tot = @ + m]
           \/ /\ t.addr # 0
              /\ \E k \in 0 .. m - 1 :
                    /\ data' = [t.data EXCEPT ![t.addr] = Stored(@, o % BSIZE, k, w[f].v)]
                    /\ bytes' = [bytes EXCEPT ![i] = Stored(@, o, k, w[f].v)]
              /\ logged' = [logged EXCEPT ![f] = t.logged]
              /\ w' = [w EXCEPT ![f].pc = "iupdate"]
        /\ UNCHANGED <<size, lock, off, panicked>>

\* The end of writei(), and of the turn of filewrite(): another one, or the end.
iupdate(f) ==
    LET i == inode[f]
        o == off[f] + w[f].tot
        left == w[f].n - w[f].tot
    IN  /\ w[f].pc = "iupdate" \/ (w[f].pc = "block" /\ w[f].tot = w[f].n1)
        /\ size' = [size EXCEPT ![i] = IF o > @ THEN o ELSE @]
        /\ off' = [off EXCEPT ![f] = o]
        /\ lock' = [lock EXCEPT ![i] = NULL]
        /\ logged' = [logged EXCEPT ![f] = {}]
        /\ w' = [w EXCEPT ![f] = IF @.tot # @.n1 \/ left = 0 THEN Idle
                                 ELSE [Idle EXCEPT !.pc = "chunk", !.n = left, !.v = w[f].v]]
        /\ UNCHANGED <<bitmap, data, addrs, bytes, panicked>>

-----------------------------------------------------------------------------
(* readi(), fileread(), itrunc()                                           *)

\* How many bytes readi() reads at o.
Readable(i, o, n) == IF o > size[i] THEN 0 ELSE MinOf(n, size[i] - o)

\* The block bmap() finds for a byte that has been written, and the byte.
Where(i, o) ==
    LET bn == o \div BSIZE
    IN  IF bn < NDIRECT THEN addrs[i][bn] ELSE data[addrs[i][NDIRECT]][bn - NDIRECT]
readi(i, o, n) == [k \in 0 .. Readable(i, o, n) - 1 |-> data[Where(i, o + k)][(o + k) % BSIZE]]

\* f->off += r
Advanced(f, n) == off[f] + Readable(inode[f], off[f], n)

fileread(f) ==
    /\ w[f].pc = "idle" /\ lock[inode[f]] = NULL /\ ~panicked
    /\ \E n \in 1 .. MaxN : off' = [off EXCEPT ![f] = Advanced(f, n)]
    /\ UNCHANGED <<bitmap, data, addrs, size, lock, w, logged, bytes, panicked>>

\* (mutant) the indirect block itself is kept
Mut_Freed(i) ==
    ({addrs[i][k] : k \in 0 .. NDIRECT - 1}
     \union (IF addrs[i][NDIRECT] = 0 THEN {}
             ELSE {data[addrs[i][NDIRECT]][k] : k \in 0 .. NINDIRECT - 1})) \ {0}

\* The blocks itrunc() gives to bfree().
Freed(i) ==
    ({addrs[i][k] : k \in 0 .. NDIRECT}
     \union (IF addrs[i][NDIRECT] = 0 THEN {}
             ELSE {data[addrs[i][NDIRECT]][k] : k \in 0 .. NINDIRECT - 1})) \ {0}

\* ip->addrs after itrunc().
Emptied(i) == [k \in 0 .. NDIRECT |-> 0]

\* itrunc(), of open() with O_TRUNC or of the last iput(); bfree() insists that the
\* block is in use.
itrunc(i) ==
    /\ lock[i] = NULL /\ ~panicked
    /\ IF Freed(i) \subseteq bitmap
       THEN /\ bitmap' = bitmap \ Freed(i)
            /\ addrs' = [addrs EXCEPT ![i] = Emptied(i)]
            /\ size' = [size EXCEPT ![i] = 0]
            /\ bytes' = [bytes EXCEPT ![i] = [k \in DOMAIN @ |-> 0]]
            /\ UNCHANGED panicked
       ELSE panicked' = TRUE /\ UNCHANGED <<bitmap, addrs, size, bytes>>
    /\ UNCHANGED <<data, lock, off, w, logged>>

-----------------------------------------------------------------------------
Halted == panicked /\ UNCHANGED vars

Next ==
    \/ \E f \in Files : filewrite(f) \/ chunk(f) \/ block(f) \/ iupdate(f) \/ fileread(f)
    \/ \E i \in Inodes : itrunc(i)
    \/ Halted

Spec == Init /\ [][Next]_vars

-----------------------------------------------------------------------------
(* Properties.                                                             *)

TypeOK ==
    /\ bitmap \subseteq Blocks /\ \A i \in Inodes : addrs[i] \in [0 .. NDIRECT -> Blocks]
    /\ size \in [Inodes -> 0 .. MAXFILE * BSIZE] /\ off \in [Files -> 0 .. MAXFILE * BSIZE]
    /\ lock \in [Inodes -> Files \union {NULL}]

\* What readi() returns is what was written: for every position and length, the bytes
\* last stored there, whoever wrote them and whatever other files have allocated, freed
\* or failed to allocate since.
ReadsBack ==
    \A i \in Inodes : \A o \in 0 .. MAXFILE * BSIZE, n \in 1 .. MaxN :
       readi(i, o, n) = [k \in 0 .. MinOf(n, IF o > size[i] THEN 0 ELSE size[i] - o) - 1 |-> bytes[i][o + k]]

\* Every block in use belongs to one place of one inode, and every block an inode names
\* is in use: nothing leaks when an allocation fails half way, nothing is used twice.
BlocksOwned ==
    /\ bitmap = (0 .. Meta - 1) \union UNION {Freed(i) : i \in Inodes}
    /\ \A i, j \in Inodes : i # j => Freed(i) \intersect Freed(j) = {}
    /\ \A i \in Inodes :
          Cardinality(Freed(i)) =
             Cardinality({k \in 0 .. NDIRECT : addrs[i][k] # 0})
             + (IF addrs[i][NDIRECT] = 0 THEN 0
                ELSE Cardinality({k \in 0 .. NINDIRECT - 1 : data[addrs[i][NDIRECT]][k] # 0}))

\* No file ever owns a block of the swap area, and bfree() never finds a free block.
SwapUntouched == \A b \in bitmap : b < SWAPBASE

NoPanic == ~panicked

\* filewrite() cuts a call so that each transaction, with the inode, the indirect block
\* and the bitmap, stays within the MAXOPBLOCKS that begin_op() reserves.
OpFits == \A f \in Files : Cardinality(logged[f] \union {<<"inode", 0>>}) <= MAXOPBLOCKS

=============================================================================
