-------------------------------- MODULE Mkfs --------------------------------
(***************************************************************************)
(* mkfs/mkfs.c: the disk image from a list of files.  Contents are counted *)
(* in units: a directory entry, a block number and a piece of a file are   *)
(* one unit, a block is BSIZE of them.  xshort() and xint() write the byte *)
(* order the kernel reads, so numbers stand for themselves.                *)
(***************************************************************************)
EXTENDS Integers, Sequences, FiniteSets

CONSTANTS
    BSIZE, NDIRECT, IPB, BPB, NINODES, FSSIZE, LOGSIZE,
    TOTAL,          \* the 2000 in nblocks = 2000 - nmeta; SWAPBASE is the same number
    MAXFILES,       \* bound: files named on the command line, fewer than NINODES - 1
    MAXUNITS        \* bound: the length of a file

NINDIRECT == BSIZE
MAXFILE == NDIRECT + NINDIRECT
ROOTINO == 1

nbitmap == FSSIZE \div BPB + 1
ninodeblocks == NINODES \div IPB + 1
nmeta == 2 + LOGSIZE + ninodeblocks + nbitmap
nblocks == TOTAL - nmeta
inodestart == 2 + LOGSIZE
bmapstart == inodestart + ninodeblocks
IBLOCK(i) == i \div IPB + inodestart

MkfsAssumption ==
    /\ {BSIZE, NDIRECT, IPB, BPB, NINODES, FSSIZE, LOGSIZE, TOTAL, MAXFILES, MAXUNITS} \subseteq Nat
    /\ BSIZE > 0 /\ IPB > 0 /\ BPB > 0 /\ MAXFILES + 1 < NINODES

VARIABLES
    pc,         \* where main() is
    d,          \* the image: inodes, blocks, freeblock, no assertion has failed, use
    bitmap,     \* the blocks marked in use
    freeinode,
    given,      \* the files so far: what was read of each
    inum        \* the file being copied

vars == <<pc, d, bitmap, freeinode, given, inum>>

Inums == 1 .. NINODES - 1
Blocks == 0 .. FSSIZE - 1
Zero == [k \in 0 .. BSIZE - 1 |-> 0]
NoInode == [type |-> 0, nlink |-> 0, size |-> 0, addrs |-> [k \in 0 .. NDIRECT |-> 0]]

\* A directory entry as a unit.  Names: 1 is ".", 2 is "..", n + 2 the n-th file's.
Dirent(i, name) == 100 * i + name
\* The k-th unit of the n-th file.
Unit(n, k) == 10000 + 100 * n + k

\* use: what wsect() has been called for, per block (ghost).
Used(s, b, what) == [s EXCEPT !.use[b] = @ \union {what}]

\* main() up to the root directory: the disk is zeroes and the super block.
Init ==
    /\ pc = "root" /\ bitmap = {} /\ freeinode = 1 /\ given = <<>> /\ inum = 0
    /\ d = [din |-> [i \in Inums |-> NoInode], data |-> [b \in Blocks |-> Zero], freeblock |-> nmeta,
            ok |-> TRUE, use |-> [b \in Blocks |-> IF b = 1 THEN {"sb"} ELSE {}]]

winode(s, i, ip) == Used([s EXCEPT !.din[i] = ip], IBLOCK(i), "inode")

\* ialloc(), as a function of the image.
Alloc(s, i, type) == winode(s, i, [NoInode EXCEPT !.type = type, !.nlink = 1])

-----------------------------------------------------------------------------
\* Slot k of the inode, with a new block when it has none.
Direct(s, ip, k) ==
    IF ip.addrs[k] = 0
    THEN [s |-> [s EXCEPT !.freeblock = @ + 1], ip |-> [ip EXCEPT !.addrs[k] = s.freeblock]]
    ELSE [s |-> s, ip |-> ip]

\* Slot k of the indirect block b.
Indirect(s, b, k) ==
    IF s.data[b][k] = 0
    THEN Used([s EXCEPT !.freeblock = @ + 1, !.data[b][k] = s.freeblock], b, "indirect")
    ELSE s

\* bcopy() of n units to offset at.
Copied(blk, at, p, n) == [k \in 0 .. BSIZE - 1 |-> IF k >= at /\ k < at + n THEN p[k - at + 1] ELSE blk[k]]

\* The loop of iappend().  ok is FALSE when assert(fbn < MAXFILE) fails.
RECURSIVE Loop(_, _, _, _)
Loop(s, ip, off, p) ==
    IF p = <<>> THEN [s |-> s, ip |-> ip, off |-> off]
    ELSE LET fbn == off \div BSIZE
             r == Direct(s, ip, IF fbn < NDIRECT THEN fbn ELSE NDIRECT)
             b == r.ip.addrs[NDIRECT]
             s1 == IF fbn < NDIRECT THEN r.s ELSE Indirect(r.s, b, fbn - NDIRECT)
             x == IF fbn < NDIRECT THEN r.ip.addrs[fbn] ELSE s1.data[b][fbn - NDIRECT]
             room == (fbn + 1) * BSIZE - off
             n1 == IF Len(p) < room THEN Len(p) ELSE room
         IN  IF fbn >= MAXFILE THEN [s |-> [s EXCEPT !.ok = FALSE], ip |-> ip, off |-> off]
             ELSE Loop(Used([s1 EXCEPT !.data[x] = Copied(@, off - fbn * BSIZE, p, n1)], x, "data"),
                       r.ip, off + n1, SubSeq(p, n1 + 1, Len(p)))

iappend(s, i, p) ==
    LET r == Loop(s, s.din[i], s.din[i].size, p)
    IN  IF r.s.ok THEN winode(r.s, i, [r.ip EXCEPT !.size = r.off]) ELSE r.s

-----------------------------------------------------------------------------
\* The root directory, with "." and "..".
mkroot ==
    /\ pc = "root" /\ pc' = "files" /\ freeinode' = freeinode + 1
    /\ d' = iappend(iappend(Alloc(d, freeinode, "dir"), ROOTINO, <<Dirent(ROOTINO, 1)>>), ROOTINO, <<Dirent(ROOTINO, 2)>>)
    /\ UNCHANGED <<bitmap, given, inum>>

Ended(s, next) == IF s.ok THEN next ELSE "died"

\* The next file: its inode and its entry.
newfile ==
    LET s == iappend(Alloc(d, freeinode, "file"), ROOTINO, <<Dirent(freeinode, Len(given) + 3)>>)
    IN  /\ pc = "files" /\ Len(given) < MAXFILES
        /\ d' = s /\ pc' = Ended(s, "copy") /\ inum' = freeinode /\ freeinode' = freeinode + 1
        /\ given' = Append(given, 0)
        /\ UNCHANGED bitmap

\* One turn of the copy loop: read() gives up to BSIZE units.
copy ==
    LET n == Len(given)
        have == given[n]
    IN  /\ pc = "copy"
        /\ \E cc \in 0 .. BSIZE :
              /\ have + cc <= MAXUNITS
              /\ IF cc = 0 THEN pc' = "files" /\ UNCHANGED <<d, given>>
                 ELSE LET s == iappend(d, inum, [k \in 1 .. cc |-> Unit(n, have + k)])
                      IN  d' = s /\ pc' = Ended(s, "copy") /\ given' = [given EXCEPT ![n] = have + cc]
        /\ UNCHANGED <<bitmap, freeinode, inum>>

\* open() fails and die() ends mkfs.
dies == pc = "files" /\ Len(given) < MAXFILES /\ pc' = "died" /\ UNCHANGED <<d, bitmap, freeinode, given, inum>>

\* balloc(used): the bits it sets.
Marked(used) == 0 .. used - 1

\* The root's size rounded up to blocks, and balloc(), which asserts used < BPB.
finish ==
    LET off == d.din[ROOTINO].size
        s == winode(d, ROOTINO, [d.din[ROOTINO] EXCEPT !.size = (off \div BSIZE + 1) * BSIZE])
        fits == s.freeblock < BPB
    IN  /\ pc = "files"
        /\ d' = IF fits THEN Used(s, bmapstart, "bitmap") ELSE s
        /\ bitmap' = IF fits THEN Marked(s.freeblock) ELSE {}
        /\ pc' = IF fits THEN "done" ELSE "died"
        /\ UNCHANGED <<freeinode, given, inum>>

Ends == pc \in {"done", "died"} /\ UNCHANGED vars

Next == mkroot \/ newfile \/ copy \/ dies \/ finish \/ Ends

Spec == Init /\ [][Next]_vars

-----------------------------------------------------------------------------
(* Properties: what the kernel finds on the image.                         *)

\* Block fbn of an inode as bmap() of kernel/fs.c finds it; 0 when there is none.
BlockOf(i, fbn) ==
    IF fbn < NDIRECT THEN d.din[i].addrs[fbn]
    ELSE IF d.din[i].addrs[NDIRECT] = 0 THEN 0 ELSE d.data[d.din[i].addrs[NDIRECT]][fbn - NDIRECT]

\* What readi() gives; a block that is not there is allocated then, and zero.
Content(i) ==
    [k \in 1 .. d.din[i].size |->
        LET b == BlockOf(i, (k - 1) \div BSIZE) IN IF b = 0 THEN 0 ELSE d.data[b][(k - 1) % BSIZE]]

\* Every file has the contents that were read for it, and the root directory names
\* itself twice and each file by its inode, with nothing but empty entries behind.
FilesStored ==
    pc = "done" =>
        /\ \A n \in 1 .. Len(given) : Content(n + 1) = [k \in 1 .. given[n] |-> Unit(n, k)]
        /\ LET c == Content(ROOTINO)
           IN  \A k \in 1 .. Len(c) :
                  c[k] = IF k <= 2 THEN Dirent(ROOTINO, k) ELSE IF k <= Len(given) + 2 THEN Dirent(k - 1, k) ELSE 0

\* The places that name blocks: inode, slot, or slot of the indirect block.
Slots == {<<i, 0, k>> : i \in Inums, k \in 0 .. NDIRECT}
            \union {<<i, 1, k>> : i \in {j \in Inums : d.din[j].addrs[NDIRECT] # 0}, k \in 0 .. NINDIRECT - 1}
At(t) == IF t[2] = 0 THEN d.din[t[1]].addrs[t[3]] ELSE d.data[d.din[t[1]].addrs[NDIRECT]][t[3]]

\* Every block iappend() took is named in one place, those are all there are, and they
\* and the metadata are what the bitmap marks: balloc() of the kernel takes none twice.
BlocksOnce ==
    pc = "done" =>
        /\ \A s, t \in Slots : s # t /\ At(s) # 0 => At(s) # At(t)
        /\ {At(t) : t \in Slots} \ {0} = nmeta .. d.freeblock - 1
        /\ bitmap = (0 .. nmeta - 1) \union ({At(t) : t \in Slots} \ {0})

\* The parts of the disk are apart: no block is written as two of super block, inodes,
\* bitmap, indirect block and data.
LayoutApart == \A b \in Blocks : Cardinality(d.use[b]) <= 1

\* The data blocks on the image are no more than the number the super block has for them
\* (fs.h: "Number of data blocks"), behind which the swap area begins.
DataCounted == pc = "done" => d.freeblock - nmeta <= nblocks

=============================================================================
