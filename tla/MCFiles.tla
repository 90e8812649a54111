------------------------------ MODULE MCFiles -------------------------------
(* Model checking the disk driver with its device, and the file system above *)
(* the log: inodes and names, contents of files, and mkfs.                   *)
EXTENDS Virtio, Sequences

CONSTANTS p1, p2     \* two of Procs

\* Files in the root, files in a directory of it, and the way back.
OneLevel == {<<"a">>, <<"b">>}
TwoLevels == {<<"a">>, <<"a", "b">>}
UpAndDown == {<<"a">>, <<"b">>, <<"a", "b">>, <<"..">>}

VARIABLES
    part,       \* the component this behaviour is about; the others are not there
    i_disk, i_itable, i_cwd, i_file, i_loc, i_panicked,
    b_bitmap, b_data, b_addrs, b_size, b_lock, b_off, b_w, b_logged, b_bytes, b_panicked,
    m_pc, m_d, m_bitmap, m_freeinode, m_given, m_inum

inode_vars == <<i_disk, i_itable, i_cwd, i_file, i_loc, i_panicked>>
blocks_vars ==
    <<b_bitmap, b_data, b_addrs, b_size, b_lock, b_off, b_w, b_logged, b_bytes, b_panicked>>
mkfs_vars == <<m_pc, m_d, m_bitmap, m_freeinode, m_given, m_inum>>
mcvars == <<part, vars, inode_vars, blocks_vars, mkfs_vars>>

Concurrent == INSTANCE Inode WITH
    Procs <- {p1, p2}, Names <- {"a", "b"}, DotDot <- "..", NINODES <- 4, NINODE <- 5,
    Paths <- TwoLevels, Ops <- {"create", "mkdir", "unlink", "close"}, NULL <- NULL,
    disk <- i_disk, itable <- i_itable, cwd <- i_cwd, file <- i_file, loc <- i_loc,
    panicked <- i_panicked
Links == INSTANCE Inode WITH
    Procs <- {p1, p2}, Names <- {"a", "b"}, DotDot <- "..", NINODES <- 3, NINODE <- 5,
    Paths <- OneLevel, Ops <- {"open", "create", "link", "unlink", "close", "chdir"},
    NULL <- NULL, disk <- i_disk, itable <- i_itable, cwd <- i_cwd, file <- i_file,
    loc <- i_loc, panicked <- i_panicked
Tree == INSTANCE Inode WITH
    Procs <- {"p"}, Names <- {"a", "b"}, DotDot <- "..", NINODES <- 5, NINODE <- 5,
    Paths <- UpAndDown, Ops <- {"create", "mkdir", "unlink", "rmdir", "link", "open", "close"},
    NULL <- NULL, disk <- i_disk, itable <- i_itable, cwd <- i_cwd, file <- i_file,
    loc <- i_loc, panicked <- i_panicked

Apart == INSTANCE Blocks WITH
    Inodes <- 1 .. 2, Files <- 1 .. 2, inode <- [f \in 1 .. 2 |-> f], BSIZE <- 2, NDIRECT <- 1,
    NINDIRECT <- 1, BPB <- 16, MAXOPBLOCKS <- 6, Meta <- 1, SIZE <- 8, SWAPBASE <- 6,
    Values <- {1}, MaxN <- 3, NULL <- NULL, bitmap <- b_bitmap, data <- b_data,
    addrs <- b_addrs, size <- b_size, lock <- b_lock, off <- b_off, w <- b_w,
    logged <- b_logged, bytes <- b_bytes, panicked <- b_panicked
Shared == INSTANCE Blocks WITH
    Inodes <- {1}, Files <- 1 .. 2, inode <- [f \in 1 .. 2 |-> 1], BSIZE <- 2, NDIRECT <- 1,
    NINDIRECT <- 1, BPB <- 16, MAXOPBLOCKS <- 6, Meta <- 1, SIZE <- 5, SWAPBASE <- 5,
    Values <- {1, 2}, MaxN <- 2, NULL <- NULL, bitmap <- b_bitmap, data <- b_data,
    addrs <- b_addrs, size <- b_size, lock <- b_lock, off <- b_off, w <- b_w,
    logged <- b_logged, bytes <- b_bytes, panicked <- b_panicked
Large == INSTANCE Blocks WITH
    Inodes <- {1}, Files <- {1}, inode <- [f \in {1} |-> 1], BSIZE <- 2, NDIRECT <- 1,
    NINDIRECT <- 4, BPB <- 16, MAXOPBLOCKS <- 6, Meta <- 1, SIZE <- 10, SWAPBASE <- 8,
    Values <- {1}, MaxN <- 9, NULL <- NULL, bitmap <- b_bitmap, data <- b_data,
    addrs <- b_addrs, size <- b_size, lock <- b_lock, off <- b_off, w <- b_w,
    logged <- b_logged, bytes <- b_bytes, panicked <- b_panicked

Mkfs == INSTANCE Mkfs WITH
    BSIZE <- 2, NDIRECT <- 1, IPB <- 2, BPB <- 20, NINODES <- 6, FSSIZE <- 30, LOGSIZE <- 2,
    TOTAL <- 16, MAXFILES <- 3, MAXUNITS <- 7, pc <- m_pc, d <- m_d, bitmap <- m_bitmap,
    freeinode <- m_freeinode, given <- m_given, inum <- m_inum

ASSUME MCFilesAssumption ==
    /\ Concurrent!InodeAssumption /\ Links!InodeAssumption /\ Tree!InodeAssumption
    /\ Apart!BlocksAssumption /\ Shared!BlocksAssumption /\ Large!BlocksAssumption
    /\ Mkfs!MkfsAssumption

NoInode ==
    /\ i_disk = 0 /\ i_itable = 0 /\ i_cwd = 0 /\ i_file = 0 /\ i_loc = 0 /\ i_panicked = 0

NoBlocks ==
    /\ b_bitmap = 0 /\ b_data = 0 /\ b_addrs = 0 /\ b_size = 0 /\ b_lock = 0 /\ b_off = 0
    /\ b_w = 0 /\ b_logged = 0 /\ b_bytes = 0 /\ b_panicked = 0

NoMkfs ==
    /\ m_pc = 0 /\ m_d = 0 /\ m_bitmap = 0 /\ m_freeinode = 0 /\ m_given = 0 /\ m_inum = 0

MCInit ==
    /\ part \in {"virtio", "names", "link", "tree", "apart", "shared", "op", "mkfs"}
    /\ Init
    /\ IF part = "names" THEN Concurrent!Init ELSE IF part = "link" THEN Links!Init ELSE IF part = "tree" THEN Tree!Init ELSE NoInode
    /\ IF part = "apart" THEN Apart!Init ELSE IF part = "shared" THEN Shared!Init ELSE IF part = "op" THEN Large!Init ELSE NoBlocks
    /\ IF part = "mkfs" THEN Mkfs!Init ELSE NoMkfs

MCNext ==
    \/ part = "virtio" /\ Next /\ UNCHANGED <<part, inode_vars, blocks_vars, mkfs_vars>>
    \/ part = "names" /\ Concurrent!Next /\ UNCHANGED <<part, vars, blocks_vars, mkfs_vars>>
    \/ part = "link" /\ Links!Next /\ UNCHANGED <<part, vars, blocks_vars, mkfs_vars>>
    \/ part = "tree" /\ Tree!Next /\ UNCHANGED <<part, vars, blocks_vars, mkfs_vars>>
    \/ part = "apart" /\ Apart!Next /\ UNCHANGED <<part, vars, inode_vars, mkfs_vars>>
    \/ part = "shared" /\ Shared!Next /\ UNCHANGED <<part, vars, inode_vars, mkfs_vars>>
    \/ part = "op" /\ Large!Next /\ UNCHANGED <<part, vars, inode_vars, mkfs_vars>>
    \/ part = "mkfs" /\ Mkfs!Next /\ UNCHANGED <<part, vars, inode_vars, blocks_vars>>

MCSpec == MCInit /\ [][MCNext]_mcvars

-----------------------------------------------------------------------------
\* create(), link(), unlink(), iget(), idup(), iput(): when no call is in progress nlink of
\* every inode is the number of its directory entries, ref of every entry of itable is the
\* references held, and a name leads to an allocated inode; with one process at a time, an
\* inode without links and references is freed.
CountsExact ==
    /\ part = "names" => Concurrent!TypeOK /\ Concurrent!NoPanic /\ Concurrent!LinksExact /\ Concurrent!RefsExact /\ Concurrent!NamesAllocated
    /\ part = "link" => Links!NoPanic /\ Links!LinksExact /\ Links!RefsExact /\ Links!NamesAllocated
    /\ part = "tree" => Tree!NoPanic /\ Tree!LinksExact /\ Tree!RefsExact /\ Tree!NothingLeaks

\* readi(), writei(), itrunc(), mkfs: every byte of a file reads back as last written,
\* through the indirect block, and every file given to mkfs reads back from its image.
ReadsBack ==
    /\ part = "apart" => Apart!ReadsBack
    /\ part = "shared" => Shared!ReadsBack
    /\ part = "op" => Large!ReadsBack
    /\ part = "mkfs" => Mkfs!FilesStored

\* balloc(), bfree(), bmap(), mkfs: every block in use belongs to one place of one inode
\* and is marked in the bitmap, no inode points at a free block, and no file has a block of
\* the log, the inodes, the bitmap or the swap area.
BlocksOwned ==
    /\ part = "apart" => Apart!TypeOK /\ Apart!NoPanic /\ Apart!BlocksOwned /\ Apart!SwapUntouched
    /\ part = "shared" => Shared!BlocksOwned
    /\ part = "op" => Large!BlocksOwned
    /\ part = "mkfs" => Mkfs!BlocksOnce /\ Mkfs!LayoutApart

\* filewrite(): one transaction logs at most MAXOPBLOCKS blocks, whatever the offset and
\* the length.
OpFits == part = "op" => Large!OpFits

=============================================================================
