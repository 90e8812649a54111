------------------------------- MODULE Inode --------------------------------
(***************************************************************************)
(* The inode layer of kernel/fs.c (iget, idup, ilock, iput, ialloc,        *)
(* iupdate, dirlookup, dirlink, namex) and the system calls of             *)
(* kernel/sysfile.c that work on names: open, link, unlink, create, mkdir, *)
(* chdir, close.                                                           *)
(*                                                                         *)
(* A step is a hold of one inode's sleep lock or of itable.lock.  Names    *)
(* are model values, a path a sequence of them; the content of a file is   *)
(* module Blocks.  Every call runs inside a transaction of module Log.     *)
(***************************************************************************)
EXTENDS Integers, Sequences, FiniteSets

CONSTANTS
    Procs,
    Names,          \* names of entries, other than "." and ".."
    DotDot,         \* ".."
    NINODES,        \* sb.ninodes: inodes 1 .. NINODES - 1, of which 1 is the root
    NINODE,         \* entries of itable
    Paths,          \* the paths programs use, relative to the root or to cwd
    Ops,            \* the calls they make
    NULL

InodeAssumption ==
    /\ NINODES \in Nat /\ NINODE \in Nat /\ DotDot \notin Names
    /\ \A q \in Paths : q \in Seq(Names \union {DotDot}) /\ q # <<>>
    /\ Ops \subseteq {"open", "create", "mkdir", "unlink", "rmdir", "link", "chdir", "close"}

Inums   == 1 .. NINODES - 1
Entries == 1 .. NINODE
root    == 1

VARIABLES
    disk,       \* each inum: type, nlink, dents (0: no entry) and the inum of ".."
    itable,     \* each entry: inum, ref, valid, lock, and the copy of type and nlink
    cwd, file,  \* of each process: its directory, and an open file or NULL
    loc,        \* of each process: where it is in its call
    panicked

vars == <<disk, itable, cwd, file, loc, panicked>>

\* ip and dp are the inodes a call holds a reference to, put the one iput() works on.
Idle == [op |-> "none", pc |-> "idle", path |-> <<>>, new |-> <<>>, ip |-> NULL, dp |-> NULL,
         old |-> NULL, put |-> NULL, ret |-> "idle"]

NoEntries == [n \in Names |-> 0]
Free == [type |-> "none", nlink |-> 0, dents |-> NoEntries, up |-> 0]

Init ==
    /\ disk = [i \in Inums |-> IF i = root
                  THEN [type |-> "dir", nlink |-> 1, dents |-> NoEntries, up |-> root] ELSE Free]
    /\ itable = [e \in Entries |-> [inum |-> IF e = 1 THEN root ELSE 0,
                                    ref |-> IF e = 1 THEN Cardinality(Procs) ELSE 0,
                                    valid |-> FALSE, lock |-> NULL, type |-> "none", nlink |-> 0]]
    /\ cwd = [p \in Procs |-> 1] /\ file = [p \in Procs |-> NULL]
    /\ loc = [p \in Procs |-> Idle] /\ panicked = "no"

-----------------------------------------------------------------------------
(* The inode table.                                                        *)

Min(S) == CHOOSE x \in S : \A y \in S : x <= y

Cached(i) == {e \in Entries : itable[e].ref > 0 /\ itable[e].inum = i}
Empty == {e \in Entries : itable[e].ref = 0}

\* The entry iget() returns, and the table after it; none is left: a panic.
Gettable(i) == Cached(i) # {} \/ Empty # {}
Panics(i) == panicked' = IF Gettable(i) THEN panicked ELSE "iget: no inodes"
Entry(i) == IF Cached(i) # {} THEN Min(Cached(i)) ELSE IF Empty # {} THEN Min(Empty) ELSE 1
iget(i) ==
    IF Cached(i) # {} THEN [itable EXCEPT ![Entry(i)].ref = @ + 1]
    ELSE [itable EXCEPT ![Entry(i)] = [@ EXCEPT !.inum = i, !.ref = 1, !.valid = FALSE]]

\* ilock(ip) as far as the copy: what the entry says once it is locked and read.
Locked(e, p) ==
    LET d == disk[itable[e].inum]
    IN  IF itable[e].valid THEN [itable[e] EXCEPT !.lock = p]
        ELSE [itable[e] EXCEPT !.lock = p, !.valid = TRUE, !.type = d.type, !.nlink = d.nlink]

\* ilock() gets the lock / panics because the inode is not allocated.
CanLock(e) == itable[e].lock = NULL
NoType(e) == ~itable[e].valid /\ disk[itable[e].inum].type = "none"

Go(p, l) == loc' = [loc EXCEPT ![p] = l]
At(p, l) == loc[p].pc = l /\ panicked = "no"

panic(why) == panicked' = why /\ UNCHANGED <<disk, itable, cwd, file, loc>>

\* The rest of call l of p once it has put entry e: first iput(), then ret.
Put(l, e, ret) == [l EXCEPT !.pc = "iput", !.put = e, !.ret = ret]

\* ip->ref--.  Nothing reads an entry with ref 0 before iget() has set it anew.
Unused == [inum |-> 0, ref |-> 0, valid |-> FALSE, lock |-> NULL, type |-> "none", nlink |-> 0]
Deref(e) == [itable EXCEPT ![e] = IF @.ref = 1 THEN Unused ELSE [@ EXCEPT !.ref = @ - 1]]

\* iput(): the last reference to an inode without links.
Last(e) == itable[e].ref = 1 /\ itable[e].valid /\ itable[e].nlink = 0

\* What is left of call l when it goes on at pc; a finished call forgets its locals.
Resume(l, pc) == IF pc = "idle" THEN Idle ELSE [l EXCEPT !.pc = pc, !.put = NULL, !.ret = "idle"]

\* iput() under itable.lock.
iput(p) ==
    /\ At(p, "iput")
    /\ LET e == loc[p].put
       IN  IF Last(e)
           THEN /\ CanLock(e)
                /\ itable' = [itable EXCEPT ![e].lock = p]
                /\ Go(p, [loc[p] EXCEPT !.pc = "itrunc"])
           ELSE /\ itable' = Deref(e)
                /\ Go(p, Resume(loc[p], loc[p].ret))
    /\ UNCHANGED <<disk, cwd, file, panicked>>

\* itrunc(); ip->type = 0; iupdate(); ip->valid = 0; releasesleep().
itrunc(p) ==
    /\ At(p, "itrunc")
    /\ disk' = [disk EXCEPT ![itable[loc[p].put].inum] = Free]
    /\ itable' = [itable EXCEPT ![loc[p].put] = [@ EXCEPT !.type = "none", !.valid = FALSE, !.lock = NULL]]
    /\ Go(p, [loc[p] EXCEPT !.pc = "iput_ref"])
    /\ UNCHANGED <<cwd, file, panicked>>

iput_ref(p) ==
    /\ At(p, "iput_ref")
    /\ itable' = Deref(loc[p].put)
    /\ Go(p, Resume(loc[p], loc[p].ret))
    /\ UNCHANGED <<disk, cwd, file, panicked>>

-----------------------------------------------------------------------------
(* namex()                                                                 *)

\* Calls that look for the parent directory of their path.
Parent(op) == op \in {"create", "mkdir", "unlink", "rmdir", "link2"}

\* A system call starts at the root, or at cwd.
begin(p) ==
    /\ At(p, "idle")
    /\ \E op \in Ops \ {"close"}, q \in Paths, new \in Paths :
          /\ op = "link" \/ new = q
          /\ op \in {"open", "create"} => file[p] = NULL
          /\ LET l == [Idle EXCEPT !.op = op, !.pc = "namex", !.path = q, !.new = new]
             IN  \/ /\ itable' = [itable EXCEPT ![cwd[p]].ref = @ + 1]
                    /\ Go(p, [l EXCEPT !.ip = cwd[p]]) /\ UNCHANGED panicked
                 \/ /\ itable' = iget(root)
                    /\ Go(p, [l EXCEPT !.ip = Entry(root)]) /\ Panics(root)
    /\ UNCHANGED <<disk, cwd, file>>

\* dirlookup(): the inum of name n in directory i, 0 if there is none.
dirlookup(i, n) == IF n = DotDot THEN disk[i].up ELSE disk[i].dents[n]

\* Where a call goes on when namex() has returned 0.
NotFound(l) == IF l.op = "link2" THEN "bad" ELSE "idle"

\* One turn of the loop: ilock(ip), look the element up, iunlock(ip), iput(ip).
namex(p) ==
    LET l == loc[p]
        e == l.ip
        i == itable[e].inum
        n == dirlookup(i, Head(l.path))
        table == [itable EXCEPT ![e] = [Locked(e, p) EXCEPT !.lock = NULL]]
    IN  /\ At(p, "namex") /\ CanLock(e) /\ l.path # <<>>
        /\ IF NoType(e) THEN panic("ilock: no type")
           ELSE /\ CASE Locked(e, p).type # "dir" ->
                          /\ itable' = table
                          /\ Go(p, [Put(l, e, NotFound(l)) EXCEPT !.ip = NULL]) /\ UNCHANGED panicked
                     [] Locked(e, p).type = "dir" /\ Parent(l.op) /\ Len(l.path) = 1 ->
                          /\ itable' = table
                          /\ Go(p, [l EXCEPT !.pc = "parent", !.dp = e, !.ip = NULL])
                          /\ UNCHANGED panicked
                     [] Locked(e, p).type = "dir" /\ ~(Parent(l.op) /\ Len(l.path) = 1) /\ n = 0 ->
                          /\ itable' = table
                          /\ Go(p, [Put(l, e, NotFound(l)) EXCEPT !.ip = NULL]) /\ UNCHANGED panicked
                     [] OTHER ->
                          /\ Panics(n)
                          /\ itable' = [iget(n) EXCEPT ![e] =
                                [Locked(e, p) EXCEPT !.lock = NULL, !.ref = iget(n)[e].ref]]
                          /\ Go(p, [Put(l, e, "namex") EXCEPT !.ip = Entry(n), !.path = Tail(@)])
                /\ UNCHANGED <<disk, cwd, file>>

\* namex() returns the inode of the whole path.
namei(p) ==
    /\ At(p, "namex") /\ loc[p].path = <<>>
    /\ Go(p, [loc[p] EXCEPT !.pc = "found"])
    /\ UNCHANGED <<disk, itable, cwd, file, panicked>>

-----------------------------------------------------------------------------
(* open, chdir, close                                                      *)

\* sys_open() without O_CREATE: ilock(), a file and a descriptor, iunlock(); or one of
\* the two is missing.
sys_open(p) ==
    LET l == loc[p] IN
    /\ At(p, "found") /\ l.op = "open" /\ CanLock(l.ip)
    /\ IF NoType(l.ip) THEN panic("ilock: no type")
       ELSE /\ itable' = [itable EXCEPT ![l.ip] = [Locked(l.ip, p) EXCEPT !.lock = NULL]]
            /\ \/ file' = [file EXCEPT ![p] = l.ip] /\ Go(p, Idle)
               \/ Go(p, [Put(l, l.ip, "idle") EXCEPT !.ip = NULL]) /\ UNCHANGED file
            /\ UNCHANGED <<disk, cwd, panicked>>

sys_chdir(p) ==
    LET l == loc[p] IN
    /\ At(p, "found") /\ l.op = "chdir" /\ CanLock(l.ip)
    /\ IF NoType(l.ip) THEN panic("ilock: no type")
       ELSE /\ itable' = [itable EXCEPT ![l.ip] = [Locked(l.ip, p) EXCEPT !.lock = NULL]]
            /\ IF Locked(l.ip, p).type # "dir"
               THEN Go(p, [Put(l, l.ip, "idle") EXCEPT !.ip = NULL]) /\ UNCHANGED cwd
               ELSE /\ Go(p, [Put(l, cwd[p], "idle") EXCEPT !.ip = NULL])
                    /\ cwd' = [cwd EXCEPT ![p] = l.ip]
            /\ UNCHANGED <<disk, file, panicked>>

\* fileclose() of the last descriptor.
sys_close(p) ==
    /\ At(p, "idle") /\ "close" \in Ops /\ file[p] # NULL
    /\ file' = [file EXCEPT ![p] = NULL]
    /\ Go(p, Put([Idle EXCEPT !.op = "close"], file[p], "idle"))
    /\ UNCHANGED <<disk, itable, cwd, panicked>>

-----------------------------------------------------------------------------
(* create(): sys_open() with O_CREATE, sys_mkdir()                         *)

Creating(p) == loc[p].op \in {"create", "mkdir"}

\* ip->nlink--
Lower(e) == itable[e].nlink - 1

\* iupdate(): the copy goes to the disk.
Nlink(e, k) == [itable EXCEPT ![e].nlink = k]
OnDisk(e, k) == [disk EXCEPT ![itable[e].inum].nlink = k]

\* ilock(dp); dirlookup(): the name is taken.
create_old(p) ==
    LET l == loc[p]
        n == dirlookup(itable[l.dp].inum, Head(l.path))
    IN  /\ At(p, "parent") /\ Creating(p) /\ CanLock(l.dp) /\ ~NoType(l.dp)
        /\ n # 0 /\ Panics(n)
        /\ itable' = iget(n)
        /\ Go(p, [Put(l, l.dp, "create_old") EXCEPT !.dp = NULL, !.ip = Entry(n)])
        /\ UNCHANGED <<disk, cwd, file>>

\* ilock(ip): open() accepts a file, mkdir() nothing.
create_open(p) ==
    LET l == loc[p] IN
    /\ At(p, "create_old") /\ CanLock(l.ip)
    /\ IF NoType(l.ip) THEN panic("ilock: no type")
       ELSE /\ itable' = [itable EXCEPT ![l.ip] = [Locked(l.ip, p) EXCEPT !.lock = NULL]]
            /\ IF l.op = "create" /\ Locked(l.ip, p).type = "file"
               THEN file' = [file EXCEPT ![p] = l.ip] /\ Go(p, Idle)
               ELSE Go(p, [Put(l, l.ip, "idle") EXCEPT !.ip = NULL]) /\ UNCHANGED file
            /\ UNCHANGED <<disk, cwd, panicked>>

Unallocated == {i \in Inums : disk[i].type = "none"}

\* ialloc(): the first free inode gets its type on the disk; dp stays locked.
ialloc(p) ==
    LET l == loc[p] IN
    /\ At(p, "parent") /\ Creating(p) /\ CanLock(l.dp) /\ ~NoType(l.dp)
    /\ dirlookup(itable[l.dp].inum, Head(l.path)) = 0
    /\ IF Unallocated = {}
       THEN Go(p, [Put(l, l.dp, "idle") EXCEPT !.dp = NULL]) /\ UNCHANGED <<disk, itable, panicked>>
       ELSE LET i == Min(Unallocated) IN
            /\ Panics(i)
            /\ disk' = [disk EXCEPT ![i].type = IF l.op = "mkdir" THEN "dir" ELSE "file"]
            /\ itable' = [iget(i) EXCEPT ![l.dp].lock = p]
            /\ Go(p, [l EXCEPT !.pc = "create_new", !.ip = Entry(i)])
    /\ UNCHANGED <<cwd, file>>

\* ilock(ip); nlink = 1; "." and ".."; dirlink(dp, name); dp->nlink++ for "..";
\* iunlockput(dp).
create_new(p) ==
    LET l == loc[p]
        i == itable[l.ip].inum
        d == itable[l.dp].inum
        k == disk[d].nlink + (IF l.op = "mkdir" THEN 1 ELSE 0)
    IN  /\ At(p, "create_new") /\ CanLock(l.ip)
        /\ itable' = [itable EXCEPT ![l.ip] = [Locked(l.ip, p) EXCEPT !.nlink = 1],
                                    ![l.dp] = [@ EXCEPT !.lock = NULL, !.nlink = k]]
        /\ disk' = [disk EXCEPT ![i] = [@ EXCEPT !.nlink = 1, !.up = IF l.op = "mkdir" THEN d ELSE 0],
                                ![d] = [@ EXCEPT !.dents[Head(l.path)] = i, !.nlink = k]]
        /\ Go(p, [Put(l, l.dp, "create_done") EXCEPT !.dp = NULL])
        /\ UNCHANGED <<cwd, file, panicked>>

\* The new entry does not fit on the disk: ip->nlink = 0; iunlockput(ip), then dp.
create_fail(p) ==
    LET l == loc[p] IN
    /\ At(p, "create_new") /\ CanLock(l.ip)
    /\ itable' = [itable EXCEPT ![l.ip] = [Locked(l.ip, p) EXCEPT !.nlink = 0, !.lock = NULL]]
    /\ disk' = OnDisk(l.ip, 0)
    /\ Go(p, [Put(l, l.ip, "create_bad") EXCEPT !.ip = NULL])
    /\ UNCHANGED <<cwd, file, panicked>>

\* iunlockput(dp) on the error paths of create() and sys_unlink().
create_bad(p) ==
    LET l == loc[p] IN
    /\ At(p, "create_bad")
    /\ itable' = [itable EXCEPT ![l.dp].lock = NULL]
    /\ Go(p, [Put(l, l.dp, "idle") EXCEPT !.dp = NULL])
    /\ UNCHANGED <<disk, cwd, file, panicked>>

\* The new inode, still locked: sys_open() keeps it, sys_mkdir() puts it.
create_done(p) ==
    LET l == loc[p] IN
    /\ At(p, "create_done")
    /\ itable' = [itable EXCEPT ![l.ip].lock = NULL]
    /\ IF l.op = "create"
       THEN file' = [file EXCEPT ![p] = l.ip] /\ Go(p, Idle)
       ELSE Go(p, [Put(l, l.ip, "idle") EXCEPT !.ip = NULL]) /\ UNCHANGED file
    /\ UNCHANGED <<disk, cwd, panicked>>

-----------------------------------------------------------------------------
(* sys_unlink(); "rmdir" stands for the unlink of a directory              *)

Unlinking(p) == loc[p].op \in {"unlink", "rmdir"}

\* ilock(dp); ".." or no such name: iunlockput(dp); otherwise dp stays locked.
unlink_dir(p) ==
    LET l == loc[p]
        n == IF Head(l.path) = DotDot THEN 0 ELSE dirlookup(itable[l.dp].inum, Head(l.path))
    IN  /\ At(p, "parent") /\ Unlinking(p) /\ CanLock(l.dp) /\ ~NoType(l.dp)
        /\ IF n = 0
           THEN Go(p, [Put(l, l.dp, "idle") EXCEPT !.dp = NULL]) /\ UNCHANGED <<itable, panicked>>
           ELSE /\ Panics(n)
                /\ itable' = [iget(n) EXCEPT ![l.dp].lock = p]
                /\ Go(p, [l EXCEPT !.pc = "unlink_ip", !.ip = Entry(n)])
        /\ UNCHANGED <<disk, cwd, file>>

isdirempty(i) == disk[i].dents = NoEntries

\* Which unlinks the programs of Ops do: files, or directories.
Refused(p, t, i) ==
    \/ t = "dir" /\ ~isdirempty(i)
    \/ (t = "dir") # (loc[p].op = "rmdir")

Erased(dents, n) == [dents EXCEPT ![n] = 0]

\* ilock(ip): a directory that is not empty stays (iunlockput(ip), then dp);
\* otherwise the entry is erased, dp loses the link of "..", iunlockput(dp).
unlink_ip(p) ==
    LET l == loc[p]
        i == itable[l.ip].inum
        d == itable[l.dp].inum
        k == disk[d].nlink - (IF Locked(l.ip, p).type = "dir" THEN 1 ELSE 0)
    IN  /\ At(p, "unlink_ip") /\ CanLock(l.ip)
        /\ CASE NoType(l.ip) -> panic("ilock: no type")
             [] ~NoType(l.ip) /\ Locked(l.ip, p).nlink < 1 -> panic("unlink: nlink < 1")
             [] ~NoType(l.ip) /\ Locked(l.ip, p).nlink >= 1 /\ Refused(p, Locked(l.ip, p).type, i) ->
                  /\ itable' = [itable EXCEPT ![l.ip] = [Locked(l.ip, p) EXCEPT !.lock = NULL]]
                  /\ Go(p, [Put(l, l.ip, "create_bad") EXCEPT !.ip = NULL])
                  /\ UNCHANGED <<disk, cwd, file, panicked>>
             [] OTHER ->
                  /\ itable' = [itable EXCEPT ![l.ip] = Locked(l.ip, p),
                                              ![l.dp] = [@ EXCEPT !.lock = NULL, !.nlink = k]]
                  /\ disk' = [disk EXCEPT ![d] = [@ EXCEPT !.dents = Erased(@, Head(l.path)), !.nlink = k]]
                  /\ Go(p, [Put(l, l.dp, "unlink_done") EXCEPT !.dp = NULL])
                  /\ UNCHANGED <<cwd, file, panicked>>

\* (mutant) the link count is not lowered
Mut_unlink_done(p) ==
    /\ At(p, "unlink_done")
    /\ itable' = [itable EXCEPT ![loc[p].ip].lock = NULL]
    /\ Go(p, [Put(loc[p], loc[p].ip, "idle") EXCEPT !.ip = NULL])
    /\ UNCHANGED <<disk, cwd, file, panicked>>

\* ip->nlink--; iupdate(ip); iunlockput(ip)
unlink_done(p) ==
    LET l == loc[p]
        k == Lower(l.ip)
    IN  /\ At(p, "unlink_done")
        /\ itable' = [Nlink(l.ip, k) EXCEPT ![l.ip].lock = NULL]
        /\ disk' = OnDisk(l.ip, k)
        /\ Go(p, [Put(l, l.ip, "idle") EXCEPT !.ip = NULL])
        /\ UNCHANGED <<cwd, file, panicked>>

-----------------------------------------------------------------------------
(* sys_link()                                                              *)

\* ilock(ip); not for directories; nlink++; iunlock(ip); nameiparent(new).
link_old(p) ==
    LET l == loc[p]
        k == Locked(l.ip, p).nlink + 1
    IN  /\ At(p, "found") /\ l.op = "link" /\ CanLock(l.ip)
        /\ IF NoType(l.ip) THEN panic("ilock: no type")
           ELSE IF Locked(l.ip, p).type = "dir"
           THEN /\ itable' = [itable EXCEPT ![l.ip] = [Locked(l.ip, p) EXCEPT !.lock = NULL]]
                /\ Go(p, [Put(l, l.ip, "idle") EXCEPT !.ip = NULL])
                /\ UNCHANGED <<disk, cwd, file, panicked>>
           ELSE /\ itable' = [iget(root) EXCEPT ![l.ip] =
                      [Locked(l.ip, p) EXCEPT !.lock = NULL, !.nlink = k, !.ref = iget(root)[l.ip].ref]]
                /\ disk' = OnDisk(l.ip, k)
                /\ Go(p, [l EXCEPT !.op = "link2", !.pc = "namex", !.path = l.new, !.new = <<>>,
                                   !.old = l.ip, !.ip = Entry(root)])
                /\ Panics(root) /\ UNCHANGED <<cwd, file>>

\* ilock(dp); dirlink(): unless the name exists or the disk is full; iunlockput(dp).
link_new(p) ==
    LET l == loc[p]
        d == itable[l.dp].inum
    IN  /\ At(p, "parent") /\ l.op = "link2" /\ CanLock(l.dp) /\ ~NoType(l.dp)
        /\ \/ /\ Head(l.path) # DotDot /\ dirlookup(d, Head(l.path)) = 0
              /\ disk' = [disk EXCEPT ![d].dents[Head(l.path)] = itable[l.old].inum]
              /\ Go(p, [Put(l, l.dp, "linked") EXCEPT !.dp = NULL])
           \/ Go(p, [Put(l, l.dp, "bad") EXCEPT !.dp = NULL]) /\ UNCHANGED disk
        /\ UNCHANGED <<itable, cwd, file, panicked>>

linked(p) ==
    /\ At(p, "linked")
    /\ Go(p, [Put(loc[p], loc[p].old, "idle") EXCEPT !.old = NULL])
    /\ UNCHANGED <<disk, itable, cwd, file, panicked>>

\* bad: ilock(ip); nlink--; iupdate(ip); iunlockput(ip)
bad(p) ==
    LET e == loc[p].old
        k == Lower(e)
    IN  /\ At(p, "bad") /\ CanLock(e)
        /\ itable' = Nlink(e, k) /\ disk' = OnDisk(e, k)
        /\ Go(p, [Put(loc[p], e, "idle") EXCEPT !.old = NULL])
        /\ UNCHANGED <<cwd, file, panicked>>

-----------------------------------------------------------------------------
\* Within one call.
Working(p) ==
    \/ iput(p) \/ itrunc(p) \/ iput_ref(p) \/ namex(p) \/ namei(p) \/ sys_open(p) \/ sys_chdir(p)
    \/ create_old(p) \/ create_open(p) \/ ialloc(p) \/ create_new(p) \/ create_fail(p)
    \/ create_bad(p) \/ create_done(p) \/ unlink_dir(p) \/ unlink_ip(p) \/ unlink_done(p)
    \/ link_old(p) \/ link_new(p) \/ linked(p) \/ bad(p)

Halted == panicked # "no" /\ UNCHANGED vars

Next == (\E p \in Procs : begin(p) \/ sys_close(p) \/ Working(p)) \/ Halted

Spec == Init /\ [][Next]_vars

\* A process inside a call goes on.
FairSpec == Spec /\ \A p \in Procs : SF_vars(Working(p))

-----------------------------------------------------------------------------
(* Properties.                                                             *)

TypeOK ==
    /\ disk \in [Inums -> [type : {"none", "file", "dir"}, nlink : 0 .. 9,
                           dents : [Names -> 0 .. NINODES - 1], up : 0 .. NINODES - 1]]
    /\ \A e \in Entries : /\ itable[e].ref \in Nat /\ itable[e].inum \in 0 .. NINODES - 1
                          /\ itable[e].lock \in Procs \union {NULL}

NoPanic == panicked = "no"

Quiet == \A p \in Procs : loc[p].pc = "idle"

\* The links of inode i in the file system: entries, and the ".." of directories that
\* have an entry; a directory counts its own "." not.
Links(i) ==
    Cardinality({<<d, n>> \in Inums \X Names : disk[d].type = "dir" /\ disk[d].dents[n] = i})
    + Cardinality({d \in Inums \ {root} : disk[d].type = "dir" /\ disk[d].nlink > 0 /\ disk[d].up = i})
    + (IF i = root THEN 1 ELSE 0)

\* fs.h: nlink is the "Number of links to inode in file system".  Between calls it is,
\* so no allocated inode is lost and none is freed under a name.
LinksExact == Quiet => \A i \in Inums : disk[i].nlink = Links(i)

\* A name in a directory always leads to an allocated inode, calls in progress included.
NamesAllocated ==
    \A d \in Inums, n \in Names :
       disk[d].type = "dir" /\ disk[d].dents[n] # 0 => disk[disk[d].dents[n]].type # "none"

\* The pointers to entry e that programs and calls in progress hold.
Pointers(e) ==
    Cardinality({p \in Procs : cwd[p] = e}) + Cardinality({p \in Procs : file[p] = e})
    + Cardinality({p \in Procs : loc[p].ip = e}) + Cardinality({p \in Procs : loc[p].dp = e})
    + Cardinality({p \in Procs : loc[p].old = e}) + Cardinality({p \in Procs : loc[p].put = e})

\* ip->ref "tracks the number of in-memory pointers to the entry", and no inode is in
\* the table twice.
RefsExact ==
    /\ \A e \in Entries : itable[e].ref = Pointers(e)
    /\ \A i \in Inums : Cardinality(Cached(i)) <= 1

\* iput() frees an inode exactly when the counts have fallen to zero: between calls an
\* allocated inode has a link or a reference.
NothingLeaks ==
    Quiet => \A i \in Inums : disk[i].type # "none" => disk[i].nlink > 0 \/ Cached(i) # {}

=============================================================================
