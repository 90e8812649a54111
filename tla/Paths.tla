------------------------------- MODULE Paths --------------------------------
(***************************************************************************)
(* Path names and directories byte by byte: skipelem(), namex(),           *)
(* namecmp(), dirlookup() and dirlink() of kernel/fs.c, used by create()   *)
(* and sys_unlink() of kernel/sysfile.c. A path is a sequence of           *)
(* characters, a name a buffer of DIRSIZ bytes that need not end in NUL,   *)
(* a directory a sequence of dirents with inum 0 for a free one. Locks,    *)
(* reference counts and transactions are in Inode; a call is one step.     *)
(* Beside the directories runs what they stand for: tree, a function of    *)
(* directory and name.                                                     *)
(***************************************************************************)
EXTENDS Integers, Sequences, FiniteSets, TLC

CONSTANTS
    DIRSIZ,
    PathNames,  \* sequences of characters, "/" and "." among them
    NINODES     \* inodes 1 .. NINODES; 1 is the root

PathsAssumption ==
    /\ \A path \in PathNames : \A k \in DOMAIN path : path[k] # "NUL"
    /\ DIRSIZ \in Nat /\ DIRSIZ > 2 /\ NINODES \in Nat \ {0}

NUL == "NUL"
ROOTINO == 1
Inodes == 1 .. NINODES

VARIABLES
    type,       \* "DIR", "FILE" or "free"
    dirents,    \* the directory's contents: [inum, name]
    tree        \* history: <<directory, name>> -> inode

vars == <<type, dirents, tree>>

Byte(path, k) == IF k <= Len(path) THEN path[k] ELSE NUL
From(path, k) == SubSeq(path, k, Len(path))

-----------------------------------------------------------------------------
(* kernel/fs.c                                                             *)

RECURSIVE Skip(_)
Skip(path) == IF Byte(path, 1) = "/" THEN Skip(Tail(path)) ELSE path

\* The length of the element path starts with.
ElemLen(path) == CHOOSE n \in 0 .. Len(path) :
                     Byte(path, n + 1) \in {"/", NUL} /\ \A k \in 1 .. n : path[k] # "/"

\* (mutant) an element shorter than the buffer is not ended
Mut_Terminate(name, len) == name

Terminate(name, len) == IF len >= DIRSIZ THEN name ELSE [name EXCEPT ![len + 1] = NUL]

\* name keeps what it held behind the NUL.
skipelem(path, name) ==
    LET s == Skip(path)
        len == ElemLen(s)
        cut == [k \in 1 .. DIRSIZ |-> IF k <= len THEN s[k] ELSE name[k]]
    IN  IF s = <<>> THEN [more |-> FALSE, path |-> s, name |-> name]
        ELSE [more |-> TRUE, path |-> Skip(From(s, len + 1)), name |-> Terminate(cut, len)]

\* strncmp() of two names.
RECURSIVE Same(_, _, _)
Same(p, q, k) ==
    \/ k > DIRSIZ
    \/ p[k] = q[k] /\ (p[k] = NUL \/ Same(p, q, k + 1))
namecmp(p, q) == IF Same(p, q, 1) THEN 0 ELSE 1

Used(de) == de.inum # 0

\* The offset of the first entry of dp with that name, 0 if there is none.
dirlookup(dp, name) ==
    LET hits == {o \in DOMAIN dp : Used(dp[o]) /\ namecmp(name, dp[o].name) = 0}
    IN  IF hits = {} THEN 0 ELSE CHOOSE o \in hits : \A x \in hits : o <= x

\* strncpy(): NULs behind the first one.
strncpy(name) == [k \in 1 .. DIRSIZ |-> IF \E j \in 1 .. k : name[j] = NUL THEN NUL ELSE name[k]]

\* dirlink(): the first free entry, or a new one; the directory unchanged if the name is there.
dirlink(dp, name, inum) ==
    LET free == {o \in DOMAIN dp : dp[o].inum = 0}
        off == IF free = {} THEN Len(dp) + 1 ELSE CHOOSE o \in free : \A x \in free : o <= x
        de == [inum |-> inum, name |-> strncpy(name)]
    IN  IF dirlookup(dp, name) # 0 THEN dp
        ELSE [o \in 1 .. (IF off > Len(dp) THEN off ELSE Len(dp)) |-> IF o = off THEN de ELSE dp[o]]

\* *path == 0: name is the last element.
Last(path) == path = <<>>

\* The loop of namex(), at ip; [ip, name] with ip 0 for failure.
RECURSIVE Walk(_, _, _, _)
Walk(ip, path, parent, name) ==
    LET e == skipelem(path, name)
        o == dirlookup(dirents[ip], e.name)
    IN  IF ~e.more THEN [ip |-> IF parent THEN 0 ELSE ip, name |-> name]
        ELSE IF type[ip] # "DIR" THEN [ip |-> 0, name |-> e.name]
        ELSE IF parent /\ Last(e.path) THEN [ip |-> ip, name |-> e.name]
        ELSE IF o = 0 THEN [ip |-> 0, name |-> e.name]
        ELSE Walk(dirents[ip][o].inum, e.path, parent, e.name)

\* The buffer of the caller holds anything at first.
namex(cwd, path, parent, garbage) ==
    Walk(IF Byte(path, 1) = "/" THEN ROOTINO ELSE cwd, path, parent, [k \in 1 .. DIRSIZ |-> garbage])
namei(cwd, path, garbage) == namex(cwd, path, FALSE, garbage).ip
nameiparent(cwd, path, garbage) == namex(cwd, path, TRUE, garbage)

-----------------------------------------------------------------------------
(* What a path means: its elements, each cut to DIRSIZ characters.         *)

RECURSIVE Elements(_)
Elements(path) ==
    IF path = <<>> THEN <<>>
    ELSE IF path[1] = "/" THEN Elements(Tail(path))
    ELSE <<SubSeq(path, 1, IF ElemLen(path) < DIRSIZ THEN ElemLen(path) ELSE DIRSIZ)>>
         \o Elements(From(path, ElemLen(path) + 1))

RECURSIVE Meaning(_, _)
Meaning(i, elems) ==
    IF elems = <<>> THEN i
    ELSE IF <<i, Head(elems)>> \in DOMAIN tree THEN Meaning(tree[<<i, Head(elems)>>], Tail(elems))
    ELSE 0

Start(cwd, path) == IF Byte(path, 1) = "/" THEN ROOTINO ELSE cwd
Means(cwd, path) == Meaning(Start(cwd, path), Elements(path))

Dot == <<".">>
DotDot == <<".", ".">>

\* A C string in a buffer of DIRSIZ bytes.
Buffer(s) == [k \in 1 .. DIRSIZ |-> Byte(s, k)]

-----------------------------------------------------------------------------
\* The directory mkfs leaves: "." and "..".
NewDir(i, up) == dirlink(dirlink(<<>>, Buffer(Dot), i), Buffer(DotDot), up)

Init ==
    /\ type = [i \in Inodes |-> IF i = ROOTINO THEN "DIR" ELSE "free"]
    /\ dirents = [i \in Inodes |-> IF i = ROOTINO THEN NewDir(i, i) ELSE <<>>]
    /\ tree = (<<ROOTINO, Dot>> :> ROOTINO) @@ (<<ROOTINO, DotDot>> :> ROOTINO)

\* ialloc(): the first free inode.
Free == {i \in Inodes : type[i] = "free" /\ \A j \in 1 .. i - 1 : type[j] # "free"}

\* create() of a name that is not there: for mkdir, and for open with O_CREATE.
create(cwd, path, t, garbage) ==
    LET r == nameiparent(cwd, path, garbage)
        e == Elements(path)
        up == Meaning(Start(cwd, path), SubSeq(e, 1, Len(e) - 1))
    IN  /\ r.ip # 0 /\ dirlookup(dirents[r.ip], r.name) = 0
        /\ \E i \in Free :
            /\ type' = [type EXCEPT ![i] = t]
            /\ dirents' = [dirents EXCEPT ![i] = IF t = "DIR" THEN NewDir(i, r.ip) ELSE <<>>,
                                          ![r.ip] = dirlink(@, r.name, i)]
            /\ tree' = (<<up, e[Len(e)]>> :> i) @@
                       (IF t = "DIR" THEN (<<i, Dot>> :> i) @@ (<<i, DotDot>> :> up) ELSE <<>>) @@ tree

isdirempty(dp) == \A o \in DOMAIN dp : o > 2 => dp[o].inum = 0

\* sys_unlink(); nobody has the inode open or is in it, so that it is freed.
sys_unlink(cwd, path, garbage) ==
    LET r == nameiparent(cwd, path, garbage)
        o == dirlookup(dirents[r.ip], r.name)
        ip == dirents[r.ip][o].inum
        e == Elements(path)
        up == Meaning(Start(cwd, path), SubSeq(e, 1, Len(e) - 1))
    IN  /\ r.ip # 0 /\ namecmp(r.name, Buffer(Dot)) # 0 /\ namecmp(r.name, Buffer(DotDot)) # 0
        /\ o # 0
        /\ type[ip] = "DIR" => isdirempty(dirents[ip]) /\ ip # cwd
        /\ type' = [type EXCEPT ![ip] = "free"]
        /\ dirents' = [dirents EXCEPT ![r.ip][o] = [inum |-> 0, name |-> [k \in 1 .. DIRSIZ |-> NUL]],
                                      ![ip] = <<>>]
        /\ tree' = [x \in {y \in DOMAIN tree : y # <<up, e[Len(e)]>> /\ y[1] # ip} |-> tree[x]]

Dirs == {i \in Inodes : type[i] = "DIR"}

Next ==
    \/ \E cwd \in Dirs : \E path \in PathNames : \E t \in {"DIR", "FILE"} : create(cwd, path, t, "a")
    \/ \E cwd \in Dirs : \E path \in PathNames : sys_unlink(cwd, path, "a")

Spec == Init /\ [][Next]_vars

-----------------------------------------------------------------------------
\* After any calls to create() and unlink(), namei() finds for every path, from every
\* directory although its buffer is not clean, what the elements of the path name,
\* one after the other: slashes are skipped, long names cut, freed entries not seen.
Resolves == \A cwd \in Dirs : \A path \in PathNames :
    namei(cwd, path, "a") = Means(cwd, path)

\* nameiparent() returns the directory all but the last element name, if it is one,
\* and the last element, as create() and unlink() rely on; a path without elements has none.
ParentRight == \A cwd \in Dirs : \A path \in PathNames :
    LET r == nameiparent(cwd, path, "a")
        e == Elements(path)
        up == IF e = <<>> THEN 0 ELSE Meaning(Start(cwd, path), SubSeq(e, 1, Len(e) - 1))
    IN  IF up \in Dirs THEN r.ip = up /\ strncpy(r.name) = Buffer(e[Len(e)]) ELSE r.ip = 0

\* A directory holds one entry for each name in it, and no more entries than it ever
\* had names at one time: dirlink() uses the entries unlink() has freed.
EntriesRight == \A d \in Dirs :
    LET used == {o \in DOMAIN dirents[d] : dirents[d][o].inum # 0}
        here == {x \in DOMAIN tree : x[1] = d}
    IN  /\ Cardinality(used) = Cardinality(here)
        /\ \A x \in here : \E o \in used :
               dirents[d][o] = [inum |-> tree[x], name |-> Buffer(x[2])]
        /\ Len(dirents[d]) <= 2 + (NINODES - 1)

=============================================================================
