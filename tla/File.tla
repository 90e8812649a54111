-------------------------------- MODULE File --------------------------------
(***************************************************************************)
(* Open files: the table of kernel/file.c, the descriptors of the          *)
(* processes (fdalloc(), sys_dup(), sys_close(), sys_open() and sys_pipe() *)
(* of kernel/sysfile.c, the copies of fork(), the closes of exit()), and   *)
(* the objects behind them: pipeclose() and pipealloc() of kernel/pipe.c,  *)
(* and references to inodes, of which only the number is kept.             *)
(*                                                                         *)
(* A step of a call is what it does under ftable.lock or pi->lock.  todo   *)
(* holds the steps the process has still to take, the current one first.   *)
(***************************************************************************)
EXTENDS Integers, Sequences, FiniteSets, FiniteSetsExt

CONSTANTS
    Procs, init,        \* init never exits
    NOFILE, NFILE,
    NPIPE,              \* pages kalloc() can give to pipes
    Modes, Types        \* how files are opened, and what is opened

FileAssumption ==
    /\ init \in Procs /\ Modes \subseteq {"O_RDONLY", "O_WRONLY", "O_RDWR"}
    /\ Types \subseteq {"FD_INODE", "FD_DEVICE"} /\ NOFILE \in Nat \ {0} /\ NFILE \in Nat \ {0} /\ NPIPE \in Nat

Fds == 0 .. NOFILE - 1
Files == 1 .. NFILE
Pipes == 1 .. NPIPE
Null == 0

VARIABLES
    live,       \* processes between allocproc() and the end of exit()
    ofile,      \* p->ofile
    ftable,     \* ref, type, object and mode of each struct file
    pipes,      \* readopen, writeopen and whether the page is allocated
    iref,       \* references to inodes held by files and calls
    todo,
    panicked

vars == <<live, ofile, ftable, pipes, iref, todo, panicked>>

Closed == [ref |-> 0, type |-> "FD_NONE", pipe |-> Null, readable |-> FALSE, writable |-> FALSE]
NoPipe == [alloc |-> FALSE, readopen |-> FALSE, writeopen |-> FALSE]

Init ==
    /\ live = {init}
    /\ ofile = [p \in Procs |-> [fd \in Fds |-> Null]]
    /\ ftable = [f \in Files |-> Closed]
    /\ pipes = [pi \in Pipes |-> NoPipe]
    /\ iref = 0 /\ todo = [p \in Procs |-> <<>>] /\ panicked = FALSE

-----------------------------------------------------------------------------
(* The table.                                                              *)

Free(t) == {f \in Files : t[f].ref = 0}

\* filealloc() leaves the other fields as they were.
filealloc(t) == Min(Free(t))
Allocated(t, f) == [t EXCEPT ![f].ref = 1]

Dup(t, f) == [t EXCEPT ![f].ref = @ + 1]

\* fileclose() under ftable.lock.  (The code resets ref and type; nothing reads the
\* other fields before they are set again.)
Dropped(t, f) ==
    IF t[f].ref > 1 THEN [t EXCEPT ![f].ref = @ - 1] ELSE [t EXCEPT ![f] = Closed]

\* What fileclose() does after it releases the lock, with its copy of the entry.
Rest(f) ==
    LET ff == ftable[f]
    IN  IF ff.ref > 1 THEN <<>>
        ELSE IF ff.type = "FD_PIPE" THEN <<[op |-> "pipeclose", pi |-> ff.pipe, w |-> ff.writable]>>
        ELSE IF ff.type \in {"FD_INODE", "FD_DEVICE"} THEN <<[op |-> "iput"]>>
        ELSE <<>>

FreeFds(p) == {fd \in Fds : ofile[p][fd] = Null}
fdalloc(p) == Min(FreeFds(p))

\* The current step of p is replaced by steps.
Then(p, steps) == todo' = [todo EXCEPT ![p] = steps \o Tail(@)]
At(p, op) == todo[p] # <<>> /\ Head(todo[p]).op = op
Idle(p) == p \in live /\ todo[p] = <<>> /\ ~panicked
Start(p, steps) == todo' = [todo EXCEPT ![p] = steps]

-----------------------------------------------------------------------------
(* Closing.                                                                *)

fileclose(p) ==
    /\ At(p, "fileclose")
    /\ LET f == Head(todo[p]).f
       IN  IF ftable[f].ref < 1
           THEN panicked' = TRUE /\ UNCHANGED <<ftable, todo>>
           ELSE ftable' = Dropped(ftable, f) /\ Then(p, Rest(f)) /\ UNCHANGED panicked
    /\ UNCHANGED <<live, ofile, pipes, iref>>

\* (mutant) the first close frees the page
Mut_PipeShut(q, w) == NoPipe

PipeShut(q, w) ==
    LET s == IF w THEN [q EXCEPT !.writeopen = FALSE] ELSE [q EXCEPT !.readopen = FALSE]
    IN  IF s.readopen \/ s.writeopen THEN s ELSE NoPipe

pipeclose(p) ==
    /\ At(p, "pipeclose")
    /\ LET h == Head(todo[p]) IN pipes' = [pipes EXCEPT ![h.pi] = PipeShut(@, h.w)]
    /\ Then(p, <<>>)
    /\ UNCHANGED <<live, ofile, ftable, iref, panicked>>

iput(p) ==
    /\ At(p, "iput") /\ iref' = iref - 1 /\ Then(p, <<>>)
    /\ UNCHANGED <<live, ofile, ftable, pipes, panicked>>

sys_close(p) ==
    /\ Idle(p)
    /\ \E fd \in Fds \ FreeFds(p) :
          /\ ofile' = [ofile EXCEPT ![p][fd] = Null]
          /\ Start(p, <<[op |-> "fileclose", f |-> ofile[p][fd]]>>)
    /\ UNCHANGED <<live, ftable, pipes, iref, panicked>>

-----------------------------------------------------------------------------
(* Opening.                                                                *)

\* fdalloc() fails and nothing changes, or filedup(f).
sys_dup(p) ==
    /\ Idle(p) /\ FreeFds(p) # {}
    /\ \E fd \in Fds \ FreeFds(p) :
          LET f == ofile[p][fd]
          IN  IF ftable[f].ref < 1
              THEN panicked' = TRUE /\ UNCHANGED <<ofile, ftable>>
              ELSE /\ ofile' = [ofile EXCEPT ![p][fdalloc(p)] = f]
                   /\ ftable' = Dup(ftable, f) /\ UNCHANGED panicked
    /\ UNCHANGED <<live, pipes, iref, todo>>

\* namei() or create() has given a reference to the inode.
sys_open(p) ==
    /\ Idle(p) /\ iref' = iref + 1 /\ Start(p, <<[op |-> "filealloc"]>>)
    /\ UNCHANGED <<live, ofile, ftable, pipes, panicked>>

\* The error path: fileclose(f) when there is one, iunlockput(ip).
OpenFailed(f) ==
    IF f = Null THEN <<[op |-> "iput"]>> ELSE <<[op |-> "fileclose", f |-> f], [op |-> "iput"]>>

\* The rest of sys_open(), for each omode.
open_file(p) ==
    /\ At(p, "filealloc")
    /\ IF Free(ftable) = {}
       THEN Then(p, OpenFailed(Null)) /\ UNCHANGED <<ofile, ftable>>
       ELSE LET f == filealloc(ftable)
            IN  IF FreeFds(p) = {}
                THEN ftable' = Allocated(ftable, f) /\ Then(p, OpenFailed(f)) /\ UNCHANGED ofile
                ELSE /\ ofile' = [ofile EXCEPT ![p][fdalloc(p)] = f]
                     /\ \E omode \in Modes, type \in Types :
                           ftable' = [ftable EXCEPT ![f] =
                              [ref |-> 1, type |-> type, pipe |-> Null,
                               readable |-> omode # "O_WRONLY", writable |-> omode # "O_RDONLY"]]
                     /\ Then(p, <<>>)
    /\ UNCHANGED <<live, pipes, iref, panicked>>

\* sys_pipe() calls pipealloc(), which calls filealloc() twice; r and w are *f0 and *f1.
sys_pipe(p) ==
    /\ Idle(p) /\ Start(p, <<[op |-> "alloc0"]>>)
    /\ UNCHANGED <<live, ofile, ftable, pipes, iref, panicked>>

CloseBoth(r, w) ==
    (IF r = Null THEN <<>> ELSE <<[op |-> "fileclose", f |-> r]>>)
    \o (IF w = Null THEN <<>> ELSE <<[op |-> "fileclose", f |-> w]>>)

pipe_alloc0(p) ==
    /\ At(p, "alloc0")
    /\ IF Free(ftable) = {}
       THEN Then(p, <<>>) /\ UNCHANGED ftable
       ELSE LET f == filealloc(ftable)
            IN ftable' = Allocated(ftable, f) /\ Then(p, <<[op |-> "alloc1", r |-> f]>>)
    /\ UNCHANGED <<live, ofile, pipes, iref, panicked>>

pipe_alloc1(p) ==
    /\ At(p, "alloc1")
    /\ LET r == Head(todo[p]).r
       IN  IF Free(ftable) = {}
           THEN Then(p, CloseBoth(r, Null)) /\ UNCHANGED ftable
           ELSE LET f == filealloc(ftable)
                IN /\ ftable' = Allocated(ftable, f)
                   /\ Then(p, <<[op |-> "kalloc", r |-> r, w |-> f]>>)
    /\ UNCHANGED <<live, ofile, pipes, iref, panicked>>

\* kalloc() and the fields of the pipe and of the two files.
pipe_kalloc(p) ==
    /\ At(p, "kalloc")
    /\ LET h == Head(todo[p])
           pages == {pi \in Pipes : ~pipes[pi].alloc}
       IN  IF pages = {}
           THEN Then(p, CloseBoth(h.r, h.w)) /\ UNCHANGED <<ftable, pipes>>
           ELSE LET pi == Min(pages)
                IN /\ pipes' = [pipes EXCEPT ![pi] = [alloc |-> TRUE, readopen |-> TRUE, writeopen |-> TRUE]]
                   /\ ftable' = [ftable EXCEPT
                         ![h.r] = [ref |-> @.ref, type |-> "FD_PIPE", pipe |-> pi, readable |-> TRUE, writable |-> FALSE],
                         ![h.w] = [ref |-> @.ref, type |-> "FD_PIPE", pipe |-> pi, readable |-> FALSE, writable |-> TRUE]]
                   /\ Then(p, <<[op |-> "fds", r |-> h.r, w |-> h.w]>>)
    /\ UNCHANGED <<live, ofile, iref, panicked>>

\* p->ofile after a failure: fd0 and fd1 are given back.
Undone(p, old) == old

\* The rest of sys_pipe(): two descriptors, and copyout() of their numbers, which may fail.
pipe_fds(p) ==
    /\ At(p, "fds")
    /\ LET h == Head(todo[p])
           old == ofile[p]
           fd0 == fdalloc(p)
           fd1 == Min(FreeFds(p) \ {fd0})
       IN  IF Cardinality(FreeFds(p)) < 2
           THEN Then(p, CloseBoth(h.r, h.w)) /\ UNCHANGED ofile
           ELSE /\ ofile' = [ofile EXCEPT ![p] = [@ EXCEPT ![fd0] = h.r, ![fd1] = h.w]]
                /\ Then(p, <<[op |-> "copyout", r |-> h.r, w |-> h.w, old |-> old]>>)
    /\ UNCHANGED <<live, ftable, pipes, iref, panicked>>

pipe_copyout(p) ==
    /\ At(p, "copyout")
    /\ LET h == Head(todo[p])
       IN  \/ Then(p, <<>>) /\ UNCHANGED ofile
           \/ ofile' = [ofile EXCEPT ![p] = Undone(p, h.old)] /\ Then(p, CloseBoth(h.r, h.w))
    /\ UNCHANGED <<live, ftable, pipes, iref, panicked>>

-----------------------------------------------------------------------------
(* fork() copies the descriptors in order, after the last point where it   *)
(* can fail; exit() closes them in order.                                  *)

InOrder(fds, op, q) ==
    [n \in 1 .. NOFILE |-> [op |-> op, fd |-> n - 1, np |-> q]]

fork(p) ==
    /\ Idle(p)
    /\ \E np \in Procs \ live :
          /\ live' = live \union {np}
          /\ todo' = [todo EXCEPT ![p] = InOrder(Fds, "filedup", np),
                                  ![np] = <<[op |-> "embryo"]>>]
    /\ UNCHANGED <<ofile, ftable, pipes, iref, panicked>>

\* One turn of the loop; after the last one the child becomes RUNNABLE.
fork_dup(p) ==
    /\ At(p, "filedup")
    /\ LET h == Head(todo[p])
           f == ofile[p][h.fd]
           np == h.np
       IN  /\ IF f = Null THEN UNCHANGED <<ofile, ftable, panicked>>
              ELSE IF ftable[f].ref < 1 THEN panicked' = TRUE /\ UNCHANGED <<ofile, ftable>>
              ELSE /\ ftable' = Dup(ftable, f) /\ ofile' = [ofile EXCEPT ![np][h.fd] = f]
                   /\ UNCHANGED panicked
           /\ todo' = [todo EXCEPT ![p] = Tail(@), ![np] = IF h.fd = NOFILE - 1 THEN <<>> ELSE @]
    /\ UNCHANGED <<live, pipes, iref>>

exit(p) ==
    /\ Idle(p) /\ p # init
    /\ Start(p, Append(InOrder(Fds, "exitclose", p), [op |-> "zombie"]))
    /\ UNCHANGED <<live, ofile, ftable, pipes, iref, panicked>>

exit_close(p) ==
    /\ At(p, "exitclose")
    /\ LET fd == Head(todo[p]).fd
           f == ofile[p][fd]
       IN  IF f = Null THEN Then(p, <<>>) /\ UNCHANGED <<ofile, ftable, panicked>>
           ELSE IF ftable[f].ref < 1
           THEN panicked' = TRUE /\ UNCHANGED <<ofile, ftable, todo>>
           ELSE /\ ftable' = Dropped(ftable, f) /\ ofile' = [ofile EXCEPT ![p][fd] = Null]
                /\ Then(p, Rest(f)) /\ UNCHANGED panicked
    /\ UNCHANGED <<live, pipes, iref>>

\* The entry of the process table is free again once its parent has waited.
exited(p) ==
    /\ At(p, "zombie")
    /\ live' = live \ {p} /\ Then(p, <<>>)
    /\ UNCHANGED <<ofile, ftable, pipes, iref, panicked>>

\* fileread() and filewrite() fall through to panic().
Panics(f, w) ==
    /\ IF w THEN ftable[f].writable ELSE ftable[f].readable
    /\ ftable[f].type \notin {"FD_PIPE", "FD_DEVICE", "FD_INODE"}

-----------------------------------------------------------------------------
Next ==
    \E p \in Procs :
        \/ fileclose(p) \/ pipeclose(p) \/ iput(p)
        \/ sys_close(p) \/ sys_dup(p) \/ sys_open(p) \/ open_file(p)
        \/ sys_pipe(p) \/ pipe_alloc0(p) \/ pipe_alloc1(p) \/ pipe_kalloc(p)
        \/ pipe_fds(p) \/ pipe_copyout(p)
        \/ fork(p) \/ fork_dup(p) \/ exit(p) \/ exit_close(p) \/ exited(p)

Spec == Init /\ [][Next]_vars

-----------------------------------------------------------------------------
(* Properties.                                                             *)

TypeOK ==
    /\ live \subseteq Procs /\ iref \in Nat
    /\ \A f \in Files : ftable[f].ref \in Nat /\ ftable[f].pipe \in Pipes \union {Null}

\* References to f: descriptors, and the variables of calls under way.
HeldIn(h, f) ==
    CASE h.op = "fileclose" -> h.f = f
      [] h.op = "alloc1" -> h.r = f
      [] h.op \in {"kalloc", "fds"} -> f \in {h.r, h.w}
      [] OTHER -> FALSE
Fdrefs(f) == {x \in Procs \X Fds : ofile[x[1]][x[2]] = f}
Callrefs(f) == {x \in Procs \X (1 .. NOFILE + 2) : x[2] <= Len(todo[x[1]]) /\ HeldIn(todo[x[1]][x[2]], f)}

\* The reference count of a file is the number of descriptors, of all processes, that
\* name it and of the calls that hold it: forks, exits and failing calls neither lose
\* nor add one, and the entry is free exactly when nobody names it.
RefExact == \A f \in Files : ftable[f].ref = Cardinality(Fdrefs(f)) + Cardinality(Callrefs(f))

\* An end of a pipe is open exactly while a descriptor of some process names it or the
\* last close of it is under way, so a reader meets end-of-file when, and only when, no
\* writer is left; and the page is freed once, with the second end (pipeclose()).
EndOpen(pi, w) ==
    \/ \E f \in Files : ftable[f].ref > 0 /\ ftable[f].type = "FD_PIPE" /\ ftable[f].pipe = pi /\ ftable[f].writable = w
    \/ \E p \in Procs : \E n \in 1 .. Len(todo[p]) :
          LET h == todo[p][n] IN h.op = "pipeclose" /\ h.pi = pi /\ h.w = w
EndsExact ==
    \A pi \in Pipes :
        /\ pipes[pi].readopen = EndOpen(pi, FALSE) /\ pipes[pi].writeopen = EndOpen(pi, TRUE)
        /\ pipes[pi].alloc = (pipes[pi].readopen \/ pipes[pi].writeopen)

\* One reference to an inode for each open file and each call under way, whatever fails.
IrefExact ==
    iref = Cardinality({f \in Files : ftable[f].ref > 0 /\ ftable[f].type \in {"FD_INODE", "FD_DEVICE"}})
           + Cardinality({x \in Procs \X (1 .. NOFILE + 2) :
                 x[2] <= Len(todo[x[1]]) /\ todo[x[1]][x[2]].op \in {"iput", "filealloc"}})

\* filedup() and fileclose() never meet a free entry, and a process out of a call never
\* has a descriptor on which fileread() or filewrite() would panic.
NoPanic ==
    /\ ~panicked
    /\ \A p \in Procs, fd \in Fds, w \in BOOLEAN :
          todo[p] = <<>> /\ ofile[p][fd] # Null => ~Panics(ofile[p][fd], w)

=============================================================================
