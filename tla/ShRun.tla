------------------------------- MODULE ShRun --------------------------------
(***************************************************************************)
(* The shell at work: main(), runcmd() and fork1() of user/sh.c, over      *)
(* processes with descriptors, pipes, exit() and wait() as modules File,   *)
(* Pipe and Proc have them.  A line is a command as module ShParse gives   *)
(* it.  todo holds the system calls a process has still to make; programs  *)
(* write some items, or copy their input, or read one item.                *)
(***************************************************************************)
EXTENDS Integers, Sequences, FiniteSets

CONSTANTS
    NPROC,          \* processes: 0 is the shell's
    Lines,          \* the commands the user types
    NPIPE,
    PIPESIZE, ITEMS,    \* items a pipe holds, and items a source writes
    MayFail             \* fork(), pipe(), open() and exec() may fail

ShRunAssumption == NPROC \in Nat \ {0} /\ NPIPE \in Nat /\ PIPESIZE \in Nat \ {0} /\ ITEMS \in Nat /\ MayFail \in BOOLEAN

sh == 0
init == -1
Procs == 0 .. NPROC - 1
Pipes == 1 .. NPIPE
Fds == 0 .. 4
None == [k |-> "none", n |-> 0]
Tty  == [k |-> "tty", n |-> 0]
File == [k |-> "file", n |-> 0]
End(k, n) == [k |-> k, n |-> n]

VARIABLES
    st,         \* "free", "run" or "zombie"
    parent, fd, todo,
    p,          \* the array p of runcmd()
    count,      \* items in each pipe
    fg,         \* ghost: the process belongs to the line, not behind "&"
    want        \* ghost: standard input and output the command should have

vars == <<st, parent, fd, todo, p, count, fg, want>>

Op(name) == [op |-> name]
Fd(name, f) == [op |-> name, f |-> f]
Cmd(name, c) == [op |-> name, c |-> c]

Init ==
    /\ st = [x \in Procs |-> IF x = sh THEN "run" ELSE "free"]
    /\ parent = [x \in Procs |-> init]
    /\ fd = [x \in Procs |-> [f \in Fds |-> IF x = sh /\ f < 3 THEN Tty ELSE None]]
    /\ todo = [x \in Procs |-> IF x = sh THEN <<Op("getcmd")>> ELSE <<>>]
    /\ p = [x \in Procs |-> <<0, 0>>] /\ count = [n \in Pipes |-> 0]
    /\ fg = [x \in Procs |-> FALSE]
    /\ want = [x \in Procs |-> [in |-> Tty, out |-> Tty]]

At(x, op) == st[x] = "run" /\ todo[x] # <<>> /\ Head(todo[x]).op = op
Then(x, steps) == todo' = [todo EXCEPT ![x] = steps \o Tail(@)]

MinOf(S) == CHOOSE m \in S : \A y \in S : m <= y
FreeFd(x) == MinOf({f \in Fds : fd[x][f] = None})
Held(o) == \E x \in Procs, f \in Fds : fd[x][f] = o

-----------------------------------------------------------------------------
(* runcmd()                                                                *)

\* (mutants) the wrong end is duplicated; the write end stays open
Mut_Swapped(f, e) == <<Fd("close", f), Fd("dup", 3 - e), Fd("closep", 1), Fd("closep", 2)>>

\* What a child does with the ends of the pipe, onto descriptor f.
Plumb(f, e) == <<Fd("close", f), Fd("dup", e), Fd("closep", 1), Fd("closep", 2)>>

\* (mutants) the parent keeps the write end; it waits once
Mut_After == <<Fd("closep", 1), Op("wait"), Op("wait"), Op("exit")>>

\* The parent of a pipe after its two fork1().
After == <<Fd("closep", 1), Fd("closep", 2), Op("wait"), Op("wait"), Op("exit")>>

Steps(c) ==
    CASE c[1] = "EXEC" -> <<[op |-> "exec", prog |-> c[2]]>>
      [] c[1] = "REDIR" -> <<Fd("close", c[3]), Fd("open", c[3]), Cmd("runcmd", c[2])>>
      [] c[1] = "LIST" -> <<Cmd("fork", c[2]), Op("wait"), Cmd("runcmd", c[3])>>
      [] c[1] = "PIPE" -> <<Op("pipe"), Cmd("forkl", c[2]), Cmd("forkr", c[3])>> \o After
      [] c[1] = "BACK" -> <<Cmd("forkb", c[2]), Op("exit")>>

runcmd(x) ==
    /\ At(x, "runcmd") /\ Then(x, Steps(Head(todo[x]).c))
    /\ UNCHANGED <<st, parent, fd, p, count, fg, want>>

\* main(): a line is typed and run by a child ("cd" lines change nothing modelled here,
\* and the input does not end).  Bound: at most one command is left in
\* the background.
getcmd ==
    /\ At(sh, "getcmd") /\ Cardinality({x \in Procs : st[x] # "free"}) <= 2
    /\ \E c \in Lines : Then(sh, <<Cmd("fork", c), Op("wait"), Op("getcmd")>>)
    /\ UNCHANGED <<st, parent, fd, p, count, fg, want>>

\* fork1().
Forks == {"fork", "forkl", "forkr", "forkb"}
fork1(x) ==
    \E op \in Forks, y \in Procs :
        /\ At(x, op) /\ st[y] = "free" /\ \A z \in Procs : st[z] = "free" => y <= z
        /\ LET h == Head(todo[x])
               pre == CASE op = "forkl" -> Plumb(1, 2) [] op = "forkr" -> Plumb(0, 1) [] OTHER -> <<>>
           IN  todo' = [todo EXCEPT ![x] = Tail(@), ![y] = pre \o <<Cmd("runcmd", h.c)>>]
        /\ st' = [st EXCEPT ![y] = "run"] /\ parent' = [parent EXCEPT ![y] = x]
        /\ fd' = [fd EXCEPT ![y] = fd[x]] /\ p' = [p EXCEPT ![y] = p[x]]
        /\ fg' = [fg EXCEPT ![y] = IF op = "forkb" THEN FALSE ELSE x = sh \/ fg[x]]
        /\ want' = [want EXCEPT ![y] = CASE op = "forkl" -> [want[x] EXCEPT !.out = fd[x][p[x][2]]]
                                         [] op = "forkr" -> [want[x] EXCEPT !.in = fd[x][p[x][1]]]
                                         [] OTHER -> want[x]]
        /\ UNCHANGED count

\* A call that fails: panic(), or the message and exit().  The shell itself exits, and
\* init starts another one.
fails(x) ==
    /\ MayFail /\ \E op \in Forks \union {"pipe", "open", "exec"} : At(x, op)
    /\ todo' = [todo EXCEPT ![x] = <<Op(IF x = sh THEN "getcmd" ELSE "exit")>>]
    /\ UNCHANGED <<st, parent, fd, p, count, fg, want>>

-----------------------------------------------------------------------------
(* System calls.                                                           *)

pipe(x) ==
    /\ At(x, "pipe")
    /\ \E m \in Pipes : ~Held(End("r", m)) /\ ~Held(End("w", m))
    /\    LET n == MinOf({m \in Pipes : ~Held(End("r", m)) /\ ~Held(End("w", m))})
              a == FreeFd(x)
              b == MinOf({f \in Fds : fd[x][f] = None /\ f # a})
          IN  /\ fd' = [fd EXCEPT ![x] = [@ EXCEPT ![a] = End("r", n), ![b] = End("w", n)]]
              /\ p' = [p EXCEPT ![x] = <<a, b>>] /\ count' = [count EXCEPT ![n] = 0]
    /\ Then(x, <<>>)
    /\ UNCHANGED <<st, parent, fg, want>>

close(x) ==
    /\ At(x, "close") \/ At(x, "closep")
    /\ LET h == Head(todo[x]) IN fd' = [fd EXCEPT ![x][IF h.op = "close" THEN h.f ELSE p[x][h.f]] = None]
    /\ Then(x, <<>>)
    /\ UNCHANGED <<st, parent, p, count, fg, want>>

dup(x) ==
    /\ At(x, "dup")
    /\ fd' = [fd EXCEPT ![x][FreeFd(x)] = fd[x][p[x][Head(todo[x]).f]]]
    /\ Then(x, <<>>)
    /\ UNCHANGED <<st, parent, p, count, fg, want>>

open(x) ==
    /\ At(x, "open")
    /\ fd' = [fd EXCEPT ![x][FreeFd(x)] = File]
    /\ want' = [want EXCEPT ![x] = IF Head(todo[x]).f = 0 THEN [@ EXCEPT !.in = File] ELSE [@ EXCEPT !.out = File]]
    /\ Then(x, <<>>)
    /\ UNCHANGED <<st, parent, p, count, fg>>

\* Orphans go to init, which waits for them all.
exit(x) ==
    LET adopted == [y \in Procs |-> IF parent[y] = x THEN init ELSE parent[y]]
    IN  /\ At(x, "exit")
        /\ parent' = adopted
        /\ st' = [y \in Procs |-> IF y = x THEN (IF parent[x] = init THEN "free" ELSE "zombie")
                                  ELSE IF parent[y] = x /\ st[y] = "zombie" THEN "free" ELSE st[y]]
        /\ fd' = [fd EXCEPT ![x] = [f \in Fds |-> None]] /\ todo' = [todo EXCEPT ![x] = <<>>]
        /\ p' = [p EXCEPT ![x] = <<0, 0>>] /\ fg' = [fg EXCEPT ![x] = FALSE]
        /\ want' = [want EXCEPT ![x] = [in |-> Tty, out |-> Tty]]
        /\ UNCHANGED count

wait(x) ==
    LET kids == {y \in Procs : parent[y] = x /\ st[y] # "free"}
    IN  /\ At(x, "wait")
        /\ \/ kids = {} /\ UNCHANGED <<st, parent>>
           \/ \E y \in kids : /\ st[y] = "zombie"
                              /\ st' = [st EXCEPT ![y] = "free"] /\ parent' = [parent EXCEPT ![y] = init]
        /\ Then(x, <<>>)
        /\ UNCHANGED <<fd, p, count, fg, want>>

-----------------------------------------------------------------------------
(* Programs: "source" writes ITEMS items, "cat" copies until end of file,  *)
(* "head" reads once.                                                      *)

exec(x) ==
    /\ At(x, "exec")
    /\ LET c == Head(todo[x]).prog
       IN  Then(x, CASE c = "" -> <<Op("exit")>>
                     [] c = "source" -> [k \in 1 .. ITEMS |-> Op("write")] \o <<Op("exit")>>
                     [] c = "cat" -> <<Op("cat"), Op("exit")>>
                     [] c = "head" -> <<Op("read"), Op("exit")>>)
    /\ UNCHANGED <<st, parent, fd, p, count, fg, want>>

\* read() of 0: an item, or end of file (a terminal or a file gives that at once).
read(x) ==
    /\ At(x, "read") \/ At(x, "cat")
    /\ LET o == fd[x][0]
           more == IF At(x, "cat") THEN <<Op("write"), Op("cat")>> ELSE <<>>
       IN  \/ o.k = "r" /\ count[o.n] > 0 /\ count' = [count EXCEPT ![o.n] = @ - 1] /\ Then(x, more)
           \/ /\ o.k = "r" => count[o.n] = 0 /\ ~Held(End("w", o.n))
              /\ Then(x, <<>>) /\ UNCHANGED count
    /\ UNCHANGED <<st, parent, fd, p, fg, want>>

\* write() to 1: the program gives up when nobody reads.
write(x) ==
    /\ At(x, "write")
    /\ LET o == fd[x][1]
       IN  \/ o.k # "w" /\ Then(x, <<>>) /\ UNCHANGED count
           \/ o.k = "w" /\ ~Held(End("r", o.n)) /\ todo' = [todo EXCEPT ![x] = <<Op("exit")>>] /\ UNCHANGED count
           \/ o.k = "w" /\ Held(End("r", o.n)) /\ count[o.n] < PIPESIZE
              /\ count' = [count EXCEPT ![o.n] = @ + 1] /\ Then(x, <<>>)
    /\ UNCHANGED <<st, parent, fd, p, fg, want>>

-----------------------------------------------------------------------------
Step(x) ==
    \/ runcmd(x) \/ fork1(x) \/ pipe(x) \/ close(x) \/ dup(x) \/ open(x)
    \/ exit(x) \/ wait(x) \/ exec(x) \/ read(x) \/ write(x)

Next == getcmd \/ \E x \in Procs : Step(x) \/ fails(x)

Spec == Init /\ [][Next]_vars

\* Every process that can make a step makes one.
FairSpec == Spec /\ \A x \in Procs : WF_vars(Step(x))

-----------------------------------------------------------------------------
(* Properties.                                                             *)

\* A program starts with standard input and output where the command line puts them:
\* the ends of its own pipes, or its redirections, through any nesting of the two.
Wired == \A x \in Procs : At(x, "exec") => fd[x][0] = want[x].in /\ fd[x][1] = want[x].out

\* and with no descriptor besides 0, 1 and 2, so that no program keeps a pipe open that
\* it does not use.
CleanDescriptors == \A x \in Procs : At(x, "exec") => \A f \in Fds : (fd[x][f] # None) = (f < 3)

\* The shell is back at its prompt only when everything on the line that is not behind
\* an "&" has ended, although wait(0) takes any child that has.
ForegroundDone == At(sh, "getcmd") => \A x \in Procs : st[x] = "run" => ~fg[x]

\* Every line ends: no program waits for input from a pipe whose writers have ended.
PromptReturns == []<>At(sh, "getcmd")

=============================================================================
