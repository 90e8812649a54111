-------------------------------- MODULE Pipe --------------------------------
(***************************************************************************)
(* One pipe of kernel/pipe.c: readers and writers that sleep on two        *)
(* channels under one spin lock, close() of either end, and kill().        *)
(*                                                                         *)
(* A step is what happens between two points where another process can     *)
(* interfere: taking pi->lock, one turn of a copy loop (kill() does not    *)
(* take pi->lock), going to sleep, which is atomic for wakeup() and kill() *)
(* because of p->lock.  The counters are WORD-valued, as uint is 2^32.     *)
(***************************************************************************)
EXTENDS Integers, Sequences, FiniteSets

CONSTANTS
    Readers, Writers,   \* processes that hold the read end, the write end
    Killable,           \* processes that may be killed
    Bytes,              \* values of a byte
    PIPESIZE,           \* pipe.c: size of pi->data
    WORD,               \* number of values of a uint
    MinN, MaxN,         \* smallest and largest byte count of a call
    NULL

Procs == Readers \union Writers

ASSUME PipeAssumption ==
    /\ PIPESIZE \in Nat \ {0} /\ WORD \in Nat /\ MinN \in Nat /\ MaxN \in Nat
    /\ PIPESIZE < WORD /\ WORD % PIPESIZE = 0
    /\ NULL \notin Readers \union Writers

VARIABLES
    nread, nwrite, data, readopen, writeopen,   \* struct pipe
    freed,                                      \* pi's page went back to kfree()
    lock,                                       \* pi->lock: its holder or NULL
    rd, wr,                                     \* processes with the end open
    pc, n, i,                                   \* where each call is, its count, bytes done
    buf,                                        \* what read() has copied out
    killed

pipe == <<nread, nwrite, data, readopen, writeopen, freed>>
vars == <<pipe, lock, rd, wr, pc, n, i, buf, killed>>

Labels == {"user", "wlock", "wloop", "wsleep", "wasleep", "rlock", "rwait", "rsleep", "rasleep",
           "rcopy", "rclose", "wclose"}
Counts == 0 .. MaxN

TypeOK ==
    /\ nread \in 0 .. WORD - 1 /\ nwrite \in 0 .. WORD - 1
    /\ data \in [0 .. PIPESIZE - 1 -> Bytes]
    /\ readopen \in BOOLEAN /\ writeopen \in BOOLEAN /\ freed \in BOOLEAN
    /\ lock \in Procs \union {NULL}
    /\ rd \in SUBSET Readers /\ wr \in SUBSET Writers
    /\ pc \in [Procs -> Labels]
    /\ n \in [Procs -> Counts] /\ i \in [Procs -> Counts]
    /\ buf \in [Procs -> Seq(Bytes)]
    /\ killed \in [Procs -> BOOLEAN]

\* pipealloc(), and the fork()s that gave the ends to Readers and Writers.
Init ==
    /\ nread = 0 /\ nwrite = 0
    /\ data \in [0 .. PIPESIZE - 1 -> Bytes] /\ \A k \in DOMAIN data : data[k] = data[0]
    /\ readopen = TRUE /\ writeopen = TRUE /\ freed = FALSE
    /\ lock = NULL
    /\ rd = Readers /\ wr = Writers
    /\ pc = [p \in Procs |-> "user"]
    /\ n = [p \in Procs |-> 0] /\ i = [p \in Procs |-> 0]
    /\ buf = [p \in Procs |-> <<>>]
    /\ killed = [p \in Procs |-> FALSE]

\* (mutant) the two ends share a channel name by mistake: readers are not woken
Mut_Wake(pcs, chan) == IF chan = "nread" THEN pcs ELSE [q \in Procs |-> IF pcs[q] = "wasleep" THEN "wlock" ELSE pcs[q]]

\* wakeup(): whoever sleeps on the channel goes for pi->lock again.
Wake(pcs, chan) ==
    [q \in Procs |-> CASE chan = "nread" /\ pcs[q] = "rasleep" -> "rlock"
                       [] chan = "nwrite" /\ pcs[q] = "wasleep" -> "wlock"
                       [] OTHER -> pcs[q]]

Goto(p, label) == pc' = [pc EXCEPT ![p] = label]

\* release() and return: the locals of the call are gone.
Leave(p) ==
    /\ lock' = NULL
    /\ n' = [n EXCEPT ![p] = 0] /\ i' = [i EXCEPT ![p] = 0] /\ buf' = [buf EXCEPT ![p] = <<>>]

\* The end of pipewrite() and piperead(): wakeup(), release() and return.
Return(p, chan) == pc' = [Wake(pc, chan) EXCEPT ![p] = "user"] /\ Leave(p)

-----------------------------------------------------------------------------
(* System calls enter and take the lock.                                   *)

\* A killed process does not start another call: usertrap() makes it exit().
write(p) ==
    /\ pc[p] = "user" /\ p \in wr /\ ~killed[p]
    /\ \E c \in MinN .. MaxN : n' = [n EXCEPT ![p] = c]
    /\ Goto(p, "wlock")
    /\ UNCHANGED <<pipe, lock, rd, wr, i, buf, killed>>

read(p) ==
    /\ pc[p] = "user" /\ p \in rd /\ ~killed[p]
    /\ \E c \in MinN .. MaxN : n' = [n EXCEPT ![p] = c]
    /\ Goto(p, "rlock")
    /\ UNCHANGED <<pipe, lock, rd, wr, i, buf, killed>>

\* acquire(&pi->lock), at the start of a call and at the end of sleep().
acquire(p) ==
    /\ pc[p] \in {"wlock", "rlock"} /\ lock = NULL
    /\ lock' = p
    /\ Goto(p, IF pc[p] = "wlock" THEN "wloop" ELSE "rwait")
    /\ UNCHANGED <<pipe, rd, wr, n, i, buf, killed>>

\* sleep(): release pi->lock and be asleep on the channel, for wakeup() at once.
sleep(p) ==
    /\ pc[p] \in {"wsleep", "rsleep"}
    /\ lock' = NULL
    /\ Goto(p, IF pc[p] = "wsleep" THEN "wasleep" ELSE "rasleep")
    /\ UNCHANGED <<pipe, rd, wr, n, i, buf, killed>>

-----------------------------------------------------------------------------
(* pipewrite(): one turn of its loop.                                      *)

\* (mutant) the counters are compared as if they never wrapped
Mut_Full == nwrite >= nread + PIPESIZE

\* pipewrite-full; uint arithmetic wraps.
Full == nwrite = (nread + PIPESIZE) % WORD

\* The reader is gone or the writer was killed.
write_fails(p) ==
    /\ pc[p] = "wloop" /\ i[p] < n[p] /\ (~readopen \/ killed[p])
    /\ Goto(p, "user") /\ Leave(p)
    /\ UNCHANGED <<pipe, rd, wr, killed>>

write_full(p) ==
    /\ pc[p] = "wloop" /\ i[p] < n[p] /\ readopen /\ ~killed[p] /\ Full
    /\ pc' = [Wake(pc, "nread") EXCEPT ![p] = "wsleep"]
    /\ UNCHANGED <<pipe, lock, rd, wr, n, i, buf, killed>>

write_byte(p, ch) ==
    /\ pc[p] = "wloop" /\ i[p] < n[p] /\ readopen /\ ~killed[p] /\ ~Full
    /\ data' = [data EXCEPT ![nwrite % PIPESIZE] = ch]
    /\ nwrite' = (nwrite + 1) % WORD
    /\ i' = [i EXCEPT ![p] = @ + 1]
    /\ UNCHANGED <<nread, readopen, writeopen, freed, lock, rd, wr, pc, n, buf, killed>>

\* All bytes written, or copyin() failed on the next one.
write_returns(p) ==
    /\ pc[p] = "wloop"
    /\ i[p] = n[p] \/ (readopen /\ ~killed[p] /\ ~Full)
    /\ Return(p, "nread")
    /\ UNCHANGED <<pipe, rd, wr, killed>>

-----------------------------------------------------------------------------
(* piperead(): its waiting loop and its copying loop.                      *)

Empty == nread = nwrite

read_fails(p) ==
    /\ pc[p] = "rwait" /\ Empty /\ writeopen /\ killed[p]
    /\ Goto(p, "user") /\ Leave(p)
    /\ UNCHANGED <<pipe, rd, wr, killed>>

\* pipe-empty: wait as long as somebody may still write.
Waits(p) == Empty /\ writeopen

read_wait(p) ==
    /\ pc[p] = "rwait" /\ ~(Waits(p) /\ killed[p])
    /\ Goto(p, IF Waits(p) THEN "rsleep" ELSE "rcopy")
    /\ UNCHANGED <<pipe, lock, rd, wr, n, i, buf, killed>>

\* The place of byte number k in pi->data.
Slot(k) == k % PIPESIZE

read_byte(p) ==
    /\ pc[p] = "rcopy" /\ i[p] < n[p] /\ ~Empty
    /\ nread' = (nread + 1) % WORD
    /\ i' = [i EXCEPT ![p] = @ + 1]
    /\ buf' = [buf EXCEPT ![p] = Append(@, data[Slot(nread)])]
    /\ UNCHANGED <<nwrite, data, readopen, writeopen, freed, lock, rd, wr, pc, n, killed>>

\* copyout() fails: the byte has left the pipe.
read_drops(p) ==
    /\ pc[p] = "rcopy" /\ i[p] < n[p] /\ ~Empty
    /\ nread' = (nread + 1) % WORD
    /\ Return(p, "nwrite")
    /\ UNCHANGED <<nwrite, data, readopen, writeopen, freed, rd, wr, killed>>

read_returns(p) ==
    /\ pc[p] = "rcopy" /\ (i[p] = n[p] \/ Empty)
    /\ Return(p, "nwrite")
    /\ UNCHANGED <<pipe, rd, wr, killed>>

-----------------------------------------------------------------------------
(* close() and kill().                                                     *)

\* fileclose() by close() or exit(); the last process with the end open goes on
\* to pipeclose().
close(p) ==
    /\ pc[p] = "user"
    /\ \/ /\ p \in rd /\ rd' = rd \ {p} /\ UNCHANGED wr
          /\ Goto(p, IF rd' = {} THEN "rclose" ELSE "user")
       \/ /\ p \in wr /\ wr' = wr \ {p} /\ UNCHANGED rd
          /\ Goto(p, IF wr' = {} THEN "wclose" ELSE "user")
    /\ UNCHANGED <<pipe, lock, n, i, buf, killed>>

\* (mutant) either end closed is enough to free the pipe
Mut_Unused(r, w) == ~r \/ ~w

\* pipeclose(): both ends are closed.
Unused(r, w) == ~r /\ ~w

\* pipeclose(): the whole of it is one critical section.
pipeclose(p) ==
    /\ pc[p] \in {"rclose", "wclose"} /\ lock = NULL
    /\ IF pc[p] = "wclose"
       THEN /\ writeopen' = FALSE /\ UNCHANGED readopen
            /\ pc' = [Wake(pc, "nread") EXCEPT ![p] = "user"]
       ELSE /\ readopen' = FALSE /\ UNCHANGED writeopen
            /\ pc' = [Wake(pc, "nwrite") EXCEPT ![p] = "user"]
    /\ freed' = Unused(readopen', writeopen')
    /\ UNCHANGED <<nread, nwrite, data, lock, rd, wr, n, i, buf, killed>>

\* kill(): a sleeping victim becomes runnable.
kill(p) ==
    /\ p \in Killable /\ ~killed[p]
    /\ killed' = [killed EXCEPT ![p] = TRUE]
    /\ pc' = [pc EXCEPT ![p] = CASE @ = "wasleep" -> "wlock"
                                 [] @ = "rasleep" -> "rlock"
                                 [] OTHER -> @]
    /\ UNCHANGED <<pipe, lock, rd, wr, n, i, buf>>

-----------------------------------------------------------------------------
\* What a process does inside the kernel.
Kernel(p) ==
    \/ acquire(p) \/ sleep(p)
    \/ write_fails(p) \/ write_full(p) \/ write_returns(p) \/ \E ch \in Bytes : write_byte(p, ch)
    \/ read_fails(p) \/ read_wait(p) \/ read_byte(p) \/ read_drops(p) \/ read_returns(p)
    \/ pipeclose(p)

\* Both ends are closed and everybody is done.
Finished == freed /\ (\A p \in Procs : pc[p] = "user") /\ UNCHANGED vars

Next ==
    \/ \E p \in Procs : Kernel(p) \/ write(p) \/ read(p) \/ close(p) \/ kill(p)
    \/ Finished

Spec == Init /\ [][Next]_vars

\* Runnable processes run, a reader keeps reading (or closes), a killed process
\* closes its files in exit().
Fairness ==
    \A p \in Procs : /\ WF_vars(Kernel(p))
                     /\ WF_vars(read(p) \/ (p \in rd /\ close(p)))
                     /\ WF_vars(killed[p] /\ close(p))

FairSpec == Spec /\ Fairness

-----------------------------------------------------------------------------
(* Properties.                                                             *)

Count == (nwrite - nread) % WORD

\* The bytes on their way, oldest first.
Queue == [k \in 1 .. Count |-> data[((nread + k - 1) % WORD) % PIPESIZE]]

\* Bytes come out of piperead() in the order pipewrite() took them in, each once
\* and never more than PIPESIZE in between, also when nread and nwrite wrap.
FIFO == INSTANCE Fifo WITH Size <- PIPESIZE, queue <- Queue
InOrder == FIFO!FSpec

\* pipewrite() and piperead() never meet a lost wakeup: whoever sleeps on
\* pi->nwrite finds the pipe full and a reader left, and as long as nobody has
\* been killed whoever sleeps on pi->nread finds it empty and a writer left, unless
\* the process in the loop that changed this is about to call wakeup().  (A killed
\* writer leaves pipewrite() without wakeup(&pi->nread).)
NoLostWakeup ==
    \A p \in Procs :
       /\ pc[p] = "wasleep" /\ (lock = NULL \/ pc[lock] # "rcopy") => Full /\ readopen
       /\ pc[p] = "rasleep" /\ (lock = NULL \/ pc[lock] # "wloop")
             => (Empty \/ \E q \in Procs : killed[q]) /\ writeopen

\* read() of at least one byte returns 0 without a fault only at end of file: the
\* write end is closed and every byte has been read.
EofAtEnd ==
    \A p \in Procs : pc[p] = "rcopy" /\ i[p] = 0 /\ Empty => ~writeopen

\* pipeclose() gives the page back once, and no process that is in a call on the
\* pipe, or on its way to pipeclose(), touches it afterwards.
NoUseAfterFree ==
    freed => lock = NULL /\ \A p \in Procs : pc[p] = "user" /\ p \notin rd \union wr

=============================================================================
