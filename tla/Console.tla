------------------------------ MODULE Console -------------------------------
(***************************************************************************)
(* Console input: consoleintr() and consoleread() of kernel/console.c on   *)
(* the ring cons.buf, with sleep(), wakeup() and kill().                   *)
(***************************************************************************)
EXTENDS Integers, Sequences

CONSTANTS
    Readers,
    Chars,              \* ordinary characters
    INPUT_BUF_SIZE,
    WORD,               \* values of the indices, uints
    MaxN                \* largest read()

\* The characters consoleintr() tells apart.
Newline == "nl"
EOF == "^D"
KillLine == "^U"
Backspace == "^H"
Special == {Newline, EOF, KillLine, Backspace}

ConsoleAssumption ==
    /\ INPUT_BUF_SIZE \in Nat \ {0} /\ WORD % INPUT_BUF_SIZE = 0 /\ WORD > INPUT_BUF_SIZE
    /\ Chars \intersect Special = {} /\ MaxN \in Nat

VARIABLES
    buf, r, w, e,       \* cons
    lock,               \* the reader that holds cons.lock, or "free"
    pc, n, target,      \* consoleread() of each reader
    killed,
    queue, line,        \* history: input made available and not yet read; being edited
    got                 \* history: bytes of the present call of each reader

ring == <<buf, r, w, e>>
vars == <<ring, lock, pc, n, target, killed, queue, line, got>>

Nowhere == "none"

Init ==
    /\ buf = [k \in 0 .. INPUT_BUF_SIZE - 1 |-> Nowhere] /\ r = 0 /\ w = 0 /\ e = 0
    /\ lock = "free" /\ pc = [p \in Readers |-> "user"]
    /\ n = [p \in Readers |-> 0] /\ target = [p \in Readers |-> 0]
    /\ killed = [p \in Readers |-> FALSE]
    /\ queue = <<>> /\ line = <<>> /\ got = [p \in Readers |-> <<>>]

Slot(k) == k % INPUT_BUF_SIZE

Plus(k, d) == (k + d) % WORD
\* The difference of two indices, as a uint.
Diff(a, b) == (a - b) % WORD
Front(s) == SubSeq(s, 1, Len(s) - 1)

-----------------------------------------------------------------------------
(* consoleintr()                                                           *)

\* (mutant) one character too many
Mut_Room == Diff(e, r) <= INPUT_BUF_SIZE

Room == Diff(e, r) < INPUT_BUF_SIZE

\* The line is complete, or there is no room for more.
Commits(c) == c \in {Newline, EOF} \/ Diff(Plus(e, 1), r) = INPUT_BUF_SIZE

\* wakeup(&cons.r)
Woken == [p \in Readers |-> IF pc[p] = "asleep" THEN "acquire" ELSE pc[p]]

typed(c) ==
    /\ lock = "free" /\ c \notin {KillLine, Backspace} /\ Room
    /\ buf' = [buf EXCEPT ![Slot(e)] = c] /\ e' = Plus(e, 1)
    /\ IF Commits(c) THEN /\ w' = Plus(e, 1) /\ pc' = Woken
                          /\ queue' = queue \o line \o <<c>> /\ line' = <<>>
                     ELSE line' = Append(line, c) /\ UNCHANGED <<w, pc, queue>>
    /\ UNCHANGED <<r, lock, n, target, killed, got>>

backspace ==
    /\ lock = "free" /\ e # w
    /\ e' = Plus(e, -1) /\ line' = Front(line)
    /\ buf' = [buf EXCEPT ![Slot(e - 1)] = Nowhere]
    /\ UNCHANGED <<r, w, lock, pc, n, target, killed, queue, got>>

\* The loop runs to cons.w: no newline is left between w and e.
killline ==
    /\ lock = "free" /\ e # w
    /\ e' = w /\ line' = <<>>
    /\ buf' = [k \in DOMAIN buf |-> IF \E d \in 0 .. Diff(e, w) - 1 : k = Slot(w + d) THEN Nowhere ELSE buf[k]]
    /\ UNCHANGED <<r, w, lock, pc, n, target, killed, queue, got>>

-----------------------------------------------------------------------------
(* consoleread()                                                           *)

Goto(p, l) == pc' = [pc EXCEPT ![p] = l]

read(p) ==
    /\ pc[p] = "user" /\ ~killed[p]
    /\ \E k \in 1 .. MaxN : n' = [n EXCEPT ![p] = k] /\ target' = [target EXCEPT ![p] = k]
    /\ Goto(p, "acquire") /\ got' = [got EXCEPT ![p] = <<>>]
    /\ UNCHANGED <<ring, lock, killed, queue, line>>

acquire(p) ==
    /\ pc[p] = "acquire" /\ lock = "free"
    /\ lock' = p /\ Goto(p, "read")
    /\ UNCHANGED <<ring, n, target, killed, queue, line, got>>

\* release(&cons.lock) and return.
Return(p) ==
    /\ lock' = "free" /\ Goto(p, "user")
    /\ n' = [n EXCEPT ![p] = 0] /\ target' = [target EXCEPT ![p] = 0]

Empty == r = w

\* Nothing to read: -1 if killed, otherwise sleep(&cons.r, &cons.lock).
waits(p) ==
    /\ pc[p] = "read" /\ Empty
    /\ \/ killed[p] /\ Return(p) /\ got' = [got EXCEPT ![p] = <<>>]
       \/ ~killed[p] /\ lock' = "free" /\ Goto(p, "asleep") /\ UNCHANGED <<n, target, got>>
    /\ UNCHANGED <<ring, killed, queue, line>>

\* ^D after some bytes is left for the next call.
Saves(p) == n[p] < target[p]

\* The byte at cons.r leaves the ring.
Consumed ==
    /\ buf' = [buf EXCEPT ![Slot(r)] = Nowhere] /\ r' = Plus(r, 1)
    /\ queue' = IF queue = <<>> THEN <<>> ELSE Tail(queue)
    /\ UNCHANGED <<w, e, line>>

eof(p) ==
    /\ pc[p] = "read" /\ ~Empty /\ buf[Slot(r)] = EOF
    /\ IF Saves(p) THEN UNCHANGED <<ring, queue, line>> ELSE Consumed
    /\ Return(p)
    /\ UNCHANGED <<killed, got>>

Ends(p) == buf[Slot(r)] = Newline \/ n[p] = 1

\* A byte for the user; a newline, or the last byte asked for, ends the call.
byte(p) ==
    /\ pc[p] = "read" /\ ~Empty /\ buf[Slot(r)] # EOF
    /\ Consumed
    /\ got' = [got EXCEPT ![p] = Append(@, buf[Slot(r)])]
    /\ IF Ends(p) THEN Return(p)
       ELSE n' = [n EXCEPT ![p] = @ - 1] /\ UNCHANGED <<target, lock, pc>>
    /\ UNCHANGED killed

\* either_copyout() fails: the byte is gone.
fault(p) ==
    /\ pc[p] = "read" /\ ~Empty /\ buf[Slot(r)] # EOF
    /\ Consumed /\ Return(p)
    /\ UNCHANGED <<killed, got>>

kill(p) ==
    /\ ~killed[p]
    /\ killed' = [killed EXCEPT ![p] = TRUE]
    /\ pc' = IF pc[p] = "asleep" THEN [pc EXCEPT ![p] = "acquire"] ELSE pc
    /\ UNCHANGED <<ring, lock, n, target, queue, line, got>>

\* usertrap(): a killed process exits on its way out; another one reads in its place.
exits(p) ==
    /\ pc[p] = "user" /\ killed[p]
    /\ killed' = [killed EXCEPT ![p] = FALSE] /\ got' = [got EXCEPT ![p] = <<>>]
    /\ UNCHANGED <<ring, lock, pc, n, target, queue, line>>

-----------------------------------------------------------------------------
Serve(p) == acquire(p) \/ waits(p) \/ eof(p) \/ byte(p) \/ fault(p)

Next ==
    \/ \E c \in Chars \union Special : typed(c)
    \/ backspace \/ killline
    \/ \E p \in Readers : read(p) \/ Serve(p) \/ kill(p) \/ exits(p)

Spec == Init /\ [][Next]_vars

-----------------------------------------------------------------------------
(* Properties.                                                             *)

TypeOK ==
    /\ r \in 0 .. WORD - 1 /\ w \in 0 .. WORD - 1 /\ e \in 0 .. WORD - 1
    /\ lock \in Readers \union {"free"}
    /\ n \in [Readers -> 0 .. MaxN] /\ target \in [Readers -> 0 .. MaxN]

\* The three indices cut the ring into what may be read and what is being edited: the
\* first is the committed input not yet read, in order, the second the line as edited
\* so far, also when the indices wrap and the ring is full.
RingIsInput ==
    /\ Diff(w, r) = Len(queue) /\ Diff(e, w) = Len(line) /\ Diff(e, r) <= INPUT_BUF_SIZE
    /\ \A k \in 1 .. Len(queue) : buf[Slot(r + k - 1)] = queue[k]
    /\ \A k \in 1 .. Len(line) : buf[Slot(w + k - 1)] = line[k]

\* What one read() returns never goes past the end of a line, and never holds ^D.
OneLine ==
    \A p \in Readers : \A k \in 1 .. Len(got[p]) :
       got[p][k] # EOF /\ (got[p][k] = Newline => k = Len(got[p]))

\* A ^D behind bytes makes two reads: the one that gets the bytes leaves it, and only a
\* read that returns nothing uses it up.
EofIsEmptyRead ==
    queue # <<>> /\ Head(queue) = EOF /\ Len(queue') < Len(queue) =>
       \A p \in Readers : lock = p => got[p] = <<>>

\* No reader sleeps while there is something to read: consoleintr() wakes all of them
\* when it moves cons.w.
NoLostWakeup == \A p \in Readers : pc[p] = "asleep" => r = w

\* A full ring does not stop the console: it is never full of input nobody may read.
NeverStuck == Diff(e, r) = INPUT_BUF_SIZE => r # w

=============================================================================
