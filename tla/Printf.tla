------------------------------- MODULE Printf -------------------------------
(***************************************************************************)
(* Harts printing at once: the lock of printf(), and panic(), which must   *)
(* get its message out whoever holds that lock, itself included            *)
(* (kernel/printf.c), from boot on (main()).  A message is LEN characters; *)
(* what they are is module Format's.                                       *)
(***************************************************************************)
EXTENDS Integers, FiniteSets

CONSTANTS
    NHARTS,
    LEN         \* characters of a message

PrintfAssumption == NHARTS \in Nat \ {0} /\ LEN \in Nat \ {0}

Harts == 0 .. NHARTS - 1
NoHart == -1

VARIABLES
    started,    \* main() of hart 0 has set up the machine
    locking,    \* pr.locking
    lock,       \* who holds pr.lock
    panicked,
    pc,
    mine,       \* the local variable locking of printf()
    left,       \* characters printf() has still to print
    next        \* what follows: "idle", or in panic() "second" and "freeze"

vars == <<started, locking, lock, panicked, pc, mine, left, next>>

Init ==
    /\ started = FALSE /\ locking = FALSE /\ lock = NoHart /\ panicked = FALSE
    /\ pc = [h \in Harts |-> IF h = 0 THEN "init" ELSE "boot"]
    /\ mine = [h \in Harts |-> FALSE] /\ left = [h \in Harts |-> 0] /\ next = [h \in Harts |-> "idle"]

Go(h, to) == pc' = [pc EXCEPT ![h] = to]

\* main(): hart 0 calls printfinit(), and lets the others go at some later time.
printfinit == pc[0] = "init" /\ Go(0, "idle") /\ locking' = TRUE /\ UNCHANGED <<started, lock, panicked, mine, left, next>>
start == pc[0] = "idle" /\ ~started /\ started' = TRUE /\ UNCHANGED <<locking, lock, panicked, pc, mine, left, next>>
boot(h) == pc[h] = "boot" /\ started /\ Go(h, "idle") /\ UNCHANGED <<started, locking, lock, panicked, mine, left, next>>

-----------------------------------------------------------------------------
\* printf() begins: pr.locking is read once.
Call(h, then) ==
    /\ mine' = [mine EXCEPT ![h] = locking] /\ left' = [left EXCEPT ![h] = LEN]
    /\ next' = [next EXCEPT ![h] = then]
    /\ Go(h, IF locking THEN "acquire" ELSE "put")

printf(h) == pc[h] = "idle" /\ Call(h, "idle") /\ UNCHANGED <<started, locking, lock, panicked>>

Free(h) == lock = NoHart

\* acquire(): it panics on a lock the hart holds.
acquire(h) ==
    /\ pc[h] = "acquire"
    /\ \/ lock = h /\ Go(h, "panic") /\ UNCHANGED lock
       \/ Free(h) /\ lock' = h /\ Go(h, "put")
    /\ UNCHANGED <<started, locking, panicked, mine, left, next>>

\* consputc() and uartputc_sync(): a hart stops here once another has panicked.
put(h) ==
    /\ pc[h] = "put"
    /\ IF panicked THEN Go(h, "frozen") /\ UNCHANGED left
       ELSE /\ left' = [left EXCEPT ![h] = @ - 1]
            /\ Go(h, IF left[h] > 1 THEN "put" ELSE "end")
    /\ UNCHANGED <<started, locking, lock, panicked, mine, next>>

\* printf() ends: the lock is given back if it was taken.
end(h) ==
    /\ pc[h] = "end"
    /\ lock' = IF mine[h] THEN NoHart ELSE lock
    /\ Go(h, next[h])
    /\ UNCHANGED <<started, locking, panicked, mine, left, next>>

-----------------------------------------------------------------------------
\* Something is wrong, anywhere outside printf().
wrong(h) == pc[h] = "idle" /\ Go(h, "panic") /\ UNCHANGED <<started, locking, lock, panicked, mine, left, next>>

\* A fault inside printf(): kerneltrap() prints, and then panics.
fault(h) == pc[h] = "put" /\ next[h] = "idle" /\ Call(h, "panic") /\ UNCHANGED <<started, locking, lock, panicked>>

\* panic(): pr.locking = 0.
Unlocked == locking' = FALSE

panic(h) == pc[h] = "panic" /\ Unlocked /\ Go(h, "first") /\ UNCHANGED <<started, lock, panicked, mine, left, next>>

\* Its two calls of printf().
says(h) ==
    /\ \/ pc[h] = "first" /\ Call(h, "second")
       \/ pc[h] = "second" /\ Call(h, "freeze")
    /\ UNCHANGED <<started, locking, lock, panicked>>

freeze(h) ==
    /\ pc[h] = "freeze" /\ panicked' = TRUE /\ Go(h, "frozen")
    /\ UNCHANGED <<started, locking, lock, mine, left, next>>

Halted == panicked /\ UNCHANGED vars

Step(h) == boot(h) \/ acquire(h) \/ put(h) \/ end(h) \/ panic(h) \/ says(h) \/ freeze(h)

Next == printfinit \/ start \/ Halted \/ \E h \in Harts : Step(h) \/ printf(h) \/ wrong(h) \/ fault(h)

Spec == Init /\ [][Next]_vars

-----------------------------------------------------------------------------
(* Properties.                                                             *)

TypeOK ==
    /\ started \in BOOLEAN /\ locking \in BOOLEAN /\ panicked \in BOOLEAN /\ lock \in Harts \union {NoHart}
    /\ pc \in [Harts -> {"init", "boot", "idle", "acquire", "put", "end", "panic", "first", "second", "freeze", "frozen"}]
    /\ mine \in [Harts -> BOOLEAN] /\ left \in [Harts -> 0 .. LEN] /\ next \in [Harts -> {"idle", "panic", "second", "freeze"}]

\* "lock to avoid interleaving concurrent printf's" (printf.c): until something is wrong,
\* no two messages are on the console at once, at boot included.
Unbroken ==
    Cardinality({h \in Harts : pc[h] \in {"put", "end"}}) > 1 => \E h \in Harts : pc[h] \in {"panic", "first", "second", "freeze", "frozen"} \/ next[h] # "idle"

=============================================================================
