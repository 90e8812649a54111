-------------------------------- MODULE Uart --------------------------------
(***************************************************************************)
(* Console output: uartputc(), uartputc_sync(), uartstart() and uartintr() *)
(* of kernel/uart.c, called by consolewrite(), and the transmitter of the  *)
(* UART.  Byte number k written by uartputc() is represented by k % WORD.  *)
(***************************************************************************)
EXTENDS Integers, Sequences

CONSTANTS
    Writers,            \* processes in consolewrite()
    Syncs,              \* harts that print or echo with uartputc_sync()
    intr,               \* the interrupt handler
    UART_TX_BUF_SIZE,
    FIFOSIZE,           \* bytes the transmit FIFO takes (uartinit() enables it)
    WORD                \* bound: values of the counters, which the code never lets wrap

UartAssumption ==
    /\ UART_TX_BUF_SIZE \in Nat \ {0} /\ WORD % UART_TX_BUF_SIZE = 0 /\ WORD > UART_TX_BUF_SIZE
    /\ FIFOSIZE \in Nat /\ intr \notin Writers \union Syncs

Threads == Writers \union Syncs \union {intr}

VARIABLES
    buf, uart_tx_r, uart_tx_w,
    lock,               \* who holds uart_tx_lock, or "free"
    pc,
    c,                  \* the byte each thread is about to give the UART
    thr,                \* bytes in the UART
    irq                 \* it asks for an interrupt: the transmitter has become empty

vars == <<buf, uart_tx_r, uart_tx_w, lock, pc, c, thr, irq>>

Sync == -1          \* a byte of uartputc_sync()
None == -2

Init ==
    /\ buf = [k \in 0 .. UART_TX_BUF_SIZE - 1 |-> None] /\ uart_tx_r = 0 /\ uart_tx_w = 0
    /\ lock = "free" /\ pc = [t \in Threads |-> "out"] /\ c = [t \in Threads |-> None]
    /\ thr = <<>> /\ irq = FALSE

\* Bytes in the buffer.
Buffered == (uart_tx_w - uart_tx_r) % WORD
Slot(k) == k % UART_TX_BUF_SIZE
Goto(t, l) == pc' = [pc EXCEPT ![t] = l]

-----------------------------------------------------------------------------
(* uartputc()                                                              *)

\* consolewrite() has another byte; the handler is entered.
enter(t) ==
    /\ pc[t] = "out"
    /\ t \in Writers \/ (t = intr /\ irq)
    /\ Goto(t, "acquire")
    /\ UNCHANGED <<buf, uart_tx_r, uart_tx_w, lock, c, thr, irq>>

\* The handler has only to call uartstart().
acquire(t) ==
    /\ pc[t] = "acquire" /\ lock = "free"
    /\ lock' = t /\ Goto(t, IF t = intr THEN "start" ELSE "put")
    /\ UNCHANGED <<buf, uart_tx_r, uart_tx_w, c, thr, irq>>

Full == Buffered = UART_TX_BUF_SIZE

\* sleep(&uart_tx_r, &uart_tx_lock)
sleep(t) ==
    /\ pc[t] = "put" /\ Full
    /\ lock' = "free" /\ Goto(t, "asleep")
    /\ UNCHANGED <<buf, uart_tx_r, uart_tx_w, c, thr, irq>>

\* The byte goes into the buffer; uartstart() follows.
put(t) ==
    /\ pc[t] = "put" /\ ~Full
    /\ buf' = [buf EXCEPT ![Slot(uart_tx_w)] = uart_tx_w]
    /\ uart_tx_w' = (uart_tx_w + 1) % WORD
    /\ Goto(t, "start")
    /\ UNCHANGED <<uart_tx_r, lock, c, thr, irq>>

-----------------------------------------------------------------------------
(* uartstart(): a turn of its loop is two steps, since the UART and        *)
(* uartputc_sync() act between the test of LSR and the store to THR.       *)

\* (mutant) LSR is not looked at
Mut_Idle == TRUE

Idle == thr = <<>>

\* Nothing to send (reading ISR acknowledges the interrupt), or the UART is busy.
start_ends(t) ==
    /\ pc[t] = "start"
    /\ \/ uart_tx_w = uart_tx_r /\ irq' = FALSE
       \/ uart_tx_w # uart_tx_r /\ ~Idle /\ UNCHANGED irq
    /\ lock' = "free" /\ Goto(t, "out")
    /\ UNCHANGED <<buf, uart_tx_r, uart_tx_w, c, thr>>

\* wakeup(&uart_tx_r)
Woken(pcs) == [t \in Threads |-> IF pcs[t] = "asleep" THEN "acquire" ELSE pcs[t]]

take(t) ==
    /\ pc[t] = "start" /\ uart_tx_w # uart_tx_r /\ Idle
    /\ c' = [c EXCEPT ![t] = buf[Slot(uart_tx_r)]]
    /\ buf' = [buf EXCEPT ![Slot(uart_tx_r)] = None]
    /\ uart_tx_r' = (uart_tx_r + 1) % WORD
    /\ pc' = Woken([pc EXCEPT ![t] = "store"])
    /\ UNCHANGED <<uart_tx_w, lock, thr, irq>>

\* WriteReg(THR, c), which also takes the interrupt away.
store(t) ==
    /\ pc[t] = "store"
    /\ thr' = Append(thr, c[t]) /\ irq' = FALSE
    /\ c' = [c EXCEPT ![t] = None]
    /\ Goto(t, IF t \in Syncs THEN "out" ELSE "start")
    /\ UNCHANGED <<buf, uart_tx_r, uart_tx_w, lock>>

-----------------------------------------------------------------------------
\* uartputc_sync(): wait until the UART is idle, with interrupts off and no lock.
uartputc_sync(t) ==
    /\ t \in Syncs /\ pc[t] = "out" /\ Idle
    /\ c' = [c EXCEPT ![t] = Sync] /\ Goto(t, "store")
    /\ UNCHANGED <<buf, uart_tx_r, uart_tx_w, lock, thr, irq>>

\* The UART sends a byte; when it has none left it asks for an interrupt.
transmit ==
    /\ thr # <<>>
    /\ thr' = Tail(thr) /\ irq' = (irq \/ Tail(thr) = <<>>)
    /\ UNCHANGED <<buf, uart_tx_r, uart_tx_w, lock, pc, c>>

-----------------------------------------------------------------------------
Kernel(t) == acquire(t) \/ sleep(t) \/ put(t) \/ start_ends(t) \/ take(t) \/ store(t)

Next == transmit \/ \E t \in Threads : enter(t) \/ uartputc_sync(t) \/ Kernel(t)

Spec == Init /\ [][Next]_vars

-----------------------------------------------------------------------------
(* Properties.                                                             *)

TypeOK ==
    /\ uart_tx_r \in 0 .. WORD - 1 /\ uart_tx_w \in 0 .. WORD - 1
    /\ lock \in Threads \union {"free"} /\ irq \in BOOLEAN
    /\ Buffered <= UART_TX_BUF_SIZE

\* The bytes between the two counters are the ones written and not yet sent, none
\* overwritten and none twice, and uartstart() takes them in order.
RingHolds ==
    /\ \A d \in 0 .. Buffered - 1 :
          buf[Slot(uart_tx_r + d)] = (uart_tx_r + d) % WORD
    /\ \A t \in Threads \ Syncs : pc[t] = "store" => c[t] = (uart_tx_r - 1) % WORD

\* uartputc_sync() does not take uart_tx_lock, so it may find the UART idle together
\* with uartstart() and with other harts; the transmit FIFO takes what they all store.
NoOverrun == Len(thr) <= FIFOSIZE

\* Output never stalls: when bytes are buffered and nobody is in uartstart(), the UART
\* is sending or asks for an interrupt.
NoStall ==
    uart_tx_w # uart_tx_r /\ lock = "free" => thr # <<>> \/ irq \/ \E t \in Syncs : pc[t] = "store"

\* A writer asleep in uartputc() waits for room that is not there.
NoLostWakeup == \A t \in Writers : pc[t] = "asleep" => Full

=============================================================================
