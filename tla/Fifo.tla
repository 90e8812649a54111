-------------------------------- MODULE Fifo --------------------------------
(***************************************************************************)
(* What a pipe promises: bytes come out in the order they went in, each    *)
(* once, at most Size of them in between.  A byte whose copyout() fails is *)
(* gone: piperead() has already taken it (kernel/pipe.c:123).              *)
(***************************************************************************)
EXTENDS Naturals, Sequences
CONSTANTS Procs, Bytes, Size

VARIABLES
    queue,      \* bytes on their way
    buf         \* what each process has received in its current read()

fvars == <<queue, buf>>

FInit == queue = <<>> /\ buf = [p \in Procs |-> <<>>]

Send(b) == Len(queue) < Size /\ queue' = Append(queue, b) /\ UNCHANGED buf

Receive(p) ==
    /\ queue # <<>>
    /\ buf' = [buf EXCEPT ![p] = Append(@, Head(queue))]
    /\ queue' = Tail(queue)

\* A call ends, having lost a byte or not.
End(p) ==
    /\ buf' = [buf EXCEPT ![p] = <<>>]
    /\ \/ UNCHANGED queue
       \/ queue # <<>> /\ queue' = Tail(queue)

FNext ==
    \/ \E b \in Bytes : Send(b)
    \/ \E p \in Procs : Receive(p) \/ End(p)

FSpec == FInit /\ [][FNext]_fvars
=============================================================================
