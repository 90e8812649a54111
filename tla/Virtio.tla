------------------------------- MODULE Virtio -------------------------------
(***************************************************************************)
(* The disk driver of kernel/virtio_disk.c and the device it talks to: a   *)
(* pool of NUM descriptors, the avail ring, the used ring, the completion  *)
(* interrupt.                                                              *)
(*                                                                         *)
(* A driver step is what happens under disk.vdisk_lock between two points  *)
(* where the device can look; the lock is held across such points.  A      *)
(* process has one request at a time and holds its buffer's sleep lock, so *)
(* a buffer is named by its process.  The device may finish requests in    *)
(* any order; it reads the descriptors when it fetches a request.  A ring  *)
(* entry or command header that has been consumed reads as NULL: nothing   *)
(* may depend on what is left there.                                       *)
(***************************************************************************)
EXTENDS Integers, FiniteSets

CONSTANTS
    Procs, NULL,
    NUM,            \* virtio.h: descriptors, and entries of each ring
    WORD,           \* number of values of the 16-bit ring indices
    Ops             \* VIRTIO_BLK_T_IN, VIRTIO_BLK_T_OUT

Desc == 0 .. NUM - 1

ASSUME VirtioAssumption ==
    /\ NUM \in Nat /\ 3 <= NUM /\ WORD \in Nat /\ NUM <= WORD /\ WORD % NUM = 0
    /\ NULL \notin Procs /\ "intr" \notin Procs \union {NULL}

VARIABLES
    free, desc, ops,            \* disk.free, disk.desc, disk.ops
    info,                       \* disk.info: buffer and status of a request
    avail, avail_idx,           \* disk.avail
    used, used_idx,             \* disk.used, written by the device
    seen,                       \* disk.used_idx: how far virtio_disk_intr() has looked
    bdisk,                      \* b->disk
    lock,                       \* vdisk_lock: a process, "intr" or NULL
    pc, head, want,             \* each process: its step, idx[0], what it asked for
    irq,                        \* INTERRUPT_STATUS
    fetched, flight,            \* the device: avail entries fetched, requests in progress
    moved                       \* processes whose request the device has carried out

driver == <<free, desc, ops, info, avail, avail_idx, seen, bdisk, lock, pc, head, want>>
device == <<used, used_idx, irq, fetched, flight, moved>>
vars   == <<driver, device>>

Blank == [addr |-> NULL, next |-> 0, more |-> FALSE]
Descriptors == [addr : Procs \union Desc \union {NULL}, next : Desc, more : BOOLEAN]
Requests    == [id : Desc, op : Ops \union {NULL}, buf : Procs \union {NULL}, status : Desc]

TypeOK ==
    /\ free \in SUBSET Desc /\ desc \in [Desc -> Descriptors] /\ ops \in [Desc -> Ops \union {NULL}]
    /\ info \in [Desc -> [b : Procs \union {NULL}, status : {"0", "ff"}]]
    /\ avail \in [Desc -> Desc \union {NULL}] /\ avail_idx \in 0 .. WORD - 1
    /\ used \in [Desc -> Desc \union {NULL}] /\ used_idx \in 0 .. WORD - 1 /\ seen \in 0 .. WORD - 1
    /\ bdisk \in [Procs -> BOOLEAN] /\ lock \in Procs \union {"intr", NULL}
    /\ pc \in [Procs -> {"run", "alloc", "nofree", "notify", "wait", "check"}]
    /\ head \in [Procs -> Desc] /\ want \in [Procs -> Ops \union {NULL}]
    /\ irq \in BOOLEAN /\ fetched \in 0 .. WORD - 1
    /\ flight \in SUBSET Requests /\ moved \in SUBSET Procs

\* virtio_disk_init()
Init ==
    /\ free = Desc /\ desc = [d \in Desc |-> Blank] /\ ops = [d \in Desc |-> NULL]
    /\ info = [d \in Desc |-> [b |-> NULL, status |-> "0"]]
    /\ avail = [d \in Desc |-> NULL] /\ avail_idx = 0
    /\ used = [d \in Desc |-> NULL] /\ used_idx = 0 /\ seen = 0
    /\ bdisk = [p \in Procs |-> FALSE] /\ lock = NULL
    /\ pc = [p \in Procs |-> "run"] /\ head = [p \in Procs |-> 0]
    /\ want = [p \in Procs |-> NULL]
    /\ irq = FALSE /\ fetched = 0 /\ flight = {} /\ moved = {}

-----------------------------------------------------------------------------
(* virtio_disk_rw()                                                        *)

\* wakeup(&disk.free[0]), by every free_desc().
Wake_free == [q \in Procs |-> IF pc[q] = "nofree" THEN "alloc" ELSE pc[q]]

\* bread() or bwrite() calls the driver.
call(p, op) ==
    /\ pc[p] = "run"
    /\ pc' = [pc EXCEPT ![p] = "alloc"] /\ want' = [want EXCEPT ![p] = op]
    /\ UNCHANGED <<free, desc, ops, info, avail, avail_idx, seen, bdisk, lock, head, device>>

\* alloc_desc(): the k-th lowest free descriptor.
Nth(k) == CHOOSE d \in free : Cardinality({e \in free : e <= d}) = k

\* alloc3_desc() fails: what it took is given back, which wakes the others, and
\* the process goes to sleep on &disk.free[0].
alloc_fails(p) ==
    /\ pc[p] = "alloc" /\ lock = NULL /\ Cardinality(free) < 3
    /\ pc' = [(IF free = {} THEN pc ELSE Wake_free) EXCEPT ![p] = "nofree"]
    /\ desc' = [d \in Desc |-> IF d \in free THEN Blank ELSE desc[d]]
    /\ UNCHANGED <<free, ops, info, avail, avail_idx, seen, bdisk, lock, head, want, device>>

\* alloc3_desc() succeeds; the chain is formatted and put in the avail ring.
submit(p) ==
    /\ pc[p] = "alloc" /\ lock = NULL /\ Cardinality(free) >= 3
    /\ LET d0 == Nth(1)
           d1 == Nth(2)
           d2 == Nth(3)
       IN  /\ free' = free \ {d0, d1, d2}
           /\ ops' = [ops EXCEPT ![d0] = want[p]]
           /\ desc' = [desc EXCEPT ![d0] = [addr |-> d0, next |-> d1, more |-> TRUE],
                                   ![d1] = [addr |-> p, next |-> d2, more |-> TRUE],
                                   ![d2] = [addr |-> d0, next |-> 0, more |-> FALSE]]
           /\ info' = [info EXCEPT ![d0] = [b |-> p, status |-> "ff"]]
           /\ avail' = [avail EXCEPT ![avail_idx % NUM] = d0]
           /\ head' = [head EXCEPT ![p] = d0]
    /\ bdisk' = [bdisk EXCEPT ![p] = TRUE]
    /\ pc' = [pc EXCEPT ![p] = "notify"] /\ lock' = p
    /\ UNCHANGED <<avail_idx, seen, want, device>>

\* Ring indices wrap at 16 bits.
Succ(k) == (k + 1) % WORD

\* The new index and QUEUE_NOTIFY make the request visible; then sleep(b).
notify(p) ==
    /\ pc[p] = "notify"
    /\ avail_idx' = Succ(avail_idx)
    /\ pc' = [pc EXCEPT ![p] = IF bdisk[p] THEN "wait" ELSE "check"] /\ lock' = NULL
    /\ UNCHANGED <<free, desc, ops, info, avail, seen, bdisk, head, want, device>>

\* free_chain(): the descriptors from d on, following next.
Chain(d) ==
    {d} \union IF ~desc[d].more THEN {}
               ELSE {desc[d].next} \union
                    IF ~desc[desc[d].next].more THEN {} ELSE {desc[desc[d].next].next}

\* while(b->disk == 1)
Busy(p) == bdisk[p]

\* sleep(b) returns: sleep again, or give the chain back and return.
check(p) ==
    /\ pc[p] = "check" /\ lock = NULL
    /\ IF Busy(p)
       THEN /\ pc' = [pc EXCEPT ![p] = "wait"]
            /\ UNCHANGED <<free, desc, ops, info, head, want, moved>>
       ELSE /\ pc' = [Wake_free EXCEPT ![p] = "run"]
            /\ info' = [info EXCEPT ![head[p]].b = NULL]
            /\ free' = free \union Chain(head[p])
            /\ desc' = [d \in Desc |-> IF d \in Chain(head[p]) THEN Blank ELSE desc[d]]
            /\ ops' = [ops EXCEPT ![head[p]] = NULL]
            /\ moved' = moved \ {p}
            /\ head' = [head EXCEPT ![p] = 0] /\ want' = [want EXCEPT ![p] = NULL]
    /\ UNCHANGED <<avail, avail_idx, seen, bdisk, lock, used, used_idx, irq, fetched, flight>>

\* kill() makes a sleeping process runnable before anybody calls wakeup().
kill(p) ==
    /\ pc[p] \in {"nofree", "wait"}
    /\ pc' = [pc EXCEPT ![p] = IF @ = "wait" THEN "check" ELSE "alloc"]
    /\ UNCHANGED <<free, desc, ops, info, avail, avail_idx, seen, bdisk, lock, head, want, device>>

-----------------------------------------------------------------------------
(* virtio_disk_intr()                                                      *)

\* INTERRUPT_ACK: the device may raise the next interrupt.
intr_begin ==
    /\ lock = NULL /\ irq
    /\ lock' = "intr" /\ irq' = FALSE
    /\ UNCHANGED <<free, desc, ops, info, avail, avail_idx, seen, bdisk, pc, head, want, used,
                   used_idx, fetched, flight, moved>>

Completed == used[seen % NUM]

\* (mutant) an interrupt is taken to finish every request
Mut_Finished == {p \in Procs : pc[p] = "wait"}

Finished == {info[Completed].b}

\* One completed request; info[id].b is the buffer to give back.
intr_entry ==
    /\ lock = "intr" /\ seen # used_idx
    /\ Completed \in Desc /\ info[Completed].status = "0"
    /\ bdisk' = [p \in Procs |-> bdisk[p] /\ p \notin Finished]
    /\ pc' = [p \in Procs |-> IF p \in Finished /\ pc[p] = "wait" THEN "check" ELSE pc[p]]
    /\ used' = [used EXCEPT ![seen % NUM] = NULL]
    /\ seen' = Succ(seen)
    /\ UNCHANGED <<free, desc, ops, info, avail, avail_idx, lock, head, want, used_idx, irq,
                   fetched, flight, moved>>

intr_end ==
    /\ lock = "intr" /\ seen = used_idx
    /\ lock' = NULL
    /\ UNCHANGED <<free, desc, ops, info, avail, avail_idx, seen, bdisk, pc, head, want, device>>

-----------------------------------------------------------------------------
(* The device.                                                             *)

\* The request whose first descriptor is d, as the descriptors say now.
Request(d) == [id |-> d, op |-> ops[d], buf |-> desc[desc[d].next].addr,
               status |-> desc[desc[desc[d].next].next].addr]

fetch ==
    /\ fetched # avail_idx
    /\ flight' = flight \union {Request(avail[fetched % NUM])}
    /\ avail' = [avail EXCEPT ![fetched % NUM] = NULL]
    /\ fetched' = (fetched + 1) % WORD
    /\ UNCHANGED <<free, desc, ops, info, avail_idx, seen, bdisk, lock, pc, head, want, used,
                   used_idx, irq, moved>>

\* The transfer, the status byte, the used ring and the interrupt.
complete(r) ==
    /\ r \in flight /\ flight' = flight \ {r}
    /\ moved' = moved \union {r.buf}
    /\ info' = [info EXCEPT ![r.status].status = "0"]
    /\ used' = [used EXCEPT ![used_idx % NUM] = r.id]
    /\ used_idx' = (used_idx + 1) % WORD
    /\ irq' = TRUE
    /\ UNCHANGED <<free, desc, ops, avail, avail_idx, seen, bdisk, lock, pc, head, want, fetched>>

-----------------------------------------------------------------------------
Driver(p) == alloc_fails(p) \/ submit(p) \/ notify(p)

Next ==
    \/ \E p \in Procs : Driver(p) \/ check(p) \/ kill(p) \/ \E op \in Ops : call(p, op)
    \/ intr_begin \/ intr_entry \/ intr_end
    \/ fetch \/ \E r \in flight : complete(r)

Spec == Init /\ [][Next]_vars

\* The device gets to every request, interrupts are delivered, and a hart that spins for
\* vdisk_lock gets it in the end.
Fairness ==
    /\ \A p \in Procs : WF_vars(Driver(p)) /\ SF_vars(check(p))
    /\ SF_vars(intr_begin) /\ WF_vars(intr_entry) /\ WF_vars(intr_end)
    /\ WF_vars(fetch)
    /\ \A p \in Procs : WF_vars(\E r \in flight : r.buf = p /\ complete(r))

FairSpec == Spec /\ Fairness

-----------------------------------------------------------------------------
(* Properties.                                                             *)

Submitted(p) == pc[p] \in {"notify", "wait", "check"}

\* virtio_disk_rw() returns only when the device has carried out its own request.
OwnRequest == \A p \in Procs : pc[p] = "check" /\ ~bdisk[p] => p \in moved

\* What is in a ring from one index up to another.
Window(ring, lo, hi) == {ring[(lo + j) % NUM] : j \in 0 .. ((hi - lo) % WORD) - 1}
Pending == Window(avail, fetched, avail_idx)

\* What the device fetches is the request somebody is waiting for: its buffer, its
\* direction, and a status byte of its own, never a chain given back and reused.
DeviceSeesRequest ==
    Pending \subseteq Desc /\ \A r \in flight \union {Request(d) : d \in Pending} :
       /\ r.buf \in Procs /\ Submitted(r.buf) /\ bdisk[r.buf] /\ r.buf \notin moved
       /\ r.id = head[r.buf] /\ r.status = r.id /\ r.op = want[r.buf]

\* alloc3_desc() and free_chain() neither lose nor share a descriptor: the free ones
\* and the three of every request in progress are all of them.
DescriptorsAccounted ==
    /\ \A p, q \in Procs : p # q /\ Submitted(p) /\ Submitted(q) =>
          Chain(head[p]) \intersect Chain(head[q]) = {}
    /\ \A p \in Procs : Submitted(p) => Cardinality(Chain(head[p])) = 3
    /\ free = Desc \ UNION {Chain(head[p]) : p \in {q \in Procs : Submitted(q)}}

\* virtio_disk_intr() finds status 0 and a waiting buffer for every entry, so
\* panic("virtio_disk_intr status") is not reached.
IntrFindsRequest ==
    lock = "intr" /\ seen # used_idx =>
        /\ Completed \in Desc /\ info[Completed].status = "0"
        /\ info[Completed].b \in moved /\ bdisk[info[Completed].b]

\* virtio_disk_rw(), virtio_disk_intr(), alloc3_desc(), free_chain(): a call returns only
\* when the device has carried out its own request, in whatever order completions and
\* interrupts come; the device never fetches a chain that was given back, the handler
\* never meets an id without a request, and every descriptor is free or part of one
\* request.
ReturnsServed ==
    TypeOK /\ OwnRequest /\ DeviceSeesRequest /\ IntrFindsRequest /\ DescriptorsAccounted

\* A process asleep for descriptors has requests in progress whose end wakes it.
NoLostWakeup == \A p \in Procs : pc[p] = "nofree" => \E q \in Procs : Submitted(q)

\* Every submitted request returns, and who sleeps for descriptors is woken.
Served == \A p \in Procs : /\ pc[p] = "wait" ~> pc[p] = "run"
                           /\ pc[p] = "nofree" ~> pc[p] # "nofree"

=============================================================================
