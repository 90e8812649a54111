----------------------------- MODULE PipeProofs -----------------------------
(***************************************************************************)
(* Proofs about Pipe, for any readers and writers, any PIPESIZE and any    *)
(* word size that is a multiple of it.                                     *)
(***************************************************************************)
EXTENDS Pipe, SequenceTheorems, TLAPS

\* Zenon proves most leaves; the others name their prover.
USE Zenon

Held == {"wloop", "wsleep", "rwait", "rsleep", "rcopy"}
Reading == {"rlock", "rwait", "rsleep", "rasleep", "rcopy"}
Writing == {"wlock", "wloop", "wsleep", "wasleep"}

\* pi->lock is held by exactly the process that is between acquire() and release().
LockRight == \A p \in Procs : lock = p <=> pc[p] \in Held

\* A process in a call has the end open; the one on its way to pipeclose() was the
\* last, and what pipeclose() has closed nobody has open.
EndsRight ==
    /\ \A p \in Procs : /\ pc[p] \in Reading => p \in rd
                        /\ pc[p] \in Writing => p \in wr
                        /\ pc[p] = "rclose" => rd = {} /\ readopen
                        /\ pc[p] = "wclose" => wr = {} /\ writeopen
    /\ \A p, q \in Procs : /\ pc[p] = "rclose" /\ pc[q] = "rclose" => p = q
                           /\ pc[p] = "wclose" /\ pc[q] = "wclose" => p = q
    /\ ~readopen => rd = {}
    /\ ~writeopen => wr = {}
    /\ freed <=> ~readopen /\ ~writeopen

PipeInv == TypeOK /\ LockRight /\ EndsRight /\ EofAtEnd

\* The counters and the indices stay in range.
LEMMA Modulo == \A k \in Nat : k % WORD \in 0 .. WORD - 1 /\ k % PIPESIZE \in 0 .. PIPESIZE - 1
BY PipeAssumption, SMT

\* The initial state of the pipe satisfies the invariant.
LEMMA PipeInit == Init => PipeInv
<1> SUFFICES ASSUME Init PROVE PipeInv
    OBVIOUS
<1>1. TypeOK
    BY PipeAssumption, SMT DEF Init, TypeOK, Labels, Counts, Procs
<1>2. LockRight /\ EndsRight /\ EofAtEnd
    BY PipeAssumption DEF Init, LockRight, EndsRight, EofAtEnd, Held, Reading, Writing, Procs
<1> QED BY <1>1, <1>2 DEF PipeInv

\* wakeup() moves only the sleepers of its channel, to the lock they had.
LEMMA WakeRight ==
    ASSUME NEW pcs \in [Procs -> Labels], NEW chan \in {"nread", "nwrite"}
    PROVE  /\ Wake(pcs, chan) \in [Procs -> Labels]
           /\ \A q \in Procs :
                /\ Wake(pcs, chan)[q] # pcs[q] =>
                       \/ pcs[q] = "rasleep" /\ Wake(pcs, chan)[q] = "rlock" /\ chan = "nread"
                       \/ pcs[q] = "wasleep" /\ Wake(pcs, chan)[q] = "wlock" /\ chan = "nwrite"
                /\ chan = "nread" => Wake(pcs, chan)[q] # "rasleep"
                /\ chan = "nwrite" => Wake(pcs, chan)[q] # "wasleep"
BY DEF Wake, Labels

\* TypeOK, step by step.
LEMMA TypeStep == TypeOK /\ [Next]_vars => TypeOK'
<1> SUFFICES ASSUME TypeOK, [Next]_vars PROVE TypeOK'
    OBVIOUS
<1> USE DEF TypeOK
<1>p. ASSUME NEW p \in Procs, Kernel(p) \/ write(p) \/ read(p) \/ close(p) \/ kill(p)
      PROVE  TypeOK'
  <2>1. CASE acquire(p) \/ sleep(p)
      BY <2>1 DEF acquire, sleep, Goto, Labels, pipe
  <2>2. CASE write_fails(p) \/ read_fails(p)
    <3>1. pc' \in [Procs -> Labels] /\ Leave(p) /\ UNCHANGED <<pipe, rd, wr, killed>>
        BY <2>2 DEF write_fails, read_fails, Goto, Labels
    <3>2. /\ lock' \in Procs \union {NULL}
          /\ n' \in [Procs -> Counts] /\ i' \in [Procs -> Counts] /\ buf' \in [Procs -> Seq(Bytes)]
        BY <3>1, PipeAssumption, SMT DEF Leave, Counts
    <3> QED BY <3>1, <3>2 DEF pipe
  <2>3. CASE write_full(p)
      BY <2>3, WakeRight DEF write_full, pipe, Labels
  <2>4. ASSUME NEW chan \in {"nread", "nwrite"}, Return(p, chan)
        PROVE  /\ pc' \in [Procs -> Labels] /\ lock' \in Procs \union {NULL}
               /\ n' \in [Procs -> Counts] /\ i' \in [Procs -> Counts] /\ buf' \in [Procs -> Seq(Bytes)]
    <3>1. Wake(pc, chan) \in [Procs -> Labels]
        BY WakeRight
    <3> QED BY <2>4, <3>1, PipeAssumption, SMT DEF Return, Leave, Labels, Counts
  <2>5. CASE write_returns(p)
      BY <2>4, <2>5 DEF write_returns, pipe
  <2>6. ASSUME NEW ch \in Bytes, write_byte(p, ch) PROVE TypeOK'
    <3>1. nwrite' \in 0 .. WORD - 1
        BY <2>6, Modulo, SMT DEF write_byte
    <3>2. i' \in [Procs -> Counts]
        BY <2>6, PipeAssumption, SMT DEF write_byte, Counts
    <3> QED BY <2>6, <3>1, <3>2 DEF write_byte
  <2>7. CASE read_wait(p)
      BY <2>7 DEF read_wait, Goto, Labels, pipe
  <2>8. CASE read_byte(p)
    <3>1. nread' \in 0 .. WORD - 1
        BY <2>8, Modulo, SMT DEF read_byte
    <3>2. i' \in [Procs -> Counts]
        BY <2>8, PipeAssumption, SMT DEF read_byte, Counts
    <3>3. data[Slot(nread)] \in Bytes
        BY Modulo, SMT DEF Slot
    <3>4. buf' \in [Procs -> Seq(Bytes)]
        BY <2>8, <3>3, SMT DEF read_byte
    <3> QED BY <2>8, <3>1, <3>2, <3>4 DEF read_byte
  <2>9. CASE read_drops(p)
    <3>1. nread' \in 0 .. WORD - 1
        BY <2>9, Modulo, SMT DEF read_drops
    <3> QED BY <2>4, <2>9, <3>1 DEF read_drops
  <2>10. CASE read_returns(p)
      BY <2>4, <2>10 DEF read_returns, pipe
  <2>11. CASE pipeclose(p)
    <3>1. Wake(pc, "nread") \in [Procs -> Labels] /\ Wake(pc, "nwrite") \in [Procs -> Labels]
        BY WakeRight
    <3>2. pc' \in [Procs -> Labels]
        BY <2>11, <3>1 DEF pipeclose, Labels
    <3>3. readopen' \in BOOLEAN /\ writeopen' \in BOOLEAN
        BY <2>11 DEF pipeclose
    <3>4. freed' \in BOOLEAN
        BY <2>11, <3>3 DEF pipeclose, Unused
    <3>5. /\ nread' = nread /\ nwrite' = nwrite /\ data' = data /\ lock' = lock /\ rd' = rd /\ wr' = wr
          /\ n' = n /\ i' = i /\ buf' = buf /\ killed' = killed
        BY <2>11 DEF pipeclose
    <3> QED BY <3>2, <3>3, <3>4, <3>5
  <2>12. CASE write(p) \/ read(p)
    <3>1. n' \in [Procs -> Counts]
        BY <2>12, PipeAssumption, SMT DEF write, read, Counts
    <3>2. pc' \in [Procs -> Labels]
        BY <2>12 DEF write, read, Goto, Labels
    <3> QED BY <2>12, <3>1, <3>2 DEF write, read, pipe
  <2>13. CASE close(p)
      BY <2>13 DEF close, Goto, Labels, pipe
  <2>14. CASE kill(p)
      BY <2>14 DEF kill, Labels, pipe
  <2> QED BY <1>p, <2>1, <2>2, <2>3, <2>5, <2>6, <2>7, <2>8, <2>9, <2>10, <2>11, <2>12, <2>13, <2>14 DEF Kernel
<1>s. CASE UNCHANGED vars
    BY <1>s DEF vars, pipe
<1> QED BY <1>p, <1>s DEF Next, Finished

\* pi->lock: taken by acquire(), given back by sleep() and at every return.
LEMMA LockStep == TypeOK /\ LockRight /\ [Next]_vars => LockRight'
<1> SUFFICES ASSUME TypeOK, LockRight, [Next]_vars PROVE LockRight'
    OBVIOUS
<1>n. NULL \notin Procs
    BY PipeAssumption DEF Procs
<1> USE DEF LockRight, Held
<1>t. pc \in [Procs -> Labels]
    BY DEF TypeOK
<1>p. ASSUME NEW p \in Procs, Kernel(p) \/ write(p) \/ read(p) \/ close(p) \/ kill(p)
      PROVE  LockRight'
  <2>1. CASE acquire(p) \/ sleep(p)
      BY <1>n, <1>t, <2>1 DEF acquire, sleep, Goto
  <2>2. CASE write_fails(p) \/ read_fails(p)
      BY <1>n, <1>t, <2>2 DEF write_fails, read_fails, Goto, Leave
  <2>3. CASE write_full(p)
    <3>1. \A q \in Procs : Wake(pc, "nread")[q] # pc[q] => pc[q] = "rasleep" /\ Wake(pc, "nread")[q] = "rlock"
        BY <1>t, WakeRight, SMT
    <3>2. Wake(pc, "nread") \in [Procs -> Labels]
        BY <1>t, WakeRight
    <3> QED BY <1>t, <2>3, <3>1, <3>2 DEF write_full
  <2>4. ASSUME NEW chan \in {"nread", "nwrite"}, Return(p, chan), pc[p] \in Held PROVE LockRight'
    <3>1. \A q \in Procs : Wake(pc, chan)[q] # pc[q] =>
              pc[q] \in {"rasleep", "wasleep"} /\ Wake(pc, chan)[q] \in {"rlock", "wlock"}
        BY <1>t, WakeRight, SMT
    <3>2. Wake(pc, chan) \in [Procs -> Labels]
        BY <1>t, WakeRight
    <3> QED BY <1>n, <1>t, <2>4, <3>1, <3>2 DEF Return, Leave
  <2>5. CASE write_returns(p) \/ read_drops(p) \/ read_returns(p)
      BY <2>4, <2>5 DEF write_returns, read_drops, read_returns
  <2>6. ASSUME NEW ch \in Bytes, write_byte(p, ch) PROVE LockRight'
      BY <2>6 DEF write_byte
  <2>7. CASE read_wait(p)
      BY <1>t, <2>7 DEF read_wait, Goto
  <2>8. CASE read_byte(p)
      BY <2>8 DEF read_byte
  <2>9. CASE pipeclose(p)
    <3>1. PICK chan \in {"nread", "nwrite"} : pc' = [Wake(pc, chan) EXCEPT ![p] = "user"]
        BY <2>9 DEF pipeclose
    <3>2. \A q \in Procs : Wake(pc, chan)[q] # pc[q] =>
              pc[q] \in {"rasleep", "wasleep"} /\ Wake(pc, chan)[q] \in {"rlock", "wlock"}
        BY <1>t, WakeRight, SMT
    <3>3. Wake(pc, chan) \in [Procs -> Labels]
        BY <1>t, WakeRight
    <3> QED BY <1>n, <1>t, <2>9, <3>1, <3>2, <3>3 DEF pipeclose
  <2>10. CASE write(p) \/ read(p)
      BY <1>t, <2>10 DEF write, read, Goto
  <2>11. CASE close(p)
      BY <1>t, <2>11 DEF close, Goto
  <2>12. CASE kill(p)
      BY <1>t, <2>12 DEF kill
  <2> QED BY <1>p, <2>1, <2>2, <2>3, <2>5, <2>6, <2>7, <2>8, <2>9, <2>10, <2>11, <2>12 DEF Kernel
<1>s. CASE UNCHANGED vars
    BY <1>s DEF vars
<1> QED BY <1>p, <1>s DEF Next, Finished

\* What every step does to the places of the processes, except the calls that start,
\* close() and pipeclose(): nobody comes to an end of the pipe it does not have.
Quiet ==
    /\ rd' = rd /\ wr' = wr /\ readopen' = readopen /\ writeopen' = writeopen /\ freed' = freed
    /\ \A q \in Procs : /\ pc'[q] \in Reading => pc[q] \in Reading \/ q \in rd
                        /\ pc'[q] \in Writing => pc[q] \in Writing \/ q \in wr
                        /\ pc'[q] = "rclose" => pc[q] = "rclose"
                        /\ pc'[q] = "wclose" => pc[q] = "wclose"

\* A step that leaves the ends alone keeps what is known of them.
LEMMA QuietEnds == EndsRight /\ Quiet => EndsRight'
BY SMT DEF EndsRight, Quiet

\* The steps that leave the ends of the pipe alone.
LEMMA QuietSteps ==
    ASSUME TypeOK, NEW p \in Procs, Kernel(p) \/ write(p) \/ read(p) \/ kill(p), ~pipeclose(p)
    PROVE  Quiet
<1>t. pc \in [Procs -> Labels]
    BY DEF TypeOK
<1> USE DEF Quiet, Reading, Writing
<1>1. CASE acquire(p) \/ sleep(p)
    BY <1>t, <1>1 DEF acquire, sleep, Goto, pipe
<1>2. CASE write_fails(p) \/ read_fails(p)
    BY <1>t, <1>2 DEF write_fails, read_fails, Goto, pipe
<1>3. ASSUME NEW chan \in {"nread", "nwrite"}, NEW l \in {"user", "wsleep"},
             pc' = [Wake(pc, chan) EXCEPT ![p] = l], l = "wsleep" => pc[p] = "wloop",
             rd' = rd /\ wr' = wr /\ readopen' = readopen /\ writeopen' = writeopen /\ freed' = freed
      PROVE  Quiet
  <2>1. Wake(pc, chan) \in [Procs -> Labels]
      BY <1>t, WakeRight
  <2>2. \A q \in Procs : Wake(pc, chan)[q] # pc[q] =>
            \/ pc[q] = "rasleep" /\ Wake(pc, chan)[q] = "rlock"
            \/ pc[q] = "wasleep" /\ Wake(pc, chan)[q] = "wlock"
      BY <1>t, WakeRight, SMT
  <2> QED BY <1>t, <1>3, <2>1, <2>2
<1>4. CASE write_full(p)
    BY <1>3, <1>4 DEF write_full, pipe
<1>5. CASE write_returns(p) \/ read_drops(p) \/ read_returns(p)
    BY <1>3, <1>5 DEF write_returns, read_drops, read_returns, Return, pipe
<1>6. ASSUME NEW ch \in Bytes, write_byte(p, ch) PROVE Quiet
    BY <1>6 DEF write_byte
<1>7. CASE read_wait(p)
    BY <1>t, <1>7 DEF read_wait, Goto, pipe
<1>8. CASE read_byte(p)
    BY <1>8 DEF read_byte
<1>9. CASE write(p) \/ read(p)
    BY <1>t, <1>9 DEF write, read, Goto, pipe
<1>10. CASE kill(p)
    BY <1>t, <1>10 DEF kill, pipe
<1> QED BY <1>1, <1>2, <1>4, <1>5, <1>6, <1>7, <1>8, <1>9, <1>10 DEF Kernel

\* The ends of the pipe, through close() and pipeclose().
LEMMA EndsStep == TypeOK /\ EndsRight /\ [Next]_vars => EndsRight'
<1> SUFFICES ASSUME TypeOK, EndsRight, [Next]_vars PROVE EndsRight'
    OBVIOUS
<1>t. pc \in [Procs -> Labels]
    BY DEF TypeOK
<1>1. ASSUME NEW p \in Procs, close(p) PROVE EndsRight'
  <2>1. CASE p \in rd /\ rd' = rd \ {p} /\ wr' = wr
             /\ Goto(p, IF rd' = {} THEN "rclose" ELSE "user")
    <3>1. /\ readopen /\ readopen' = readopen /\ writeopen' = writeopen /\ freed' = freed
          /\ \A q \in Procs : pc[q] # "rclose"
        BY <1>1, <2>1 DEF close, EndsRight, pipe
    <3> QED BY <1>t, <1>1, <2>1, <3>1 DEF close, EndsRight, Goto, Reading, Writing
  <2>2. CASE p \in wr /\ wr' = wr \ {p} /\ rd' = rd
             /\ Goto(p, IF wr' = {} THEN "wclose" ELSE "user")
    <3>1. /\ writeopen /\ readopen' = readopen /\ writeopen' = writeopen /\ freed' = freed
          /\ \A q \in Procs : pc[q] # "wclose"
        BY <1>1, <2>2 DEF close, EndsRight, pipe
    <3> QED BY <1>t, <1>1, <2>2, <3>1 DEF close, EndsRight, Goto, Reading, Writing
  <2> QED BY <1>1, <2>1, <2>2 DEF close
<1>2. ASSUME NEW p \in Procs, pipeclose(p) PROVE EndsRight'
  <2>1. PICK chan \in {"nread", "nwrite"} : pc' = [Wake(pc, chan) EXCEPT ![p] = "user"]
      BY <1>2 DEF pipeclose
  <2>2. /\ Wake(pc, chan) \in [Procs -> Labels]
        /\ \A q \in Procs : Wake(pc, chan)[q] # pc[q] =>
              \/ pc[q] = "rasleep" /\ Wake(pc, chan)[q] = "rlock"
              \/ pc[q] = "wasleep" /\ Wake(pc, chan)[q] = "wlock"
      BY <1>t, WakeRight, SMT
  <2>3. \A q \in Procs : /\ pc'[q] \in Reading => pc[q] \in Reading
                         /\ pc'[q] \in Writing => pc[q] \in Writing
                         /\ pc'[q] = "rclose" => pc[q] = "rclose" /\ q # p
                         /\ pc'[q] = "wclose" => pc[q] = "wclose" /\ q # p
      BY <1>t, <2>1, <2>2 DEF Reading, Writing
  <2>4. freed' <=> ~readopen' /\ ~writeopen'
      BY <1>2 DEF pipeclose, Unused
  <2>5. CASE pc[p] = "wclose"
    <3>1. wr = {} /\ writeopen' = FALSE /\ readopen' = readopen /\ rd' = rd /\ wr' = wr
        BY <1>2, <2>5 DEF pipeclose, EndsRight
    <3> QED BY <2>3, <2>4, <2>5, <3>1 DEF EndsRight
  <2>6. CASE pc[p] = "rclose"
    <3>1. rd = {} /\ readopen' = FALSE /\ writeopen' = writeopen /\ rd' = rd /\ wr' = wr
        BY <1>2, <2>6 DEF pipeclose, EndsRight
    <3> QED BY <2>3, <2>4, <2>6, <3>1 DEF EndsRight
  <2> QED BY <1>2, <2>5, <2>6 DEF pipeclose
<1>3. CASE UNCHANGED vars
    BY <1>3 DEF vars, pipe, EndsRight
<1> QED BY <1>1, <1>2, <1>3, QuietSteps, QuietEnds DEF Next, Finished, Kernel

\* A process that reaches the copying loop of piperead() comes from its waiting loop;
\* the counters and the lock-free copy of i belong to the process with the lock.
LEMMA CopyStep ==
    ASSUME TypeOK, LockRight, NEW p \in Procs, NEW q \in Procs,
           Kernel(q) \/ write(q) \/ read(q) \/ close(q) \/ kill(q),
           pc'[p] = "rcopy"
    PROVE  \/ q = p /\ read_wait(p) /\ ~Waits(p)
           \/ q = p /\ read_byte(p)
           \/ /\ pc[p] = "rcopy" /\ i'[p] = i[p] /\ nread' = nread /\ nwrite' = nwrite
              /\ writeopen' => writeopen
<1>t. pc \in [Procs -> Labels]
    BY DEF TypeOK
<1>i. i \in [Procs -> Counts]
    BY DEF TypeOK
<1>w. ASSUME NEW chan \in {"nread", "nwrite"}, NEW l \in {"user", "wsleep"},
             pc' = [Wake(pc, chan) EXCEPT ![q] = l]
      PROVE  pc[p] = "rcopy" /\ q # p
  <2>1. /\ Wake(pc, chan) \in [Procs -> Labels]
        /\ Wake(pc, chan)[p] # pc[p] => Wake(pc, chan)[p] \in {"rlock", "wlock"}
      BY <1>t, WakeRight, SMT
  <2> QED BY <1>t, <1>w, <2>1
<1>o. pc[p] = "rcopy" /\ q # p => pc[q] \notin Held
    BY DEF LockRight, Held
<1>1. CASE acquire(q) \/ sleep(q)
    BY <1>t, <1>1 DEF acquire, sleep, Goto, pipe
<1>2. CASE write_fails(q) \/ read_fails(q)
    BY <1>t, <1>i, <1>2 DEF write_fails, read_fails, Goto, Leave, pipe
<1>3. CASE write_full(q)
    BY <1>t, <1>w, <1>3 DEF write_full, pipe
<1>4. CASE write_returns(q) \/ read_drops(q) \/ read_returns(q)
  <2>1. pc[p] = "rcopy" /\ q # p
      BY <1>w, <1>4 DEF write_returns, read_drops, read_returns, Return
  <2> QED BY <1>o, <1>4, <2>1 DEF write_returns, read_drops, read_returns, Held
<1>5. ASSUME NEW ch \in Bytes, write_byte(q, ch) PROVE FALSE
    BY <1>o, <1>5 DEF write_byte, Held
<1>6. CASE read_wait(q)
    BY <1>t, <1>6 DEF read_wait, Goto, pipe
<1>7. CASE read_byte(q)
    BY <1>o, <1>7 DEF read_byte, Held
<1>8. CASE pipeclose(q)
  <2>1. pc[p] = "rcopy"
      BY <1>w, <1>8 DEF pipeclose
  <2> QED BY <1>8, <2>1 DEF pipeclose
<1>9. CASE write(q) \/ read(q)
    BY <1>t, <1>9 DEF write, read, Goto, pipe
<1>10. CASE close(q)
    BY <1>t, <1>10 DEF close, Goto, pipe
<1>11. CASE kill(q)
    BY <1>t, <1>11 DEF kill, pipe
<1> QED BY <1>1, <1>2, <1>3, <1>4, <1>5, <1>6, <1>7, <1>8, <1>9, <1>10, <1>11 DEF Kernel

\* End of file, step by step.
LEMMA EofStep == TypeOK /\ LockRight /\ EofAtEnd /\ [Next]_vars => EofAtEnd'
<1> SUFFICES ASSUME TypeOK, LockRight, EofAtEnd, [Next]_vars,
                    NEW p \in Procs, (pc[p] = "rcopy" /\ i[p] = 0 /\ Empty)'
             PROVE  ~writeopen'
    BY DEF EofAtEnd
<1>1. CASE UNCHANGED vars
    BY <1>1 DEF vars, pipe, EofAtEnd, Empty
<1>2. ASSUME NEW q \in Procs, Kernel(q) \/ write(q) \/ read(q) \/ close(q) \/ kill(q)
      PROVE  ~writeopen'
  <2>1. CASE read_wait(p) /\ ~Waits(p)
      BY <2>1 DEF read_wait, Waits, Empty, pipe
  <2>2. CASE read_byte(p)
    <3>1. i[p] \in Nat /\ i'[p] = i[p] + 1
        BY <2>2, PipeAssumption, SMT DEF read_byte, TypeOK, Counts
    <3> QED BY <3>1, SMT
  <2>3. CASE /\ pc[p] = "rcopy" /\ i'[p] = i[p] /\ nread' = nread /\ nwrite' = nwrite
             /\ writeopen' => writeopen
      BY <2>3 DEF EofAtEnd, Empty
  <2> QED BY <1>2, <2>1, <2>2, <2>3, CopyStep
<1> QED BY <1>1, <1>2 DEF Next, Finished

\* The invariant holds in every reachable state.
THEOREM PipeInvariant == Spec => []PipeInv
<1>1. PipeInv /\ [Next]_vars => PipeInv'
    BY TypeStep, LockStep, EndsStep, EofStep DEF PipeInv
<1> QED BY <1>1, PipeInit, PTL DEF Spec

\* The variables of the pipe keep their types: the counters stay within a word,
\* and no call counts further than it was asked to.
THEOREM PipeTypes == Spec => []TypeOK
BY PipeInvariant, PTL DEF PipeInv

\* For any readers and writers, piperead() of at least a byte finds end of file only
\* when the write end is closed and every byte has been read.
THEOREM PipeEof == Spec => []EofAtEnd
BY PipeInvariant, PTL DEF PipeInv

\* For any readers and writers, pipeclose() frees the page when nobody holds the lock,
\* has an end open, or is in a call on the pipe or on the way to pipeclose().
THEOREM PipeNoUseAfterFree == Spec => []NoUseAfterFree
<1>1. PipeInv => NoUseAfterFree
  <2> SUFFICES ASSUME PipeInv, freed PROVE lock = NULL /\ \A p \in Procs : pc[p] = "user" /\ p \notin rd \union wr
      BY DEF NoUseAfterFree
  <2>1. ~readopen /\ ~writeopen /\ rd = {} /\ wr = {}
      BY DEF PipeInv, EndsRight
  <2>2. \A p \in Procs : pc[p] = "user"
      BY <2>1 DEF PipeInv, EndsRight, TypeOK, Labels, Reading, Writing
  <2>3. lock = NULL
      BY <2>2 DEF PipeInv, LockRight, TypeOK, Held
  <2> QED BY <2>1, <2>2, <2>3
<1> QED BY <1>1, PipeInvariant, PTL

-----------------------------------------------------------------------------
(* Wakeups.                                                                *)

\* Who is about to sleep has just seen, under the lock, that it must.
WakeInv ==
    /\ \A p \in Procs : /\ pc[p] = "rsleep" => Empty /\ writeopen
                        /\ pc[p] = "wsleep" => Full /\ readopen
    /\ NoLostWakeup

\* The process with the lock is the only one at a place where the lock is held.
LEMMA OneHolder ==
    ASSUME TypeOK, LockRight
    PROVE  /\ \A p \in Procs : pc[p] \in Held => lock = p
           /\ lock = NULL \/ (lock \in Procs /\ pc[lock] \in Held)
BY DEF TypeOK, LockRight

\* Every step keeps the sleepers wakeable.
LEMMA WakeStep ==
    ASSUME TypeOK, LockRight, EndsRight, WakeInv, [Next]_vars
    PROVE  WakeInv'
<1>t. pc \in [Procs -> Labels]
    BY DEF TypeOK
<1>h. /\ \A p \in Procs : pc[p] \in Held => lock = p
      /\ lock = NULL \/ (lock \in Procs /\ pc[lock] \in Held)
    BY OneHolder
<1>n. NULL \notin Procs
    BY PipeAssumption DEF Procs
<1>e. \A p \in Procs : /\ pc[p] = "rasleep" => readopen
                       /\ pc[p] = "wasleep" => writeopen
                       /\ pc[p] = "wloop" => writeopen
    BY DEF EndsRight, Reading, Writing
<1>s. CASE UNCHANGED vars
    BY <1>s DEF vars, pipe, WakeInv, NoLostWakeup, Empty, Full
<1>p. ASSUME NEW q \in Procs, Kernel(q) \/ write(q) \/ read(q) \/ close(q) \/ kill(q)
      PROVE  WakeInv'
  <2> USE DEF WakeInv, NoLostWakeup, Held
  <2>1. CASE acquire(q)
    <3>1. lock = NULL /\ lock' = q /\ pc' = [pc EXCEPT ![q] = IF pc[q] = "wlock" THEN "wloop" ELSE "rwait"]
          /\ killed' = killed /\ (Empty <=> Empty') /\ (Full <=> Full')
          /\ writeopen' = writeopen /\ readopen' = readopen
        BY <2>1 DEF acquire, Goto, pipe, Empty, Full
    <3> QED BY <1>t, <1>h, <1>n, <3>1
  <2>2. CASE sleep(q)
    <3>1. /\ pc[q] \in {"wsleep", "rsleep"} /\ lock' = NULL
          /\ pc' = [pc EXCEPT ![q] = IF pc[q] = "wsleep" THEN "wasleep" ELSE "rasleep"]
          /\ killed' = killed /\ (Empty <=> Empty') /\ (Full <=> Full')
          /\ writeopen' = writeopen /\ readopen' = readopen
        BY <2>2 DEF sleep, Goto, pipe, Empty, Full
    <3>2. lock = q
        BY <1>h, <3>1
    <3> QED BY <1>t, <1>h, <1>n, <3>1, <3>2
  <2>3. CASE write_fails(q)
    <3>1. /\ pc[q] = "wloop" /\ (~readopen \/ killed[q]) /\ pc' = [pc EXCEPT ![q] = "user"] /\ lock' = NULL
          /\ killed' = killed /\ (Empty <=> Empty') /\ (Full <=> Full')
          /\ writeopen' = writeopen /\ readopen' = readopen
        BY <2>3 DEF write_fails, Goto, Leave, pipe, Empty, Full
    <3>2. lock = q /\ writeopen
        BY <1>e, <1>h, <3>1
    <3>3. ASSUME NEW p \in Procs, pc[p] = "wasleep" PROVE Full /\ readopen
        BY <3>1, <3>2, <3>3
    <3>4. ASSUME NEW p \in Procs, pc[p] = "rasleep" PROVE killed[q]
        BY <1>e, <3>1, <3>4
    <3> QED BY <1>t, <1>h, <1>n, <3>1, <3>2, <3>3, <3>4
  <2>4. CASE write_full(q)
    <3>1. /\ pc[q] = "wloop" /\ readopen /\ Full /\ pc' = [Wake(pc, "nread") EXCEPT ![q] = "wsleep"]
          /\ lock' = lock /\ killed' = killed /\ (Full <=> Full') /\ readopen' = readopen
        BY <2>4 DEF write_full, pipe, Full
    <3>2. lock = q
        BY <1>h, <3>1
    <3>3. /\ Wake(pc, "nread") \in [Procs -> Labels]
          /\ \A p \in Procs : /\ Wake(pc, "nread")[p] # "rasleep"
                              /\ Wake(pc, "nread")[p] # pc[p] => Wake(pc, "nread")[p] = "rlock"
        BY <1>t, WakeRight, SMT
    <3> QED BY <1>t, <1>h, <1>n, <3>1, <3>2, <3>3
  <2>5. CASE write_returns(q)
    <3>1. /\ pc[q] = "wloop" /\ pc' = [Wake(pc, "nread") EXCEPT ![q] = "user"] /\ lock' = NULL
          /\ killed' = killed /\ (Full <=> Full') /\ readopen' = readopen
        BY <2>5 DEF write_returns, Return, Leave, pipe, Full
    <3>2. lock = q
        BY <1>h, <3>1
    <3>3. /\ Wake(pc, "nread") \in [Procs -> Labels]
          /\ \A p \in Procs : /\ Wake(pc, "nread")[p] # "rasleep"
                              /\ Wake(pc, "nread")[p] # pc[p] => Wake(pc, "nread")[p] = "rlock"
        BY <1>t, WakeRight, SMT
    <3> QED BY <1>t, <1>h, <1>n, <3>1, <3>2, <3>3
  <2>6. ASSUME NEW ch \in Bytes, write_byte(q, ch) PROVE WakeInv'
    <3>1. pc[q] = "wloop" /\ ~Full /\ pc' = pc /\ lock' = lock /\ killed' = killed
        BY <2>6 DEF write_byte
    <3>2. lock = q
        BY <1>h, <3>1
    <3>3. \A p \in Procs : pc[p] # "wasleep"
        BY <3>1, <3>2
    <3> QED BY <1>t, <1>h, <1>n, <3>1, <3>2, <3>3
  <2>7. CASE read_fails(q)
    <3>1. /\ pc[q] = "rwait" /\ pc' = [pc EXCEPT ![q] = "user"] /\ lock' = NULL
          /\ killed' = killed /\ (Empty <=> Empty') /\ (Full <=> Full')
          /\ writeopen' = writeopen /\ readopen' = readopen
        BY <2>7 DEF read_fails, Goto, Leave, pipe, Empty, Full
    <3>2. lock = q
        BY <1>h, <3>1
    <3> QED BY <1>t, <1>h, <1>n, <3>1, <3>2
  <2>8. CASE read_wait(q)
    <3>1. /\ pc[q] = "rwait" /\ pc' = [pc EXCEPT ![q] = IF Waits(q) THEN "rsleep" ELSE "rcopy"]
          /\ lock' = lock /\ killed' = killed /\ (Empty <=> Empty') /\ (Full <=> Full')
          /\ writeopen' = writeopen /\ readopen' = readopen
        BY <2>8 DEF read_wait, Goto, pipe, Empty, Full
    <3>2. lock = q
        BY <1>h, <3>1
    <3> QED BY <1>t, <1>h, <1>n, <3>1, <3>2 DEF Waits
  <2>9. CASE read_byte(q)
    <3>1. pc[q] = "rcopy" /\ ~Empty /\ pc' = pc /\ lock' = lock /\ killed' = killed /\ writeopen' = writeopen
        BY <2>9 DEF read_byte
    <3>2. lock = q
        BY <1>h, <3>1
    <3>3. ASSUME NEW p \in Procs, pc[p] = "rasleep"
          PROVE  writeopen /\ \E k \in Procs : killed'[k]
        BY <3>1, <3>2, <3>3
    <3> QED BY <1>t, <1>h, <1>n, <3>1, <3>2, <3>3
  <2>10. CASE read_drops(q) \/ read_returns(q)
    <3>1. /\ pc[q] = "rcopy" /\ pc' = [Wake(pc, "nwrite") EXCEPT ![q] = "user"] /\ lock' = NULL
          /\ killed' = killed /\ (~Empty \/ (Empty <=> Empty')) /\ writeopen' = writeopen
        BY <2>10 DEF read_drops, read_returns, Return, Leave, pipe, Empty
    <3>2. lock = q
        BY <1>h, <3>1
    <3>4. ASSUME NEW p \in Procs, pc[p] = "rasleep"
          PROVE  writeopen' /\ (Empty' \/ \E k \in Procs : killed'[k])
        BY <3>1, <3>2, <3>4
    <3>3. /\ Wake(pc, "nwrite") \in [Procs -> Labels]
          /\ \A p \in Procs : /\ Wake(pc, "nwrite")[p] # "wasleep"
                              /\ Wake(pc, "nwrite")[p] # pc[p] => Wake(pc, "nwrite")[p] = "wlock"
        BY <1>t, WakeRight, ZenonT(30)
    <3> QED BY <1>t, <1>h, <1>n, <3>1, <3>2, <3>3
  <2>11. CASE pipeclose(q)
    <3>0. /\ lock = NULL /\ lock' = NULL /\ killed' = killed /\ (Empty <=> Empty') /\ (Full <=> Full')
        BY <2>11 DEF pipeclose, Empty, Full
    <3>1. CASE pc[q] = "wclose"
      <4>1. pc' = [Wake(pc, "nread") EXCEPT ![q] = "user"] /\ readopen' = readopen
          BY <2>11, <3>1 DEF pipeclose
      <4>2. /\ Wake(pc, "nread") \in [Procs -> Labels]
            /\ \A p \in Procs : /\ Wake(pc, "nread")[p] # "rasleep"
                                /\ Wake(pc, "nread")[p] # pc[p] => Wake(pc, "nread")[p] = "rlock"
          BY <1>t, WakeRight, SMT
      <4> QED BY <1>t, <1>h, <1>n, <3>0, <4>1, <4>2
    <3>2. CASE pc[q] = "rclose"
      <4>1. pc' = [Wake(pc, "nwrite") EXCEPT ![q] = "user"] /\ writeopen' = writeopen
          BY <2>11, <3>2 DEF pipeclose
      <4>2. /\ Wake(pc, "nwrite") \in [Procs -> Labels]
            /\ \A p \in Procs : /\ Wake(pc, "nwrite")[p] # "wasleep"
                                /\ Wake(pc, "nwrite")[p] # pc[p] => Wake(pc, "nwrite")[p] = "wlock"
          BY <1>t, WakeRight, ZenonT(30)
      <4> QED BY <1>t, <1>h, <1>n, <3>0, <4>1, <4>2
    <3> QED BY <2>11, <3>1, <3>2 DEF pipeclose
  <2>12. CASE write(q) \/ read(q) \/ close(q)
    <3>1. PICK l \in {"wlock", "rlock", "rclose", "wclose", "user"} : pc' = [pc EXCEPT ![q] = l]
        BY <2>12 DEF write, read, close, Goto
    <3>2. /\ pc[q] = "user" /\ lock' = lock /\ killed' = killed /\ (Empty <=> Empty') /\ (Full <=> Full')
          /\ writeopen' = writeopen /\ readopen' = readopen
        BY <2>12 DEF write, read, close, pipe, Empty, Full
    <3> QED BY <1>t, <1>h, <1>n, <3>1, <3>2
  <2>13. CASE kill(q)
    <3>1. /\ killed'[q] /\ lock' = lock /\ (Empty <=> Empty') /\ (Full <=> Full')
          /\ writeopen' = writeopen /\ readopen' = readopen
        BY <2>13 DEF kill, pipe, Empty, Full, TypeOK
    <3>2. \A p \in Procs : pc'[p] \in {"wlock", "rlock"} \/ pc'[p] = pc[p]
        BY <1>t, <2>13 DEF kill
    <3>3. \A p \in Procs : pc[p] \in Held => pc'[p] = pc[p]
        BY <1>t, <2>13 DEF kill
    <3> QED BY <1>h, <1>n, <3>1, <3>2, <3>3
  <2> QED BY <1>p, <2>1, <2>2, <2>3, <2>4, <2>5, <2>6, <2>7, <2>8, <2>9, <2>10, <2>11, <2>12, <2>13 DEF Kernel
<1> QED BY <1>p, <1>s DEF Next, Finished

\* For any number of readers and writers, no wakeup of pipewrite() and piperead() is
\* lost: who sleeps has a reason to, a reader at least as long as nobody is killed.
THEOREM PipeNoLostWakeup == Spec => []NoLostWakeup
<1>1. Init => WakeInv
    BY DEF Init, WakeInv, NoLostWakeup
<1>2. PipeInv /\ WakeInv /\ [Next]_vars => WakeInv'
    BY WakeStep DEF PipeInv
<1>3. WakeInv => NoLostWakeup
    BY DEF WakeInv
<1> QED BY <1>1, <1>2, <1>3, PipeInvariant, PTL DEF Spec

-----------------------------------------------------------------------------
(* Remainders.                                                             *)

\* What % returns.
LEMMA Remainder ==
    ASSUME NEW x \in Int, NEW m \in Nat \ {0}
    PROVE  x = (m * (x \div m)) + (x % m) /\ x \div m \in Int /\ x % m \in 0 .. m - 1
BY SMT

\* A quotient and a remainder are determined by the number.
LEMMA Unique ==
    ASSUME NEW m \in Nat \ {0}, NEW q1 \in Int, NEW q2 \in Int, NEW r1 \in 0 .. m - 1, NEW r2 \in 0 .. m - 1,
           (m * q1) + r1 = (m * q2) + r2
    PROVE  q1 = q2 /\ r1 = r2
BY SMT

\* Multiples do not count.
LEMMA Multiple ==
    ASSUME NEW x \in Int, NEW m \in Nat \ {0}, NEW k \in Int
    PROVE  (x + (m * k)) % m = x % m
<1> DEFINE q1 == x \div m
           r1 == x % m
           y == x + (m * k)
           q2 == y \div m
           r2 == y % m
<1>1. x = (m * q1) + r1 /\ q1 \in Int /\ r1 \in 0 .. m - 1
    BY Remainder
<1>2. y \in Int
    BY SMT
<1>3. y = (m * q2) + r2 /\ q2 \in Int /\ r2 \in 0 .. m - 1
    BY <1>2, Remainder
<1>4. y = (m * (q1 + k)) + r1
    BY <1>1, SMT
<1>5. q1 + k \in Int
    BY <1>1, SMT
<1> HIDE DEF q1, r1, y, q2, r2
<1>6. r1 = r2
    BY <1>1, <1>3, <1>4, <1>5, Unique, ZenonT(30)
<1> QED BY <1>6 DEF y, r1, r2

\* Numbers less than m apart have different remainders.
LEMMA Apart ==
    ASSUME NEW x \in Int, NEW y \in Int, NEW m \in Nat \ {0}, x < y, y - x < m
    PROVE  x % m # y % m
<1> SUFFICES ASSUME x % m = y % m PROVE FALSE
    OBVIOUS
<1> DEFINE q1 == x \div m
           r1 == x % m
           q2 == y \div m
           r2 == y % m
<1>1. x = (m * q1) + r1 /\ q1 \in Int /\ r1 \in 0 .. m - 1
    BY Remainder
<1>2. y = (m * q2) + r2 /\ q2 \in Int /\ r2 \in 0 .. m - 1
    BY Remainder
<1>3. r1 = r2
    OBVIOUS
<1> HIDE DEF q1, r1, q2, r2
<1>4. y - x = m * (q2 - q1)
    BY <1>1, <1>2, <1>3, SMT
<1>5. q2 - q1 >= 1
    BY <1>1, <1>2, <1>4, SMT
<1>6. m * (q2 - q1) >= m
    BY <1>1, <1>2, <1>5, SMT
<1> QED BY <1>4, <1>6, SMT

\* The remainders of a word that the counters meet.
LEMMA Wrap ==
    ASSUME NEW x \in Int
    PROVE  /\ 0 <= x /\ x < WORD => x % WORD = x
           /\ WORD <= x /\ x < 2 * WORD => x % WORD = x - WORD
           /\ -WORD <= x /\ x < 0 => x % WORD = x + WORD
BY PipeAssumption, SMT

\* The place in pi->data of a counter that has wrapped is that of the one that has not.
LEMMA SamePlace ==
    ASSUME NEW x \in Int, 0 <= x, x < 2 * WORD
    PROVE  (x % WORD) % PIPESIZE = x % PIPESIZE
<1>1. CASE x < WORD
    BY <1>1, Wrap
<1>2. CASE x >= WORD
  <2>1. x % WORD = x - WORD
      BY <1>2, Wrap
  <2>2. WORD = PIPESIZE * (WORD \div PIPESIZE) /\ WORD \div PIPESIZE \in Int
    <3>1. WORD \in Int /\ PIPESIZE \in Nat \ {0} /\ WORD % PIPESIZE = 0
        BY PipeAssumption, SMT
    <3> QED BY <3>1, Remainder, SMT
  <2>3. ASSUME NEW k \in Int, WORD = PIPESIZE * k PROVE (x - WORD) % PIPESIZE = x % PIPESIZE
    <3>1. PIPESIZE \in Nat \ {0}
        BY PipeAssumption
    <3>2. PICK j \in Int : j = -k
        BY SMT
    <3>3. x - WORD = x + (PIPESIZE * j)
        BY <2>3, <3>1, <3>2, SMT
    <3>4. (x + (PIPESIZE * j)) % PIPESIZE = x % PIPESIZE
        BY <3>1, Multiple
    <3> QED BY <3>3, <3>4
  <2> QED BY <2>1, <2>2, <2>3
<1> QED BY <1>1, <1>2, PipeAssumption, SMT

-----------------------------------------------------------------------------
(* The counters.                                                           *)

\* nwrite - nread, computed modulo the word size.
LEMMA CountIs ==
    ASSUME TypeOK
    PROVE  /\ nread \in Int /\ nwrite \in Int /\ Count \in 0 .. WORD - 1
           /\ Count = IF nwrite >= nread THEN nwrite - nread ELSE (nwrite - nread) + WORD
           /\ Empty <=> Count = 0
<1>1. nread \in 0 .. WORD - 1 /\ nwrite \in 0 .. WORD - 1 /\ WORD \in Nat
    BY PipeAssumption DEF TypeOK
<1>2. nwrite - nread \in Int
    BY <1>1, SMT
<1>3. Count = IF nwrite >= nread THEN nwrite - nread ELSE (nwrite - nread) + WORD
    BY <1>1, <1>2, Wrap, SMT DEF Count
<1> QED BY <1>1, <1>3, SMT DEF Empty

\* The test of pipewrite() for a full ring.
LEMMA FullIs == ASSUME TypeOK, Count <= PIPESIZE PROVE Full <=> Count = PIPESIZE
<1>1. nread \in 0 .. WORD - 1 /\ nwrite \in 0 .. WORD - 1 /\ PIPESIZE < WORD /\ PIPESIZE \in Nat \ {0} /\ WORD \in Nat
    BY PipeAssumption DEF TypeOK
<1>2. (nread + PIPESIZE) % WORD = IF nread + PIPESIZE < WORD THEN nread + PIPESIZE ELSE (nread + PIPESIZE) - WORD
  <2>1. nread + PIPESIZE \in Int
      BY <1>1, SMT
  <2> QED BY <1>1, <2>1, Wrap, SMT
<1> QED BY <1>1, <1>2, CountIs, SMT DEF Full

\* Adding one to a counter that wraps.
LEMMA NextIs == ASSUME NEW a \in 0 .. WORD - 1 PROVE (a + 1) % WORD = IF a + 1 = WORD THEN 0 ELSE a + 1
<1>1. a + 1 \in Int /\ WORD \in Nat
    BY PipeAssumption, SMT
<1> QED BY <1>1, Wrap, SMT

-----------------------------------------------------------------------------
(* The queue.                                                              *)

\* The bytes of the pipe, without the wrap of the counters.
LEMMA QueueIs ==
    ASSUME TypeOK
    PROVE  /\ Queue \in Seq(Bytes) /\ Len(Queue) = Count
           /\ \A k \in 1 .. Count : Queue[k] = data[(nread + k - 1) % PIPESIZE]
           /\ nwrite % PIPESIZE = (nread + Count) % PIPESIZE
<1>1. /\ nread \in 0 .. WORD - 1 /\ WORD \in Nat /\ Count \in 0 .. WORD - 1 /\ PIPESIZE \in Nat \ {0}
      /\ data \in [0 .. PIPESIZE - 1 -> Bytes]
    BY CountIs, PipeAssumption DEF TypeOK
<1>2. ASSUME NEW k \in 1 .. Count
      PROVE  /\ ((nread + k - 1) % WORD) % PIPESIZE = (nread + k - 1) % PIPESIZE
             /\ (nread + k - 1) % PIPESIZE \in 0 .. PIPESIZE - 1
  <2>1. nread + k - 1 \in Int /\ 0 <= nread + k - 1 /\ nread + k - 1 < 2 * WORD
      BY <1>1, SMT
  <2>2. (nread + k - 1) % PIPESIZE \in 0 .. PIPESIZE - 1
      BY <1>1, <2>1, Remainder
  <2> QED BY <2>1, <2>2, SamePlace
<1>3. Queue \in [1 .. Count -> Bytes]
    BY <1>1, <1>2 DEF Queue
<1>4. Queue \in Seq(Bytes)
    BY <1>1, <1>3, SMT
<1>5. Len(Queue) = Count
    BY <1>1, <1>3, <1>4, LenProperties, SMT
<1>6. nwrite % PIPESIZE = (nread + Count) % PIPESIZE
  <2>1. nread + Count \in Int /\ 0 <= nread + Count /\ nread + Count < 2 * WORD
      BY <1>1, SMT
  <2>2. (nread + Count) % WORD = IF nread + Count < WORD THEN nread + Count ELSE (nread + Count) - WORD
    <3>1. PICK x \in Int : x = nread + Count
        BY <2>1
    <3>2. 0 <= x /\ x < 2 * WORD /\ WORD \in Int
        BY <1>1, <2>1, <3>1, SMT
    <3>3. x % WORD = IF x < WORD THEN x ELSE x - WORD
      <4>1. CASE x < WORD
          BY <3>2, <4>1, Wrap
      <4>2. CASE WORD <= x
          BY <3>2, <4>2, Wrap
      <4> QED BY <3>2, <4>1, <4>2, SMT
    <3> QED BY <3>1, <3>3
  <2>3. nwrite \in 0 .. WORD - 1
      BY DEF TypeOK
  <2>4. nwrite = (nread + Count) % WORD
      BY <1>1, <2>2, <2>3, CountIs, SMT
  <2> QED BY <2>1, <2>4, SamePlace
<1> QED BY <1>2, <1>4, <1>5, <1>6 DEF Queue

\* pipewrite() puts a byte behind those that are there: it overwrites none of them.
LEMMA Sent ==
    ASSUME TypeOK, TypeOK', Count <= PIPESIZE, NEW p \in Procs, NEW ch \in Bytes, write_byte(p, ch)
    PROVE  Count < PIPESIZE /\ Count' = Count + 1 /\ Queue' = Append(Queue, ch)
<1>1. /\ PIPESIZE < WORD /\ PIPESIZE \in Nat \ {0} /\ WORD \in Nat
      /\ nread \in 0 .. WORD - 1 /\ nwrite \in 0 .. WORD - 1 /\ data \in [0 .. PIPESIZE - 1 -> Bytes]
    BY PipeAssumption DEF TypeOK
<1>2. Count \in Nat /\ Count < PIPESIZE
  <2>1. ~Full
      BY DEF write_byte
  <2>2. Count # PIPESIZE
      BY <2>1, FullIs
  <2>3. Count \in 0 .. WORD - 1
      BY CountIs
  <2> QED BY <1>1, <2>2, <2>3, SMT
<1>3. nread' = nread /\ nwrite' = IF nwrite + 1 = WORD THEN 0 ELSE nwrite + 1
    BY <1>1, NextIs DEF write_byte
<1>4. Count' = IF nwrite' >= nread' THEN nwrite' - nread' ELSE (nwrite' - nread') + WORD
  <2>1. TypeOK' => (Count = IF nwrite >= nread THEN nwrite - nread ELSE (nwrite - nread) + WORD)'
      BY CountIs, PTL
  <2> QED BY <2>1
<1>5. Count' = Count + 1
    BY <1>1, <1>2, <1>3, <1>4, CountIs, SMT
<1>6. /\ Queue \in Seq(Bytes) /\ Len(Queue) = Count
      /\ \A k \in 1 .. Count : Queue[k] = data[(nread + k - 1) % PIPESIZE]
      /\ nwrite % PIPESIZE = (nread + Count) % PIPESIZE
    BY QueueIs
<1>7. /\ Queue' \in Seq(Bytes) /\ Len(Queue') = Count'
      /\ \A k \in 1 .. Count' : Queue'[k] = data'[(nread' + k - 1) % PIPESIZE]
  <2>1. TypeOK' => (/\ Queue \in Seq(Bytes) /\ Len(Queue) = Count
                    /\ \A k \in 1 .. Count : Queue[k] = data[(nread + k - 1) % PIPESIZE])'
      BY QueueIs, PTL
  <2> QED BY <2>1
<1>8. ASSUME NEW k \in 1 .. Count PROVE Queue'[k] = Queue[k]
  <2>1. PICK x \in Int, y \in Int : x = nread + k - 1 /\ y = nread + Count
      BY <1>1, <1>2, SMT
  <2>2. x < y /\ y - x < PIPESIZE
      BY <1>1, <1>2, <2>1, SMT
  <2>3. x % PIPESIZE # y % PIPESIZE
      BY <1>1, <2>2, Apart
  <2>4. x % PIPESIZE \in 0 .. PIPESIZE - 1
      BY <1>1, Remainder
  <2>5. data'[x % PIPESIZE] = data[x % PIPESIZE]
      BY <1>1, <1>6, <2>1, <2>3, <2>4 DEF write_byte
  <2>6. k \in 1 .. Count'
      BY <1>2, <1>5, SMT
  <2> QED BY <1>3, <1>6, <1>7, <2>1, <2>5, <2>6
<1>9. Queue'[Count + 1] = ch
  <2>1. Count + 1 \in 1 .. Count' /\ nread + (Count + 1) - 1 = nread + Count
      BY <1>1, <1>2, <1>5, SMT
  <2>2. nwrite % PIPESIZE \in 0 .. PIPESIZE - 1
    <3>1. nwrite \in Int
        BY <1>1, SMT
    <3> QED BY <1>1, <3>1, Remainder
  <2>3. data'[nwrite % PIPESIZE] = ch
      BY <1>1, <2>2 DEF write_byte
  <2> QED BY <1>3, <1>6, <1>7, <2>1, <2>3
<1>10. Queue' = Append(Queue, ch)
  <2>1. Append(Queue, ch) \in Seq(Bytes) /\ Len(Append(Queue, ch)) = Count + 1
      BY <1>2, <1>6, SMT
  <2>2. \A k \in 1 .. Count + 1 : Append(Queue, ch)[k] = IF k = Count + 1 THEN ch ELSE Queue[k]
      BY <1>2, <1>6, SMT
  <2>3. ASSUME NEW k \in 1 .. Count + 1 PROVE Queue'[k] = Append(Queue, ch)[k]
    <3>1. CASE k = Count + 1
        BY <1>9, <2>2, <3>1
    <3>2. CASE k # Count + 1
      <4>1. k \in 1 .. Count
          BY <1>2, <3>2, SMT
      <4> QED BY <1>8, <2>2, <3>2, <4>1
    <3> QED BY <3>1, <3>2
  <2> QED BY <1>5, <1>7, <2>1, <2>3, SeqEqual
<1> QED BY <1>2, <1>5, <1>10

\* piperead() takes the first one.
LEMMA Taken ==
    ASSUME TypeOK, TypeOK', ~Empty, nread' = (nread + 1) % WORD, nwrite' = nwrite, data' = data
    PROVE  /\ Queue # <<>> /\ Head(Queue) = data[Slot(nread)]
           /\ Count' = Count - 1 /\ Queue' = Tail(Queue)
<1>1. /\ PIPESIZE < WORD /\ PIPESIZE \in Nat \ {0} /\ WORD \in Nat
      /\ nread \in 0 .. WORD - 1 /\ nwrite \in 0 .. WORD - 1
    BY PipeAssumption DEF TypeOK
<1>2. Count \in Nat \ {0}
    BY <1>1, CountIs, SMT
<1>3. nread' = IF nread + 1 = WORD THEN 0 ELSE nread + 1
    BY <1>1, NextIs
<1>4. Count' = IF nwrite' >= nread' THEN nwrite' - nread' ELSE (nwrite' - nread') + WORD
  <2>1. TypeOK' => (Count = IF nwrite >= nread THEN nwrite - nread ELSE (nwrite - nread) + WORD)'
      BY CountIs, PTL
  <2> QED BY <2>1
<1>5. Count' = Count - 1
    BY <1>1, <1>2, <1>3, <1>4, CountIs, SMT
<1>6. /\ Queue \in Seq(Bytes) /\ Len(Queue) = Count
      /\ \A k \in 1 .. Count : Queue[k] = data[(nread + k - 1) % PIPESIZE]
    BY QueueIs
<1>7. /\ Queue' \in Seq(Bytes) /\ Len(Queue') = Count'
      /\ \A k \in 1 .. Count' : Queue'[k] = data'[(nread' + k - 1) % PIPESIZE]
  <2>1. TypeOK' => (/\ Queue \in Seq(Bytes) /\ Len(Queue) = Count
                    /\ \A k \in 1 .. Count : Queue[k] = data[(nread + k - 1) % PIPESIZE])'
      BY QueueIs, PTL
  <2> QED BY <2>1
<1>8. Queue # <<>> /\ Head(Queue) = data[Slot(nread)]
  <2>1. 1 \in 1 .. Count /\ nread + 1 - 1 = nread
      BY <1>1, <1>2, SMT
  <2>2. Queue[1] = data[nread % PIPESIZE]
      BY <1>6, <2>1
  <2> QED BY <1>2, <1>6, <2>2, SMT DEF Slot
<1>9. ASSUME NEW k \in 1 .. Count - 1 PROVE Queue'[k] = Queue[k + 1]
  <2>1. PICK x \in Int, y \in Int : x = nread + k /\ y = nread' + k - 1
      BY <1>1, <1>2, <1>3, SMT
  <2>2. x % PIPESIZE = y % PIPESIZE
    <3>1. CASE nread + 1 # WORD
        BY <1>1, <1>3, <2>1, <3>1, SMT
    <3>2. CASE nread + 1 = WORD
      <4>1. Count \in 0 .. WORD - 1
          BY CountIs
      <4>2. WORD <= x /\ x < 2 * WORD /\ y = x - WORD /\ 0 <= x
          BY <1>1, <1>2, <1>3, <2>1, <3>2, <4>1, SMT
      <4>3. x % WORD = y
          BY <4>2, Wrap
      <4>4. (x % WORD) % PIPESIZE = x % PIPESIZE
          BY <4>2, SamePlace
      <4> QED BY <4>3, <4>4
    <3> QED BY <3>1, <3>2
  <2>3. k \in 1 .. Count' /\ k + 1 \in 1 .. Count /\ nread + (k + 1) - 1 = nread + k
      BY <1>1, <1>2, <1>5, SMT
  <2>4. Queue'[k] = data[y % PIPESIZE]
      BY <1>7, <2>1, <2>3
  <2>5. Queue[k + 1] = data[x % PIPESIZE]
      BY <1>6, <2>1, <2>3
  <2> QED BY <2>2, <2>4, <2>5
<1>10. Queue' = Tail(Queue)
  <2>1. Tail(Queue) \in Seq(Bytes) /\ Len(Tail(Queue)) = Count - 1
      BY <1>2, <1>6, SMT
  <2>2. \A k \in 1 .. Count - 1 : Tail(Queue)[k] = Queue[k + 1]
      BY <1>2, <1>6, SMT
  <2>3. \A k \in 1 .. Count - 1 : Queue'[k] = Tail(Queue)[k]
      BY <1>9, <2>2
  <2> QED BY <1>5, <1>7, <2>1, <2>3, SeqEqual
<1> QED BY <1>5, <1>8, <1>10

-----------------------------------------------------------------------------
(* Every step of the pipe is a step of the FIFO, or none.                  *)

\* The pipe never holds more than PIPESIZE bytes.
Capacity == Count <= PIPESIZE

\* A step that leaves the counters and the bytes alone leaves the queue alone.
LEMMA QueueSame ==
    ASSUME nread' = nread, nwrite' = nwrite, data' = data
    PROVE  Count' = Count /\ Queue' = Queue
BY DEF Count, Queue

\* Every step of pipe.c is a step of the FIFO or leaves it alone.
LEMMA FifoStep ==
    ASSUME TypeOK, TypeOK', Capacity, [Next]_vars
    PROVE  /\ Capacity'
           /\ \/ \E ch \in Bytes : Count < PIPESIZE /\ Queue' = Append(Queue, ch) /\ buf' = buf
              \/ \E p \in Procs : /\ Queue # <<>> /\ Queue' = Tail(Queue)
                                  /\ buf' = [buf EXCEPT ![p] = Append(@, Head(Queue))]
              \/ \E p \in Procs : /\ buf' = [buf EXCEPT ![p] = <<>>]
                                  /\ Queue' = Queue \/ (Queue # <<>> /\ Queue' = Tail(Queue))
              \/ Queue' = Queue /\ buf' = buf
<1> DEFINE Goal == /\ Capacity'
                   /\ \/ \E ch \in Bytes : Count < PIPESIZE /\ Queue' = Append(Queue, ch) /\ buf' = buf
                      \/ \E p \in Procs : /\ Queue # <<>> /\ Queue' = Tail(Queue)
                                          /\ buf' = [buf EXCEPT ![p] = Append(@, Head(Queue))]
                      \/ \E p \in Procs : /\ buf' = [buf EXCEPT ![p] = <<>>]
                                          /\ Queue' = Queue \/ (Queue # <<>> /\ Queue' = Tail(Queue))
                      \/ Queue' = Queue /\ buf' = buf
<1>c. Count \in Int /\ PIPESIZE \in Int
    BY CountIs, PipeAssumption, SMT
<1>0. ASSUME nread' = nread, nwrite' = nwrite, data' = data, buf' = buf \/ \E p \in Procs : buf' = [buf EXCEPT ![p] = <<>>]
      PROVE  Goal
    BY <1>0, QueueSame DEF Capacity
<1>p. ASSUME NEW p \in Procs, Kernel(p) \/ write(p) \/ read(p) \/ close(p) \/ kill(p)
      PROVE  Goal
  <2>1. CASE acquire(p) \/ sleep(p) \/ write_full(p) \/ read_wait(p)
      BY <1>0, <2>1 DEF acquire, sleep, write_full, read_wait, pipe
  <2>2. CASE write_fails(p) \/ read_fails(p) \/ write_returns(p) \/ read_returns(p)
      BY <1>0, <2>2 DEF write_fails, read_fails, write_returns, read_returns, Return, Leave, pipe
  <2>3. ASSUME NEW ch \in Bytes, write_byte(p, ch) PROVE Goal
    <3>1. Count < PIPESIZE /\ Count' = Count + 1 /\ Queue' = Append(Queue, ch)
        BY <2>3, Sent DEF Capacity
    <3>2. buf' = buf
        BY <2>3 DEF write_byte
    <3>3. Capacity'
        BY <1>c, <3>1, SMT DEF Capacity
    <3> QED BY <3>1, <3>2, <3>3
  <2>4. CASE read_byte(p) \/ read_drops(p)
    <3>1. ~Empty /\ nread' = (nread + 1) % WORD /\ nwrite' = nwrite /\ data' = data
        BY <2>4 DEF read_byte, read_drops
    <3>2. /\ Queue # <<>> /\ Head(Queue) = data[Slot(nread)]
          /\ Count' = Count - 1 /\ Queue' = Tail(Queue)
        BY <3>1, Taken
    <3>3. Capacity'
        BY <1>c, <3>2, SMT DEF Capacity
    <3>4. \/ buf' = [buf EXCEPT ![p] = Append(@, Head(Queue))]
          \/ buf' = [buf EXCEPT ![p] = <<>>]
        BY <2>4, <3>2 DEF read_byte, read_drops, Return, Leave
    <3> QED BY <3>2, <3>3, <3>4
  <2>5. CASE pipeclose(p) \/ write(p) \/ read(p) \/ close(p) \/ kill(p)
      BY <1>0, <2>5 DEF pipeclose, write, read, close, kill, pipe
  <2> HIDE DEF Goal
  <2> QED BY <1>p, <2>1, <2>2, <2>3, <2>4, <2>5 DEF Kernel
<1>s. CASE UNCHANGED vars
    BY <1>s, <1>0 DEF vars, pipe
<1> HIDE DEF Goal
<1> QED BY <1>p, <1>s DEF Next, Finished, Goal

\* The pipe starts as an empty FIFO.
LEMMA FifoInit == Init => FIFO!FInit /\ Capacity
<1> SUFFICES ASSUME Init PROVE FIFO!FInit /\ Capacity
    OBVIOUS
<1>1. TypeOK
    BY PipeInit DEF PipeInv
<1>2. Count = 0
    BY <1>1, CountIs DEF Init, Empty
<1>3. Queue = <<>>
    BY <1>1, <1>2, QueueIs, SMT
<1> QED BY <1>2, <1>3, PipeAssumption, SMT DEF FIFO!FInit, Init, Capacity

\* For any readers and writers, with close() and kill() at any point and counters that
\* wrap, the bytes come out of piperead() in the order pipewrite() took them
\* in, each once, and never more than PIPESIZE are in between.
THEOREM PipeInOrder == Spec => InOrder
<1>1. TypeOK /\ TypeOK' /\ Capacity /\ [Next]_vars => Capacity' /\ [FIFO!FNext]_(FIFO!fvars)
  <2> SUFFICES ASSUME TypeOK, TypeOK', Capacity, [Next]_vars
               PROVE  Capacity' /\ [FIFO!FNext]_(FIFO!fvars)
      OBVIOUS
  <2>0. Len(Queue) = Count
      BY QueueIs
  <2>1. CASE \E ch \in Bytes : Count < PIPESIZE /\ Queue' = Append(Queue, ch) /\ buf' = buf
      BY <2>0, <2>1, FifoStep DEF FIFO!FNext, FIFO!Send
  <2>2. CASE \E p \in Procs : /\ Queue # <<>> /\ Queue' = Tail(Queue)
                              /\ buf' = [buf EXCEPT ![p] = Append(@, Head(Queue))]
      BY <2>2, FifoStep DEF FIFO!FNext, FIFO!Receive
  <2>3. CASE \E p \in Procs : /\ buf' = [buf EXCEPT ![p] = <<>>]
                              /\ Queue' = Queue \/ (Queue # <<>> /\ Queue' = Tail(Queue))
    <3>1. PICK p \in Procs : /\ buf' = [buf EXCEPT ![p] = <<>>]
                             /\ Queue' = Queue \/ (Queue # <<>> /\ Queue' = Tail(Queue))
        BY <2>3
    <3>2. FIFO!End(p)
        BY <3>1 DEF FIFO!End
    <3>3. FIFO!FNext
        BY <3>2 DEF FIFO!FNext
    <3> QED BY <3>3, FifoStep
  <2>4. CASE Queue' = Queue /\ buf' = buf
      BY <2>4, FifoStep DEF FIFO!fvars
  <2> QED BY <2>1, <2>2, <2>3, <2>4, FifoStep
<1> QED BY <1>1, FifoInit, PipeTypes, PTL DEF Spec, InOrder, FIFO!FSpec

=============================================================================
