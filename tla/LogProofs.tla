----------------------------- MODULE LogProofs ------------------------------
(***************************************************************************)
(* Proofs about Log for every number of processes and blocks and every     *)
(* LOGSIZE, NLOG and MAXOPBLOCKS that LogAssumption allows.                *)
(***************************************************************************)
EXTENDS Log, FiniteSetTheorems, TLAPS

\* Zenon proves most leaves; the others name their prover.
USE Zenon

\* One token for every log_write() a running call may still make.
Tokens == Procs \X (1 .. MAXOPBLOCKS)
Unspent == {t \in Tokens : pc[t[1]] = "op" /\ t[2] <= left[t[1]]}

\* The entries of lh whose buffers are still pinned.
Unpinned == IF cpc = "install" THEN tail ELSE 0
Pinned(b) == \E i \in 1 .. Len(lh) : i > Unpinned /\ lh[i] = b

\* The reservation: calls, their tokens and the log fit together.
Budget ==
    /\ outstanding = Cardinality(InOp)
    /\ Len(lh) + Cardinality(Unspent) <= LOGSIZE
    /\ Len(head) <= LOGSIZE

\* Where commit() and recovery are.
Phase ==
    /\ committing <=> cpc \in {"wlog", "whead", "install", "clear", "done"}
    /\ committing \/ Booting => \A p \in Procs : pc[p] # "op"
    /\ Booting => \A p \in Procs : pc[p] = "out"
    /\ cpc \in {"wlog", "install"} => tail < Len(lh)
    /\ cpc = "whead" => 0 < Len(lh)
    /\ cpc \in {"clear", "done", "boot", "rclear"} => lh = <<>>
    /\ cpc = "idle" /\ outstanding = 0 => lh = <<>>

\* A block is logged once, and pinned exactly while its entry is pending.
Pins ==
    /\ \A i, j \in 1 .. Len(lh) : lh[i] = lh[j] => i = j
    /\ \A i, j \in 1 .. Len(head) : head[i] = head[j] => i = j
    /\ \A b \in Blocks : pin[b] = IF ~Booting /\ Pinned(b) THEN 1 ELSE 0

LogInv == TypeOK /\ Budget /\ Phase /\ Pins /\ NoLostWakeup

\* Where the contents of a block are.  A buffer that is not pinned is as at home; the
\* log blocks are copies of the buffers from write_log() on; the header on disk is empty
\* except from write_head() to the end of the installation, and its blocks go home one
\* by one.
Contents ==
    /\ \A b \in Blocks : pin[b] = 0 => cache[b] = home[b]
    /\ cpc \in {"idle", "wlog", "whead", "done"} => head = <<>>
    /\ cpc \in {"install", "rinstall"} => head = lh
    /\ cpc = "wlog" => \A i \in 1 .. tail : logblk[i] = cache[lh[i]]
    /\ cpc \in {"whead", "install"} => \A i \in 1 .. Len(lh) : logblk[i] = cache[lh[i]]
    /\ cpc \in {"install", "rinstall"} => \A i \in 1 .. tail : home[head[i]] = logblk[i]
    /\ cpc = "rinstall" => tail <= Len(head)
    /\ cpc \in {"clear", "rclear"} => \A i \in 1 .. Len(head) : home[head[i]] = logblk[i]

-----------------------------------------------------------------------------
(* Counting calls and tokens.                                              *)

\* Processes and tokens can be counted.
LEMMA CountsFinite ==
    /\ IsFiniteSet(InOp) /\ Cardinality(InOp) \in Nat
    /\ IsFiniteSet(Unspent) /\ Cardinality(Unspent) \in Nat
<1>1. IsFiniteSet(Procs)
  BY LogAssumption
<1>2. IsFiniteSet(1 .. MAXOPBLOCKS)
  BY LogAssumption, FS_Interval, SMT
<1>3. IsFiniteSet(Tokens)
  BY <1>1, <1>2, FS_Product DEF Tokens
<1>4. InOp \in SUBSET Procs /\ Unspent \in SUBSET Tokens
  BY DEF InOp, Unspent
<1> QED
  BY <1>1, <1>3, <1>4, FS_Subset, FS_CardinalityType

\* (The same in the next state.)
LEMMA FiniteNext ==
    /\ IsFiniteSet(InOp') /\ Cardinality(InOp') \in Nat
    /\ IsFiniteSet(Unspent') /\ Cardinality(Unspent') \in Nat
<1>1. IsFiniteSet(Procs)
  BY LogAssumption
<1>2. IsFiniteSet(1 .. MAXOPBLOCKS)
  BY LogAssumption, FS_Interval, SMT
<1>3. IsFiniteSet(Tokens)
  BY <1>1, <1>2, FS_Product DEF Tokens
<1>4. InOp' \in SUBSET Procs /\ Unspent' \in SUBSET Tokens
  BY DEF InOp, Unspent, Tokens
<1> QED
  BY <1>1, <1>3, <1>4, FS_Subset, FS_CardinalityType

\* Each running call holds at most MAXOPBLOCKS tokens.
LEMMA TokensPerCall ==
    Cardinality(Unspent) <= Cardinality(InOp) * MAXOPBLOCKS
<1>1. IsFiniteSet(InOp) /\ Cardinality(InOp) \in Nat
  BY CountsFinite
<1>2. /\ IsFiniteSet(1 .. MAXOPBLOCKS)
      /\ Cardinality(1 .. MAXOPBLOCKS) = MAXOPBLOCKS
  BY LogAssumption, FS_Interval, SMT
<1>3. /\ IsFiniteSet(InOp \X (1 .. MAXOPBLOCKS))
      /\ Cardinality(InOp \X (1 .. MAXOPBLOCKS)) = Cardinality(InOp) * MAXOPBLOCKS
  <2>1. /\ IsFiniteSet(InOp \X (1 .. MAXOPBLOCKS))
        /\ Cardinality(InOp \X (1 .. MAXOPBLOCKS)) = Cardinality(InOp) * Cardinality(1 .. MAXOPBLOCKS)
    BY <1>1, <1>2, FS_Product
  <2> QED
    BY <2>1, <1>2
<1>4. Unspent \in SUBSET (InOp \X (1 .. MAXOPBLOCKS))
  BY DEF Unspent, Tokens, InOp
<1> QED
  BY <1>3, <1>4, FS_Subset

\* The tokens of one call.
LEMMA TokensOfOne ==
    ASSUME NEW p
    PROVE  /\ IsFiniteSet({p} \X (1 .. MAXOPBLOCKS))
           /\ Cardinality({p} \X (1 .. MAXOPBLOCKS)) = MAXOPBLOCKS
<1>1. /\ IsFiniteSet(1 .. MAXOPBLOCKS)
      /\ Cardinality(1 .. MAXOPBLOCKS) = MAXOPBLOCKS
  BY LogAssumption, FS_Interval, SMT
<1>2. IsFiniteSet({p}) /\ Cardinality({p}) = 1
  BY FS_Singleton
<1>3. /\ IsFiniteSet({p} \X (1 .. MAXOPBLOCKS))
      /\ Cardinality({p} \X (1 .. MAXOPBLOCKS)) = Cardinality({p}) * Cardinality(1 .. MAXOPBLOCKS)
  BY <1>1, <1>2, FS_Product
<1>4. Cardinality({p} \X (1 .. MAXOPBLOCKS)) = 1 * MAXOPBLOCKS
  BY <1>1, <1>2, <1>3
<1>5. 1 * MAXOPBLOCKS = MAXOPBLOCKS
  BY LogAssumption, SMT
<1> QED
  BY <1>3, <1>4, <1>5

-----------------------------------------------------------------------------
(* LogInv is inductive.                                                    *)

\* If the same processes are in a call and nobody's allowance changes, the
\* counts stay.
LEMMA SameCounts ==
    ASSUME \A q \in Procs : pc'[q] = "op" <=> pc[q] = "op",
           \A q \in Procs : pc[q] = "op" => left'[q] = left[q]
    PROVE  InOp' = InOp /\ Unspent' = Unspent
<1>1. InOp' = InOp
  BY DEF InOp
<1>2. ASSUME NEW t \in Tokens
      PROVE  (pc'[t[1]] = "op" /\ t[2] <= left'[t[1]]) <=> (pc[t[1]] = "op" /\ t[2] <= left[t[1]])
  BY <1>2 DEF Tokens
<1>3. Unspent' = Unspent
  BY <1>2 DEF Unspent, Tokens
<1> QED
  BY <1>1, <1>3

\* No call, no tokens.
LEMMA NoCalls ==
    ASSUME \A q \in Procs : pc[q] # "op"
    PROVE  /\ InOp = {} /\ Unspent = {}
           /\ Cardinality(InOp) = 0 /\ Cardinality(Unspent) = 0
BY FS_EmptySet DEF InOp, Unspent, Tokens

\* The invariant holds on a freshly booted system.
LEMMA LogInit == Init => LogInv
<1> SUFFICES ASSUME Init PROVE LogInv
  OBVIOUS
<1>1. TypeOK
  <2>1. lh \in Seq(Blocks) /\ head \in Seq(Blocks)
    BY SMT DEF Init
  <2>2. pc \in [Procs -> {"out", "begin", "sleep", "op", "commit"}]
    BY DEF Init
  <2>3. left \in [Procs -> 0 .. MAXOPBLOCKS] /\ pin \in [Blocks -> Nat]
    BY LogAssumption, SMT DEF Init
  <2>4. cache \in [Blocks -> Vals] /\ home \in [Blocks -> Vals] /\ logblk \in [1 .. LOGSIZE -> Vals]
    BY DEF Init
  <2> QED
    BY <2>1, <2>2, <2>3, <2>4 DEF Init, TypeOK
<1>2. Budget
  <2>1. Cardinality(InOp) = 0 /\ Cardinality(Unspent) = 0
    BY NoCalls DEF Init
  <2> QED
    BY <2>1, LogAssumption, SMT DEF Init, Budget
<1>3. Phase
  BY DEF Init, Phase, Booting
<1>4. Pins
  BY SMT DEF Init, Pins, Booting
<1>5. NoLostWakeup
  BY DEF Init, NoLostWakeup
<1> QED
  BY <1>1, <1>2, <1>3, <1>4, <1>5 DEF LogInv

\* A process in a call is counted.
LEMMA CallCounted ==
    ASSUME LogInv, NEW p \in Procs, pc[p] = "op"
    PROVE  outstanding > 0
<1>1. InOp # {}
  BY DEF InOp
<1>2. Cardinality(InOp) # 0
  BY <1>1, CountsFinite, FS_EmptySet
<1> QED
  BY <1>2, CountsFinite, SMT DEF LogInv, Budget

\* begin_op() that goes to sleep.
LEMMA BeginSleeps ==
    ASSUME LogInv, NEW p \in Procs, begin_op(p), committing \/ LogFull
    PROVE  LogInv'
<1>0. /\ pc' = [pc EXCEPT ![p] = "sleep"] /\ pc[p] \in {"out", "begin"} /\ ~Booting
      /\ UNCHANGED <<lh, outstanding, left, committing, cpc, tail, cache, pin, home, logblk,
                     head, panicked>>
  BY DEF begin_op, Running, disk
<1>1. TypeOK'
  BY <1>0 DEF LogInv, TypeOK
<1>2. InOp' = InOp /\ Unspent' = Unspent
  BY <1>0, SameCounts DEF LogInv, TypeOK
<1>3. Budget'
  BY <1>0, <1>2 DEF LogInv, Budget
<1>4. Phase'
  BY <1>0 DEF LogInv, Phase, TypeOK, Booting
<1>5. Pins'
  BY <1>0, ZenonT(30) DEF LogInv, Pins, Pinned, Unpinned, Booting
<1>6. NoLostWakeup'
  <2>1. CASE committing
    BY <1>0, <2>1 DEF NoLostWakeup
  <2>2. CASE ~committing
    <3>1. outstanding \in Nat /\ cpc = "idle"
      BY <1>0, <2>2 DEF LogInv, TypeOK, Phase, Booting
    <3>2. outstanding # 0
      <4>1. SUFFICES ASSUME outstanding = 0 PROVE FALSE
        OBVIOUS
      <4>2. Len(lh) = 0
        BY <3>1, <4>1, SMT DEF LogInv, Phase
      <4> QED
        BY <2>2, <4>1, <4>2, LogAssumption, SMT DEF LogFull
    <3> QED
      BY <1>0, <3>1, <3>2, SMT DEF NoLostWakeup
  <2> QED
    BY <2>1, <2>2
<1> QED
  BY <1>1, <1>3, <1>4, <1>5, <1>6 DEF LogInv

\* begin_op() that admits the call: its tokens fit.
LEMMA BeginEnters ==
    ASSUME LogInv, NEW p \in Procs, begin_op(p), ~committing, ~LogFull
    PROVE  LogInv'
<1>0. /\ pc' = [pc EXCEPT ![p] = "op"] /\ pc[p] \in {"out", "begin"} /\ ~Booting
      /\ outstanding' = outstanding + 1 /\ left' = [left EXCEPT ![p] = MAXOPBLOCKS]
      /\ UNCHANGED <<lh, committing, cpc, tail, cache, pin, home, logblk, head, panicked>>
  BY DEF begin_op, Running, disk
<1>1. TypeOK'
  BY <1>0, LogAssumption, SMT DEF LogInv, TypeOK
<1>2. Cardinality(InOp') = Cardinality(InOp) + 1
  <2>1. InOp' = InOp \union {p} /\ p \notin InOp
    BY <1>0 DEF InOp, LogInv, TypeOK
  <2> QED
    BY <2>1, CountsFinite, FS_AddElement
<1>3. Cardinality(Unspent') <= Cardinality(Unspent) + MAXOPBLOCKS
  <2> DEFINE Mine == {p} \X (1 .. MAXOPBLOCKS)
  <2>1. Unspent' = Unspent \union Mine
    <3>1. ASSUME NEW t \in Tokens
          PROVE  (pc'[t[1]] = "op" /\ t[2] <= left'[t[1]])
                    <=> (pc[t[1]] = "op" /\ t[2] <= left[t[1]]) \/ t[1] = p
      BY <1>0, <3>1, LogAssumption, SMT DEF LogInv, TypeOK, Tokens
    <3>2. \A t \in Tokens : t \in Mine <=> t[1] = p
      BY DEF Tokens
    <3>3. Mine \subseteq Tokens
      BY DEF Tokens
    <3> HIDE DEF Mine
    <3> QED
      BY <3>1, <3>2, <3>3 DEF Unspent
  <2>2. IsFiniteSet(Mine) /\ Cardinality(Mine) = MAXOPBLOCKS
    BY TokensOfOne
  <2>3. /\ IsFiniteSet(Unspent \cap Mine)
        /\ Cardinality(Unspent \cap Mine) \in Nat
    <3>1. Unspent \cap Mine \in SUBSET Mine
      OBVIOUS
    <3> HIDE DEF Mine
    <3> QED
      BY <3>1, <2>2, FS_Subset, FS_CardinalityType
  <2> HIDE DEF Mine
  <2>4. Cardinality(Unspent \union Mine)
           = Cardinality(Unspent) + Cardinality(Mine) - Cardinality(Unspent \cap Mine)
    BY <2>2, CountsFinite, FS_Union
  <2> QED
    BY <2>1, <2>2, <2>3, <2>4, CountsFinite, LogAssumption, SMT
<1>4. Budget'
  <2> DEFINE o == Cardinality(InOp)  u == Cardinality(Unspent)  n == Len(lh)
  <2>1. o \in Nat /\ u \in Nat /\ n \in Nat /\ o = outstanding
    BY CountsFinite, SMT DEF LogInv, TypeOK, Budget
  <2>2. u <= o * MAXOPBLOCKS
    BY TokensPerCall
  <2>3. n + (o + 1) * MAXOPBLOCKS <= LOGSIZE
    BY <2>1, LogAssumption, SMT DEF LogFull
  <2>4. (o + 1) * MAXOPBLOCKS = o * MAXOPBLOCKS + MAXOPBLOCKS
    BY <2>1, LogAssumption, SMT
  <2>5. o * MAXOPBLOCKS \in Nat
    BY <2>1, LogAssumption, SMT
  <2>6. Cardinality(Unspent') \in Nat
    BY FiniteNext
  <2> HIDE DEF o, u, n
  <2>7. n + (u + MAXOPBLOCKS) <= LOGSIZE
    BY <2>1, <2>2, <2>3, <2>4, <2>5, LogAssumption, SMT
  <2> QED
    BY <2>1, <2>6, <2>7, <1>0, <1>2, <1>3, LogAssumption, SMT DEF LogInv, Budget, o, u, n
<1>5. Phase'
  BY <1>0, <1>2, CountsFinite, SMT DEF LogInv, Phase, TypeOK, Booting, Budget
<1>6. Pins'
  BY <1>0, ZenonT(30) DEF LogInv, Pins, Pinned, Unpinned, Booting
<1>7. NoLostWakeup'
  BY <1>0, SMT DEF NoLostWakeup, LogInv, TypeOK
<1> QED
  BY <1>1, <1>4, <1>5, <1>6, <1>7 DEF LogInv

\* log_write() spends one token, and logs one block or none.
LEMMA Writes ==
    ASSUME LogInv, NEW p \in Procs, NEW b \in Blocks, NEW v \in Vals, log_write(p, b, v)
    PROVE  LogInv'
<1>1. CASE panicked' = TRUE /\ UNCHANGED <<mem, disk>>
  <2>0. UNCHANGED <<lh, outstanding, committing, pc, left, cpc, tail, cache, pin, home, logblk, head>>
    BY <1>1 DEF mem, disk
  <2>1. TypeOK'
    BY <1>1, <2>0 DEF LogInv, TypeOK
  <2>2. Budget'
    BY <2>0, SameCounts DEF LogInv, Budget
  <2>3. Phase' /\ Pins' /\ NoLostWakeup'
    BY <2>0, SMT DEF LogInv, Phase, Pins, Pinned, Unpinned, NoLostWakeup, Booting
  <2> QED
    BY <2>1, <2>2, <2>3 DEF LogInv
<1>2. CASE ~(panicked' = TRUE /\ UNCHANGED <<mem, disk>>)
  <2>0. /\ pc[p] = "op" /\ left[p] > 0 /\ ~Booting /\ Len(lh) < LOGSIZE
        /\ cache' = [cache EXCEPT ![b] = v]
        /\ left' = [left EXCEPT ![p] = left[p] - 1]
        /\ UNCHANGED <<outstanding, committing, pc, cpc, tail, home, logblk, head, panicked>>
    BY <1>2, LogAssumption, SMT DEF log_write, Running, disk, LogInv, TypeOK
  <2>1. \/ Absorbed(b) /\ UNCHANGED <<lh, pin>>
        \/ ~Absorbed(b) /\ lh' = Append(lh, b) /\ pin' = [pin EXCEPT ![b] = pin[b] + 1]
    BY <1>2 DEF log_write
  <2>2. cpc = "idle"
    BY <2>0 DEF LogInv, TypeOK, Phase, Booting
  <2>3. TypeOK'
    <3>0. lh \in Seq(Blocks) /\ pin \in [Blocks -> Nat] /\ pin[b] + 1 \in Nat
      BY SMT DEF LogInv, TypeOK
    <3>1. lh' \in Seq(Blocks) /\ pin' \in [Blocks -> Nat]
      <4>1. Append(lh, b) \in Seq(Blocks)
        BY <3>0, SMT
      <4>2. [pin EXCEPT ![b] = pin[b] + 1] \in [Blocks -> Nat]
        BY <3>0
      <4> QED
        BY <2>1, <3>0, <4>1, <4>2
    <3>2. left' \in [Procs -> 0 .. MAXOPBLOCKS]
      <4>1. left[p] - 1 \in 0 .. MAXOPBLOCKS
        BY <2>0, LogAssumption, SMT DEF LogInv, TypeOK
      <4> QED
        BY <2>0, <4>1 DEF LogInv, TypeOK
    <3>3. cache' \in [Blocks -> Vals]
      BY <2>0 DEF LogInv, TypeOK
    <3> QED
      BY <2>0, <3>1, <3>2, <3>3 DEF LogInv, TypeOK
  <2>4. Len(lh') <= Len(lh) + 1
    BY <2>1, SMT DEF LogInv, TypeOK
  <2>5. InOp' = InOp
    BY <2>0 DEF InOp
  <2>6. Cardinality(Unspent') = Cardinality(Unspent) - 1
    <3> DEFINE t == <<p, left[p]>>
    <3>1. t \in Unspent
      BY <2>0, SMT DEF Unspent, Tokens, LogInv, TypeOK
    <3>2. Unspent' = Unspent \ {t}
      <4>1. ASSUME NEW u \in Tokens
            PROVE  (pc'[u[1]] = "op" /\ u[2] <= left'[u[1]])
                     <=> (pc[u[1]] = "op" /\ u[2] <= left[u[1]] /\ u # t)
        BY <2>0, <4>1, SMT DEF LogInv, TypeOK, Tokens
      <4> HIDE DEF t
      <4> QED
        BY <4>1 DEF Unspent
    <3> HIDE DEF t
    <3> QED
      BY <3>1, <3>2, CountsFinite, FS_RemoveElement
  <2>7. Budget'
    <3>1. Len(lh) \in Nat /\ Len(lh') \in Nat /\ Cardinality(Unspent) \in Nat
      BY <2>3, CountsFinite, SMT DEF LogInv, TypeOK
    <3> QED
      BY <3>1, <2>0, <2>4, <2>5, <2>6, LogAssumption, SMT DEF LogInv, Budget
  <2>8. Phase'
    BY <2>0, <2>2, CallCounted, SMT DEF LogInv, Phase, TypeOK, Booting
  <2>9. Pins'
    <3>1. CASE Absorbed(b) /\ UNCHANGED <<lh, pin>>
      BY <2>0, <3>1, ZenonT(30) DEF LogInv, Pins, Pinned, Unpinned, Booting
    <3>2. CASE ~Absorbed(b) /\ lh' = Append(lh, b) /\ pin' = [pin EXCEPT ![b] = pin[b] + 1]
      <4>1. /\ Len(lh') = Len(lh) + 1 /\ lh'[Len(lh) + 1] = b /\ Len(lh) \in Nat
            /\ \A i \in 1 .. Len(lh) : lh'[i] = lh[i] /\ lh[i] # b
        BY <3>2, SMTT(40) DEF LogInv, TypeOK, Absorbed
      <4>2. \A i, j \in 1 .. Len(lh') : lh'[i] = lh'[j] => i = j
        BY <4>1, SMT DEF LogInv, Pins
      <4>3. ~Booting' /\ Unpinned = 0 /\ Unpinned' = 0
        BY <2>0, <2>2 DEF Booting, Unpinned
      <4>4. \A c \in Blocks : Pinned(c)' <=> Pinned(c) \/ c = b
        BY <4>1, <4>3, SMT DEF Pinned
      <4>5. ~Pinned(b)
        BY <4>1, <4>3 DEF Pinned
      <4>6. \A c \in Blocks : pin'[c] = IF c = b THEN pin[c] + 1 ELSE pin[c]
        BY <3>2 DEF LogInv, TypeOK
      <4>7. \A c \in Blocks : pin'[c] = IF Pinned(c)' THEN 1 ELSE 0
        BY <4>4, <4>5, <4>6, <2>0, SMT DEF LogInv, Pins
      <4> QED
        BY <4>2, <4>3, <4>7, <2>0 DEF LogInv, Pins
    <3> QED
      BY <2>1, <3>1, <3>2
  <2>10. NoLostWakeup'
    BY <2>0 DEF LogInv, NoLostWakeup
  <2> QED
    BY <2>3, <2>7, <2>8, <2>9, <2>10 DEF LogInv
<1> QED
  BY <1>1, <1>2

\* end_op() gives its unspent tokens back.
LEMMA Ends ==
    ASSUME LogInv, NEW p \in Procs, end_op(p)
    PROVE  LogInv'
<1>0. /\ pc[p] = "op" /\ ~Booting /\ outstanding' = outstanding - 1
      /\ left' = [left EXCEPT ![p] = 0] /\ panicked' = committing
      /\ UNCHANGED <<lh, cache, pin, home, logblk, head>>
  BY DEF end_op, Running, disk
<1>1. outstanding \in Nat /\ outstanding > 0
  BY <1>0, CallCounted DEF LogInv, TypeOK
<1>2. ~committing /\ cpc = "idle"
  BY <1>0 DEF LogInv, Phase, TypeOK, Booting
<1>3. \/ /\ outstanding' = 0 /\ committing' = TRUE /\ pc' = [pc EXCEPT ![p] = "commit"]
         /\ cpc' = (IF lh = <<>> THEN "done" ELSE "wlog") /\ tail' = 0
      \/ /\ outstanding' # 0 /\ pc' = [wakeup EXCEPT ![p] = "out"]
         /\ UNCHANGED <<committing, cpc, tail>>
  BY DEF end_op
<1>4. pc' \in [Procs -> {"out", "begin", "sleep", "op", "commit"}]
  BY <1>3 DEF LogInv, TypeOK, wakeup
<1>5. \A q \in Procs : pc'[q] = "op" <=> pc[q] = "op" /\ q # p
  BY <1>3 DEF LogInv, TypeOK, wakeup
<1>6. TypeOK'
  <2>1. left' \in [Procs -> 0 .. MAXOPBLOCKS] /\ outstanding' \in Nat
    BY <1>0, <1>1, LogAssumption, SMT DEF LogInv, TypeOK
  <2>0. committing \in BOOLEAN /\ tail \in Nat
    BY DEF LogInv, TypeOK
  <2>2. committing' \in BOOLEAN
    BY <1>3, <2>0
  <2>5. tail' \in Nat
    BY <1>3, <2>0, SMT
  <2>3. cpc' \in {"idle", "wlog", "whead", "install", "clear", "done", "boot", "rinstall", "rclear"}
    BY <1>3, <1>2
  <2>4. panicked' \in BOOLEAN
    BY <1>0, <2>0
  <2> QED
    BY <1>0, <1>4, <2>1, <2>2, <2>3, <2>4, <2>5 DEF LogInv, TypeOK
<1>7. Cardinality(InOp') = Cardinality(InOp) - 1
  <2>1. InOp' = InOp \ {p} /\ p \in InOp
    BY <1>0, <1>5 DEF InOp
  <2> QED
    BY <2>1, CountsFinite, FS_RemoveElement
<1>8. Cardinality(Unspent') <= Cardinality(Unspent)
  <2>1. ASSUME NEW t \in Tokens, pc'[t[1]] = "op", t[2] <= left'[t[1]]
        PROVE  pc[t[1]] = "op" /\ t[2] <= left[t[1]]
    BY <1>0, <1>5, <2>1 DEF LogInv, TypeOK, Tokens
  <2>2. Unspent' \in SUBSET Unspent
    BY <2>1 DEF Unspent, Tokens
  <2> QED
    BY <2>2, CountsFinite, FS_Subset
<1>9. Budget'
  <2>1. Len(lh) \in Nat /\ Cardinality(InOp) \in Nat /\ Cardinality(Unspent) \in Nat
    BY CountsFinite, SMT DEF LogInv, TypeOK
  <2> QED
    BY <2>1, FiniteNext, <1>0, <1>7, <1>8, LogAssumption, SMT DEF LogInv, Budget
<1>10. CASE outstanding' = 0
  <2>1. InOp = {p}
    <3>1. Cardinality(InOp') = 0
      BY <1>10, <1>9 DEF Budget
    <3>2. InOp' = {}
      BY <3>1, FiniteNext, FS_EmptySet
    <3> QED
      BY <3>2, <1>0, <1>5 DEF InOp
  <2>2. \A q \in Procs : pc'[q] # "op"
    BY <2>1, <1>5 DEF InOp
  <2>3. /\ committing' /\ cpc' = (IF lh = <<>> THEN "done" ELSE "wlog") /\ tail' = 0
        /\ pc' = [pc EXCEPT ![p] = "commit"]
    BY <1>3, <1>10
  <2>4. lh # <<>> => 0 < Len(lh)
    BY SMT DEF LogInv, TypeOK
  <2>5. Phase'
    BY <1>0, <2>2, <2>3, <2>4 DEF Phase, Booting
  <2>6. Pins'
    BY <1>0, <1>2, <2>3, ZenonT(30) DEF LogInv, Pins, Pinned, Unpinned, Booting
  <2>7. NoLostWakeup'
    BY <2>3 DEF NoLostWakeup
  <2> QED
    BY <1>6, <1>9, <2>5, <2>6, <2>7 DEF LogInv
<1>11. CASE outstanding' # 0
  <2>1. UNCHANGED <<committing, cpc, tail>>
    BY <1>3, <1>11
  <2>2. Phase'
    BY <1>0, <1>2, <2>1, <1>11 DEF LogInv, Phase, Booting
  <2>3. Pins'
    BY <1>0, <2>1, ZenonT(30) DEF LogInv, Pins, Pinned, Unpinned, Booting
  <2>4. NoLostWakeup'
    BY <1>0, <1>1, <1>11, SMT DEF NoLostWakeup
  <2> QED
    BY <1>6, <1>9, <2>2, <2>3, <2>4 DEF LogInv
<1> QED
  BY <1>10, <1>11

\* What leaves the calls and the two counters alone keeps the reservation as
\* long as neither header outgrows LOGSIZE.
LEMMA BudgetKept ==
    ASSUME LogInv, UNCHANGED <<pc, left, outstanding>>,
           Len(lh') \in Nat, Len(lh') <= Len(lh), Len(head') <= LOGSIZE
    PROVE  Budget'
<1>1. InOp' = InOp /\ Unspent' = Unspent
  BY SameCounts
<1>2. Cardinality(Unspent) \in Nat /\ Len(lh) \in Nat
  BY CountsFinite, SMT DEF LogInv, TypeOK
<1> QED
  BY <1>1, <1>2, LogAssumption, SMT DEF LogInv, Budget

\* The end of commit() lets calls in again.
LEMMA EndsCommit ==
    ASSUME LogInv, NEW p \in Procs, end_commit(p)
    PROVE  LogInv'
<1>0. /\ cpc = "done" /\ pc[p] = "commit" /\ committing' = FALSE /\ cpc' = "idle"
      /\ pc' = [wakeup EXCEPT ![p] = "out"]
      /\ UNCHANGED <<lh, outstanding, left, tail, cache, pin, home, logblk, head, panicked>>
  BY DEF end_commit, disk
<1>1. TypeOK'
  BY <1>0 DEF LogInv, TypeOK, wakeup
<1>2. Budget'
  <2>1. InOp' = InOp /\ Unspent' = Unspent
    BY <1>0, SameCounts DEF LogInv, TypeOK, wakeup
  <2> QED
    BY <1>0, <2>1 DEF LogInv, Budget
<1>3. Phase'
  BY <1>0 DEF LogInv, Phase, Booting
<1>4. Pins'
  BY <1>0, ZenonT(30) DEF LogInv, Pins, Pinned, Unpinned, Booting
<1>5. NoLostWakeup'
  BY <1>0 DEF LogInv, TypeOK, NoLostWakeup, wakeup
<1> QED
  BY <1>1, <1>2, <1>3, <1>4, <1>5 DEF LogInv

\* The cache forgets an unpinned block.
LEMMA Evicts ==
    ASSUME LogInv, NEW b \in Blocks, evict(b)
    PROVE  LogInv'
<1>0. /\ cache' = [cache EXCEPT ![b] = home[b]]
      /\ UNCHANGED <<lh, outstanding, committing, pc, left, cpc, tail, pin, home, logblk, head,
                     panicked>>
  BY DEF evict, disk
<1>1. TypeOK'
  BY <1>0 DEF LogInv, TypeOK
<1>2. Budget'
  BY <1>0, SameCounts DEF LogInv, Budget
<1>3. Phase' /\ Pins' /\ NoLostWakeup'
  BY <1>0, SMT DEF LogInv, Phase, Pins, Pinned, Unpinned, NoLostWakeup, Booting
<1> QED
  BY <1>1, <1>2, <1>3 DEF LogInv

\* commit() and its four kinds of disk write.
LEMMA Commits ==
    ASSUME LogInv, Commit
    PROVE  LogInv'
<1> USE LogAssumption
<1>0. Len(lh) \in Nat /\ Len(head) \in Nat /\ Len(lh) <= LOGSIZE /\ Len(head) <= LOGSIZE
  BY CountsFinite, SMT DEF LogInv, TypeOK, Budget
<1>1. CASE write_log
  <2>0. /\ cpc = "wlog" /\ tail' = tail + 1
        /\ logblk' = [logblk EXCEPT ![tail + 1] = cache[lh[tail + 1]]]
        /\ cpc' = (IF tail' = Len(lh) THEN "whead" ELSE cpc)
        /\ UNCHANGED <<lh, outstanding, committing, pc, left, cache, pin, home, head, panicked>>
    BY <1>1 DEF write_log
  <2>1. tail \in Nat /\ tail < Len(lh) /\ lh[tail + 1] \in Blocks
    BY <2>0, SMT DEF LogInv, TypeOK, Phase
  <2>2. TypeOK'
    <3>1. logblk' \in [1 .. LOGSIZE -> Vals]
      BY <1>0, <2>0, <2>1 DEF LogInv, TypeOK
    <3>2. cpc' \in {"wlog", "whead"} /\ tail' \in Nat
      BY <2>0, <2>1, SMT
    <3> QED
      BY <2>0, <3>1, <3>2 DEF LogInv, TypeOK
  <2>3. Budget'
    BY <1>0, <2>0, BudgetKept, SMT
  <2>4. Phase'
    BY <1>0, <2>0, <2>1, SMT DEF LogInv, Phase, Booting
  <2>5. Pins'
    BY <2>0, ZenonT(30) DEF LogInv, Pins, Pinned, Unpinned, Booting
  <2>6. NoLostWakeup'
    BY <2>0 DEF LogInv, NoLostWakeup
  <2> QED
    BY <2>2, <2>3, <2>4, <2>5, <2>6 DEF LogInv
<1>2. CASE write_head
  <2>0. /\ cpc = "whead" /\ head' = lh /\ cpc' = "install" /\ tail' = 0
        /\ UNCHANGED <<lh, outstanding, committing, pc, left, cache, pin, home, logblk, panicked>>
    BY <1>2 DEF write_head
  <2>1. TypeOK'
    BY <2>0 DEF LogInv, TypeOK
  <2>2. Budget'
    BY <1>0, <2>0, BudgetKept, SMT
  <2>3. Phase'
    BY <2>0 DEF LogInv, Phase, Booting
  <2>4. Pins'
    BY <2>0, ZenonT(30) DEF LogInv, Pins, Pinned, Unpinned, Booting
  <2>5. NoLostWakeup'
    BY <2>0 DEF LogInv, NoLostWakeup
  <2> QED
    BY <2>1, <2>2, <2>3, <2>4, <2>5 DEF LogInv
<1>3. CASE install_trans
  <2> DEFINE b == lh[tail + 1]
  <2>0. /\ cpc = "install" /\ tail' = tail + 1
        /\ home' = [home EXCEPT ![b] = logblk[tail + 1]]
        /\ cache' = [cache EXCEPT ![b] = logblk[tail + 1]]
        /\ pin' = [pin EXCEPT ![b] = pin[b] - 1]
        /\ UNCHANGED <<outstanding, committing, pc, left, logblk, head, panicked>>
    BY <1>3 DEF install_trans
  <2>1. \/ tail + 1 = Len(lh) /\ lh' = <<>> /\ cpc' = "clear"
        \/ tail + 1 # Len(lh) /\ UNCHANGED <<lh, cpc>>
    BY <1>3 DEF install_trans
  <2>2. tail \in Nat /\ tail < Len(lh) /\ b \in Blocks /\ tail + 1 \in 1 .. Len(lh)
    BY <1>0, <2>0, SMT DEF LogInv, TypeOK, Phase
  <2>3. Pinned(b) /\ pin[b] = 1 /\ ~Booting
    BY <2>0, <2>2, SMT DEF LogInv, Pins, Pinned, Unpinned, Booting
  <2>4. logblk[tail + 1] \in Vals
    BY <1>0, <2>2, SMT DEF LogInv, TypeOK
  <2>5. TypeOK'
    <3>1. home' \in [Blocks -> Vals] /\ cache' \in [Blocks -> Vals]
      BY <2>0, <2>2, <2>4 DEF LogInv, TypeOK
    <3>2. pin' \in [Blocks -> Nat]
      BY <2>0, <2>2, <2>3, SMT DEF LogInv, TypeOK
    <3>3. lh' \in Seq(Blocks)
      <4>1. <<>> \in Seq(Blocks) /\ lh \in Seq(Blocks)
        BY SMT DEF LogInv, TypeOK
      <4> QED
        BY <2>1, <4>1
    <3>4. cpc' \in {"install", "clear"} /\ tail' \in Nat
      BY <2>0, <2>1, <2>2, SMT
    <3> QED
      BY <2>0, <3>1, <3>2, <3>3, <3>4 DEF LogInv, TypeOK
  <2>6. Len(lh') \in Nat /\ Len(lh') <= Len(lh)
    BY <1>0, <2>1, SMT
  <2>7. Budget'
    BY <1>0, <2>0, <2>6, BudgetKept
  <2>8. Phase'
    BY <1>0, <2>0, <2>1, <2>2, SMT DEF LogInv, Phase, Booting
  <2>9. Pins'
    <3>1. \A c \in Blocks : Pinned(c)' <=> Pinned(c) /\ c # b
      <4>1. CASE tail + 1 = Len(lh) /\ lh' = <<>> /\ cpc' = "clear"
        <5>1. \A c \in Blocks : ~Pinned(c)'
          BY <4>1, SMT DEF Pinned, Unpinned
        <5>2. \A c \in Blocks : Pinned(c) => c = b
          BY <4>1, <2>0, <2>2, SMT DEF Pinned, Unpinned
        <5> QED
          BY <5>1, <5>2
      <4>2. CASE tail + 1 # Len(lh) /\ UNCHANGED <<lh, cpc>>
        <5>1. Unpinned = tail /\ Unpinned' = tail + 1
          BY <4>2, <2>0 DEF Unpinned
        <5>2. \A i \in 1 .. Len(lh) : lh[i] = b <=> i = tail + 1
          BY <2>2 DEF LogInv, Pins
        <5>3. \A i \in 1 .. Len(lh) : i > tail + 1 <=> i > tail /\ i # tail + 1
          BY <1>0, <2>2, SMT
        <5> QED
          BY <4>2, <5>1, <5>2, <5>3 DEF Pinned
      <4> QED
        BY <2>1, <4>1, <4>2
    <3>2. \A i, j \in 1 .. Len(lh') : lh'[i] = lh'[j] => i = j
      BY <2>1, SMT DEF LogInv, Pins
    <3>3. ~Booting'
      BY <2>0, <2>1 DEF Booting
    <3>4. \A c \in Blocks : pin'[c] = IF c = b THEN 0 ELSE pin[c]
      BY <2>0, <2>2, <2>3, SMT DEF LogInv, TypeOK
    <3>5. \A c \in Blocks : pin'[c] = IF Pinned(c)' THEN 1 ELSE 0
      BY <3>1, <3>4, <2>3 DEF LogInv, Pins
    <3> QED
      BY <3>2, <3>3, <3>5, <2>0 DEF LogInv, Pins
  <2>10. NoLostWakeup'
    BY <2>0 DEF LogInv, NoLostWakeup
  <2> QED
    BY <2>5, <2>7, <2>8, <2>9, <2>10 DEF LogInv
<1>4. CASE clear_head
  <2>0. /\ cpc = "clear" /\ head' = <<>> /\ cpc' = "done" /\ tail' = 0
        /\ UNCHANGED <<lh, outstanding, committing, pc, left, cache, pin, home, logblk, panicked>>
    BY <1>4 DEF clear_head
  <2>1. TypeOK'
    BY <2>0, SMT DEF LogInv, TypeOK
  <2>2. Budget'
    BY <1>0, <2>0, BudgetKept, SMT
  <2>3. Phase'
    BY <2>0 DEF LogInv, Phase, Booting
  <2>4. Pins'
    BY <2>0, SMT DEF LogInv, Pins, Pinned, Unpinned, Booting
  <2>5. NoLostWakeup'
    BY <2>0 DEF LogInv, NoLostWakeup
  <2> QED
    BY <2>1, <2>2, <2>3, <2>4, <2>5 DEF LogInv
<1> QED
  BY <1>1, <1>2, <1>3, <1>4 DEF Commit

\* initlog() after a crash: read_head(), install_trans(1), write_head().
LEMMA Recovers ==
    ASSUME LogInv, Recover
    PROVE  LogInv'
<1> USE LogAssumption
<1>0. /\ Booting /\ UNCHANGED <<pc, left, outstanding, committing, pin, logblk, panicked>>
  BY DEF Recover, read_head, recover_install, recover_clear, Booting, disk
<1>1. /\ Len(lh) \in Nat /\ Len(head) \in Nat /\ Len(lh) <= LOGSIZE /\ Len(head) <= LOGSIZE
      /\ outstanding = 0 /\ InOp = {} /\ Unspent = {}
      /\ \A p \in Procs : pc[p] = "out"
  <2>1. \A p \in Procs : pc[p] = "out"
    BY <1>0 DEF LogInv, Phase
  <2>2. /\ InOp = {} /\ Unspent = {}
        /\ Cardinality(InOp) = 0 /\ Cardinality(Unspent) = 0
    BY <2>1, NoCalls
  <2> QED
    BY <2>1, <2>2, SMT DEF LogInv, TypeOK, Budget
<1>2. InOp' = {} /\ Unspent' = {} /\ Cardinality(InOp') = 0 /\ Cardinality(Unspent') = 0
  <2>1. InOp' = InOp /\ Unspent' = Unspent
    BY <1>0, SameCounts
  <2> QED
    BY <2>1, <1>1, FS_EmptySet
<1>3. NoLostWakeup'
  BY <1>0, <1>1 DEF NoLostWakeup
<1>4. CASE read_head
  <2>0. /\ cpc = "boot" /\ lh' = head /\ cpc' = "rinstall" /\ tail' = 0
        /\ UNCHANGED <<cache, home, head>>
    BY <1>4 DEF read_head, disk
  <2>1. TypeOK'
    BY <1>0, <2>0 DEF LogInv, TypeOK
  <2>2. Budget'
    BY <1>0, <1>1, <1>2, <2>0, SMT DEF Budget
  <2>3. Phase'
    BY <1>0, <1>1, <2>0 DEF LogInv, Phase, Booting
  <2>4. Pins'
    BY <1>0, <2>0 DEF LogInv, Pins, Booting
  <2> QED
    BY <1>3, <2>1, <2>2, <2>3, <2>4 DEF LogInv
<1>5. CASE recover_install
  <2>0. cpc = "rinstall" /\ UNCHANGED head
    BY <1>5 DEF recover_install
  <2>1. CASE tail < Len(lh)
    <3>0. /\ home' = [home EXCEPT ![lh[tail + 1]] = logblk[tail + 1]] /\ cache' = home'
          /\ tail' = tail + 1 /\ UNCHANGED <<lh, cpc>>
      BY <1>5, <2>1 DEF recover_install
    <3>1. TypeOK'
      <4>1. tail \in Nat /\ lh[tail + 1] \in Blocks /\ logblk[tail + 1] \in Vals
        BY <1>1, <2>1, SMT DEF LogInv, TypeOK
      <4>2. home' \in [Blocks -> Vals] /\ cache' \in [Blocks -> Vals] /\ tail' \in Nat
        BY <3>0, <4>1, SMT DEF LogInv, TypeOK
      <4> QED
        BY <1>0, <2>0, <3>0, <4>2 DEF LogInv, TypeOK
    <3>2. Budget'
      BY <1>0, <1>1, <1>2, <2>0, <3>0, SMT DEF Budget
    <3>3. Phase' /\ Pins'
      BY <1>0, <2>0, <3>0, SMT DEF LogInv, Phase, Pins, Booting
    <3> QED
      BY <1>3, <3>1, <3>2, <3>3 DEF LogInv
  <2>2. CASE ~(tail < Len(lh))
    <3>0. lh' = <<>> /\ cpc' = "rclear" /\ tail' = 0 /\ UNCHANGED <<home, cache>>
      BY <1>5, <2>2 DEF recover_install
    <3>1. TypeOK'
      BY <1>0, <2>0, <3>0, SMT DEF LogInv, TypeOK
    <3>2. Budget'
      BY <1>0, <1>1, <1>2, <2>0, <3>0, SMT DEF Budget
    <3>3. Phase'
      BY <1>0, <1>1, <2>0, <3>0 DEF LogInv, Phase, Booting
    <3>4. Pins'
      BY <1>0, <2>0, <3>0, SMT DEF LogInv, Pins, Booting
    <3> QED
      BY <1>3, <3>1, <3>2, <3>3, <3>4 DEF LogInv
  <2> QED
    BY <2>1, <2>2
<1>6. CASE recover_clear
  <2>0. cpc = "rclear" /\ head' = <<>> /\ cpc' = "idle" /\ UNCHANGED <<lh, tail, cache, home>>
    BY <1>6 DEF recover_clear
  <2>1. TypeOK'
    BY <1>0, <2>0, SMT DEF LogInv, TypeOK
  <2>2. Budget'
    BY <1>0, <1>1, <1>2, <2>0, SMT DEF Budget
  <2>3. Phase'
    BY <1>0, <1>1, <2>0 DEF LogInv, Phase, Booting
  <2>4. lh = <<>>
    BY <2>0 DEF LogInv, Phase
  <2>5. Pins'
    BY <1>0, <2>0, <2>4, SMT DEF LogInv, Pins, Pinned, Booting
  <2> QED
    BY <1>3, <2>1, <2>2, <2>3, <2>5 DEF LogInv
<1> QED
  BY <1>4, <1>5, <1>6 DEF Recover

\* A crash at any moment.
LEMMA Crashes ==
    ASSUME LogInv, crash
    PROVE  LogInv'
<1> USE LogAssumption
<1>0. /\ cpc' = "boot" /\ lh' = <<>> /\ tail' = 0
      /\ outstanding' = 0 /\ committing' = FALSE /\ panicked' = FALSE
      /\ pc' = [p \in Procs |-> "out"] /\ left' = [p \in Procs |-> 0]
      /\ pin' = [b \in Blocks |-> 0] /\ cache' = home
      /\ UNCHANGED <<home, logblk, head>>
  BY DEF crash, disk
<1>1. TypeOK'
  <2>1. pc' \in [Procs -> {"out", "begin", "sleep", "op", "commit"}]
    BY <1>0
  <2>2. left' \in [Procs -> 0 .. MAXOPBLOCKS] /\ pin' \in [Blocks -> Nat]
    BY <1>0, SMT
  <2>3. lh' \in Seq(Blocks)
    BY <1>0, SMT
  <2> QED
    BY <1>0, <2>1, <2>2, <2>3 DEF LogInv, TypeOK
<1>2. Budget'
  <2>1. InOp' = {} /\ Unspent' = {}
    BY <1>0 DEF InOp, Unspent, Tokens
  <2>2. Len(head) <= LOGSIZE
    BY DEF LogInv, Budget
  <2> QED
    BY <1>0, <2>1, <2>2, FS_EmptySet, SMT DEF Budget
<1>3. Phase'
  BY <1>0 DEF Phase, Booting
<1>4. Pins'
  BY <1>0, SMT DEF LogInv, Pins, Booting
<1>5. NoLostWakeup'
  BY <1>0 DEF NoLostWakeup
<1> QED
  BY <1>1, <1>2, <1>3, <1>4, <1>5 DEF LogInv

\* Every step of log.c, and a crash, keeps the invariant.
LEMMA LogStep == LogInv /\ [Next]_vars => LogInv'
<1> SUFFICES ASSUME LogInv, [Next]_vars PROVE LogInv'
  OBVIOUS
<1>1. ASSUME NEW p \in Procs, begin_op(p) PROVE LogInv'
  BY <1>1, BeginSleeps, BeginEnters
<1>2. ASSUME NEW p \in Procs, end_op(p) PROVE LogInv'
  BY <1>2, Ends
<1>3. ASSUME NEW p \in Procs, end_commit(p) PROVE LogInv'
  BY <1>3, EndsCommit
<1>4. ASSUME NEW p \in Procs, NEW b \in Blocks, NEW v \in Vals, log_write(p, b, v) PROVE LogInv'
  BY <1>4, Writes
<1>5. ASSUME NEW b \in Blocks, evict(b) PROVE LogInv'
  BY <1>5, Evicts
<1>6. CASE Commit
  BY <1>6, Commits
<1>7. CASE Recover
  BY <1>7, Recovers
<1>8. CASE crash
  BY <1>8, Crashes
<1>9. CASE UNCHANGED vars
  <2>0. UNCHANGED <<lh, outstanding, committing, pc, left, cpc, tail, cache, pin, home, logblk,
                    head, panicked>>
    BY <1>9 DEF vars
  <2>1. TypeOK' /\ Phase' /\ Pins' /\ NoLostWakeup'
    BY <2>0, SMT DEF LogInv, TypeOK, Phase, Pins, Pinned, Unpinned, NoLostWakeup, Booting
  <2>2. Budget'
    BY <2>0, SameCounts DEF LogInv, Budget
  <2> QED
    BY <2>1, <2>2 DEF LogInv
<1> QED
  BY <1>1, <1>2, <1>3, <1>4, <1>5, <1>6, <1>7, <1>8, <1>9 DEF Next

\* LogInv holds in every state of the log, crashes and recoveries included.
THEOREM LogInvariant == Spec => []LogInv
BY LogInit, LogStep, PTL DEF Spec

-----------------------------------------------------------------------------
(* What LogInv gives.                                                      *)

\* The variables keep their types; in particular no buffer's pin count and no
\* count of outstanding calls ever falls below zero.
THEOREM LogTypes == Spec => []TypeOK
<1>1. LogInv => TypeOK
  BY DEF LogInv
<1> QED
  BY <1>1, LogInvariant, PTL

\* begin_op()'s reservation is enough: a call within MAXOPBLOCKS always finds
\* room in struct logheader, for any number of concurrent calls.
THEOREM LogReserved == Spec => []Reserved
<1>1. LogInv => Reserved
  <2> SUFFICES ASSUME LogInv, NEW p \in Procs, pc[p] = "op", left[p] > 0
               PROVE  Len(lh) < LOGSIZE
    BY DEF Reserved
  <2>1. <<p, left[p]>> \in Unspent
    BY SMT DEF Unspent, Tokens, LogInv, TypeOK
  <2>2. Cardinality(Unspent) # 0
    BY <2>1, CountsFinite, FS_EmptySet
  <2> QED
    BY <2>2, CountsFinite, LogAssumption, SMT DEF LogInv, TypeOK, Budget
<1> QED
  BY <1>1, LogInvariant, PTL

\* A process that sleeps in begin_op() always has a running call or a commit
\* that will wake it.
THEOREM LogNoLostWakeup == Spec => []NoLostWakeup
<1>1. LogInv => NoLostWakeup
  BY DEF LogInv
<1> QED
  BY <1>1, LogInvariant, PTL

\* A process that may still log a block finds struct logheader with room, inside a
\* transaction.
LEMMA WriteHasRoom ==
    ASSUME LogInv, NEW p \in Procs, pc[p] = "op", left[p] > 0
    PROVE  Len(lh) \in Nat /\ Len(lh) < LOGSIZE /\ outstanding \in Nat /\ outstanding > 0
<1>1. <<p, left[p]>> \in Unspent
  BY SMT DEF Unspent, Tokens, LogInv, TypeOK
<1>2. Cardinality(Unspent) # 0
  BY <1>1, CountsFinite, FS_EmptySet
<1>3. Len(lh) \in Nat /\ Len(lh) < LOGSIZE
  BY <1>2, CountsFinite, LogAssumption, SMT DEF LogInv, TypeOK, Budget
<1> QED
  BY <1>3, CallCounted DEF LogInv, TypeOK

\* For every size of the log area, nothing but a full one makes log_write() or
\* end_op() panic.
THEOREM LogPanicOnlyFull == Spec => []PanicOnlyFull
<1> DEFINE Inv == panicked => Len(lh) >= NLOG - 1 /\ ~Booting
<1>1. Init => Inv
  BY DEF Init
<1>2. LogInv /\ Inv /\ [Next]_vars => Inv'
  <2> SUFFICES ASSUME LogInv, Inv, [Next]_vars, panicked' PROVE (Len(lh) >= NLOG - 1 /\ ~Booting)'
    OBVIOUS
  <2>1. ASSUME NEW p \in Procs, NEW b \in Blocks, NEW v \in Vals, log_write(p, b, v)
        PROVE  (Len(lh) >= NLOG - 1 /\ ~Booting)'
    <3>1. pc[p] = "op" /\ left[p] > 0 /\ ~Booting /\ ~panicked
      BY <2>1 DEF log_write, Running
    <3>2. /\ Len(lh) >= LOGSIZE \/ Len(lh) >= NLOG - 1 \/ outstanding < 1
          /\ lh' = lh /\ cpc' = cpc
      BY <2>1, <3>1 DEF log_write, mem
    <3>3. ~(Len(lh) >= LOGSIZE) /\ ~(outstanding < 1)
      BY <3>1, WriteHasRoom, LogAssumption, SMT
    <3> QED
      BY <3>1, <3>2, <3>3 DEF Booting
  <2>2. ASSUME NEW p \in Procs, end_op(p) PROVE FALSE
    BY <2>2 DEF end_op, LogInv, Phase
  <2>3. ASSUME NEW p \in Procs, begin_op(p) \/ end_commit(p) PROVE FALSE
    BY <2>3 DEF begin_op, end_commit, Running
  <2>4. ASSUME NEW b \in Blocks, evict(b) PROVE FALSE
    BY <2>4 DEF evict, Running
  <2>5. CASE Commit
    BY <2>5 DEF Commit, write_log, write_head, install_trans, clear_head, Running
  <2>6. CASE Recover
    BY <2>6 DEF Recover, read_head, recover_install, recover_clear, Booting
  <2>7. CASE crash
    BY <2>7 DEF crash
  <2>8. CASE UNCHANGED vars
    BY <2>8 DEF vars, Booting
  <2> QED
    BY <2>1, <2>2, <2>3, <2>4, <2>5, <2>6, <2>7, <2>8 DEF Next
<1>3. Inv => PanicOnlyFull
  BY DEF PanicOnlyFull
<1> QED
  BY <1>1, <1>2, <1>3, LogInvariant, PTL DEF Spec

\* A log area with room for LOGSIZE blocks and their header makes log_write()
\* and end_op() safe from panic().
THEOREM LogNoPanic == NLOG > LOGSIZE => (Spec => []NoPanic)
<1> SUFFICES ASSUME NLOG > LOGSIZE PROVE Spec => []NoPanic
  OBVIOUS
<1>1. Init => NoPanic
  BY DEF Init, NoPanic
<1>2. LogInv /\ NoPanic /\ [Next]_vars => NoPanic'
  <2> SUFFICES ASSUME LogInv, NoPanic, [Next]_vars PROVE NoPanic'
    OBVIOUS
  <2>1. ASSUME NEW p \in Procs, NEW b \in Blocks, NEW v \in Vals, log_write(p, b, v) PROVE NoPanic'
    <3>1. pc[p] = "op" /\ left[p] > 0
      BY <2>1 DEF log_write
    <3>2. Len(lh) \in Nat /\ Len(lh) < LOGSIZE /\ outstanding \in Nat /\ outstanding > 0
      BY <3>1, WriteHasRoom
    <3>3. ~(Len(lh) >= LOGSIZE \/ Len(lh) >= NLOG - 1 \/ outstanding < 1)
      BY <3>2, LogAssumption, SMT
    <3> QED
      BY <2>1, <3>3 DEF log_write, NoPanic
  <2>2. ASSUME NEW p \in Procs, end_op(p) PROVE NoPanic'
    <3>1. ~committing
      BY <2>2 DEF end_op, LogInv, Phase
    <3> QED
      BY <2>2, <3>1 DEF end_op, NoPanic
  <2>3. ASSUME NEW p \in Procs, begin_op(p) \/ end_commit(p) PROVE NoPanic'
    BY <2>3 DEF begin_op, end_commit, NoPanic
  <2>4. ASSUME NEW b \in Blocks, evict(b) PROVE NoPanic'
    BY <2>4 DEF evict, NoPanic
  <2>5. CASE Commit \/ Recover \/ crash
    BY <2>5 DEF Commit, write_log, write_head, install_trans, clear_head, Recover, read_head,
                recover_install, recover_clear, crash, NoPanic
  <2>6. CASE UNCHANGED vars
    BY <2>6 DEF vars, NoPanic
  <2> QED
    BY <2>1, <2>2, <2>3, <2>4, <2>5, <2>6 DEF Next
<1> QED
  BY <1>1, <1>2, LogInvariant, PTL DEF Spec

-----------------------------------------------------------------------------
(* The log implements AtomicFS.                                            *)

Once(h) == \A i, j \in 1 .. Len(h) : h[i] = h[j] => i = j
In(b, h) == \E i \in 1 .. Len(h) : h[i] = b

\* The overlay is f if the log blocks hold f's contents of the blocks of the header, and
\* the home locations those of all others.
LEMMA OverlayIs ==
    ASSUME NEW h \in Seq(Blocks), Once(h), NEW l, NEW m, NEW f \in [Blocks -> Vals],
           \A i \in 1 .. Len(h) : l[i] = f[h[i]],
           \A b \in Blocks : ~In(b, h) => m[b] = f[b]
    PROVE  Overlay(h, l, m) = f
<1>1. ASSUME NEW b \in Blocks PROVE Overlay(h, l, m)[b] = f[b]
  <2>1. CASE In(b, h)
    <3> DEFINE c == CHOOSE i \in 1 .. Len(h) : h[i] = b
    <3>1. c \in 1 .. Len(h) /\ h[c] = b
      BY <2>1 DEF In
    <3>2. Overlay(h, l, m)[b] = l[c]
      BY <2>1 DEF In, Overlay
    <3> HIDE DEF c
    <3> QED
      BY <3>1, <3>2
  <2>2. CASE ~In(b, h)
    BY <2>2 DEF In, Overlay
  <2> QED
    BY <2>1, <2>2
<1>2. Overlay(h, l, m) = [b \in Blocks |-> Overlay(h, l, m)[b]]
  BY DEF Overlay
<1>3. f = [b \in Blocks |-> f[b]]
  OBVIOUS
<1> QED
  BY <1>1, <1>2, <1>3

\* The overlay does not show the home locations of the blocks of the header.
LEMMA OverlayHides ==
    ASSUME NEW h, NEW l, NEW m, NEW n, \A b \in Blocks : ~In(b, h) => m[b] = n[b]
    PROVE  Overlay(h, l, m) = Overlay(h, l, n)
BY DEF Overlay, In

\* Without a header the overlay is the home locations.
LEMMA OverlayEmpty ==
    ASSUME NEW l, NEW m \in [Blocks -> Vals]
    PROVE  Overlay(<<>>, l, m) = m
<1>1. \A i \in 1 .. Len(<<>>) : FALSE
  BY SMT
<1>2. Overlay(<<>>, l, m) = [b \in Blocks |-> m[b]]
  BY <1>1 DEF Overlay
<1> QED
  BY <1>2

\* Once every block of the header is at home, the overlay is the home locations.
LEMMA OverlayHome ==
    ASSUME NEW h \in Seq(Blocks), Once(h), NEW l, NEW m \in [Blocks -> Vals],
           \A i \in 1 .. Len(h) : m[h[i]] = l[i]
    PROVE  Overlay(h, l, m) = m
BY OverlayIs, SMT

\* The step of one call, of commit(), of recovery or of a crash keeps Contents.
LEMMA ContentsStep ==
    ASSUME LogInv, Contents, [Next]_vars
    PROVE  Contents'
<1> USE DEF Contents
<1>t. /\ lh \in Seq(Blocks) /\ Len(lh) \in Nat /\ Len(head) \in Nat /\ Len(lh) <= LOGSIZE
      /\ cache \in [Blocks -> Vals] /\ home \in [Blocks -> Vals] /\ pin \in [Blocks -> Nat]
      /\ logblk \in [1 .. LOGSIZE -> Vals] /\ tail \in Nat
  BY CountsFinite, LogAssumption, SMT DEF LogInv, TypeOK, Budget
<1>1. ASSUME NEW p \in Procs, begin_op(p) PROVE Contents'
  BY <1>1 DEF begin_op, disk
<1>2. ASSUME NEW p \in Procs, NEW b \in Blocks, NEW v \in Vals, log_write(p, b, v) PROVE Contents'
  <2>1. CASE UNCHANGED <<mem, disk>>
    BY <2>1 DEF mem, disk
  <2>2. CASE ~UNCHANGED <<mem, disk>>
    <3>1. /\ cpc = "idle" /\ ~Booting
      BY <1>2 DEF log_write, Running, Booting, LogInv, Phase, TypeOK
    <3>2. /\ cache' = [cache EXCEPT ![b] = v] /\ cpc' = cpc
          /\ UNCHANGED <<home, logblk, head>>
          /\ \/ Absorbed(b) /\ pin' = pin
             \/ pin' = [pin EXCEPT ![b] = pin[b] + 1]
      BY <1>2, <2>2 DEF log_write, disk
    <3>3. pin'[b] # 0 /\ \A c \in Blocks \ {b} : pin'[c] = pin[c]
      <4>1. Absorbed(b) => pin[b] = 1
        <5>1. Unpinned = 0
          BY <3>1 DEF Unpinned
        <5>2. Pins
          BY DEF LogInv
        <5>3. Absorbed(b) => Pinned(b)
          BY <1>t, <5>1, SMT DEF Absorbed, Pinned
        <5> QED
          BY <3>1, <5>2, <5>3 DEF Pins
      <4> QED
        BY <1>t, <3>2, <4>1, SMT
    <3> QED
      BY <1>t, <3>1, <3>2, <3>3, ZenonT(30)
  <2> QED
    BY <2>1, <2>2
<1>3. ASSUME NEW p \in Procs, end_op(p) PROVE Contents'
  <2>1. cpc = "idle"
    BY <1>3 DEF end_op, Running, Booting, LogInv, Phase, TypeOK
  <2>2. /\ UNCHANGED <<lh, cache, pin, home, logblk, head>>
        /\ (cpc' = "wlog" /\ tail' = 0) \/ cpc' \in {"idle", "done"}
    BY <1>3, <2>1 DEF end_op, disk
  <2> QED
    BY <2>1, <2>2, SMT
<1>4. ASSUME NEW b \in Blocks, evict(b) PROVE Contents'
  <2>1. cache[b] = home[b]
    BY <1>4 DEF evict
  <2>2. cache' = cache
    BY <1>4, <1>t, <2>1 DEF evict
  <2> QED
    BY <1>4, <2>2, SMT DEF evict, disk
<1>5. CASE write_log
  <2>1. tail < Len(lh) /\ lh[tail + 1] \in Blocks
    BY <1>5, <1>t, SMT DEF write_log, LogInv, Phase
  <2>2. /\ cpc = "wlog" /\ cpc' = (IF tail + 1 = Len(lh) THEN "whead" ELSE "wlog") /\ tail' = tail + 1
        /\ UNCHANGED <<lh, cache, pin, home, head>>
        /\ logblk' = [logblk EXCEPT ![tail + 1] = cache[lh[tail + 1]]]
    BY <1>5 DEF write_log
  <2>3. \A i \in 1 .. tail + 1 : logblk'[i] = cache[lh[i]]
    BY <1>t, <2>1, <2>2, LogAssumption, SMT
  <2> QED
    BY <1>t, <2>2, <2>3, SMT
<1>6. CASE write_head
  BY <1>6, SMT DEF write_head
<1>7. CASE install_trans
  <2> DEFINE b == lh[tail + 1]
  <2>1. tail + 1 \in 1 .. Len(lh) /\ b \in Blocks /\ logblk[tail + 1] \in Vals
    BY <1>7, <1>t, LogAssumption, SMT DEF install_trans, LogInv, Phase
  <2>2. /\ cpc = "install" /\ tail' = tail + 1
        /\ home' = [home EXCEPT ![b] = logblk[tail + 1]]
        /\ cache' = [cache EXCEPT ![b] = logblk[tail + 1]]
        /\ pin' = [pin EXCEPT ![b] = pin[b] - 1]
        /\ IF tail + 1 = Len(lh) THEN cpc' = "clear" ELSE cpc' = cpc /\ lh' = lh
        /\ UNCHANGED <<logblk, head>>
    BY <1>7 DEF install_trans
  <2>3. head = lh /\ cache' = cache
    BY <1>t, <2>1, <2>2
  <2>4. \A i \in 1 .. tail + 1 : home'[head[i]] = logblk[i]
    <3>1. \A i \in 1 .. tail : head[i] # b /\ head[i] \in Blocks
      BY <1>t, <2>1, <2>3, SMT DEF LogInv, Pins
    <3> QED
      BY <1>t, <2>1, <2>2, <2>3, <3>1, SMT
  <2>5. \A c \in Blocks : pin'[c] = 0 => cache'[c] = home'[c]
    BY <1>t, <2>1, <2>2
  <2> HIDE DEF b
  <2> QED
    BY <1>t, <2>1, <2>2, <2>3, <2>4, <2>5, SMT
<1>8. CASE clear_head
  BY <1>8 DEF clear_head
<1>9. ASSUME NEW p \in Procs, end_commit(p) PROVE Contents'
  BY <1>9 DEF end_commit, disk
<1>10. CASE crash
  BY <1>10 DEF crash, disk
<1>11. CASE read_head
  BY <1>11, <1>t, SMT DEF read_head, disk
<1>12. CASE recover_install
  <2>0. /\ cpc = "rinstall" /\ head = lh /\ tail <= Len(lh)
        /\ UNCHANGED <<pin, logblk, head>>
    BY <1>12 DEF recover_install
  <2>p. \A c \in Blocks : pin[c] = 0
    BY <2>0 DEF LogInv, Pins, Booting
  <2>1. CASE tail < Len(lh)
    <3>1. /\ home' = [home EXCEPT ![lh[tail + 1]] = logblk[tail + 1]] /\ cache' = home'
          /\ tail' = tail + 1 /\ lh' = lh /\ cpc' = cpc
      BY <1>12, <2>1 DEF recover_install
    <3>2. tail + 1 \in 1 .. Len(lh) /\ lh[tail + 1] \in Blocks
      BY <1>t, <2>1, SMT
    <3>3. \A i \in 1 .. tail : lh[i] # lh[tail + 1] /\ lh[i] \in Blocks
      BY <1>t, <3>2, SMT DEF LogInv, Pins
    <3>4. \A i \in 1 .. tail + 1 : home'[head[i]] = logblk[i]
      BY <1>t, <2>0, <3>1, <3>2, <3>3, SMT
    <3> QED
      BY <1>t, <2>0, <3>1, <3>2, <3>4, SMT
  <2>2. CASE ~(tail < Len(lh))
    <3>1. cpc' = "rclear" /\ UNCHANGED <<home, cache>>
      BY <1>12, <2>2 DEF recover_install
    <3>2. tail = Len(head)
      BY <1>t, <2>0, <2>2, SMT
    <3> QED
      BY <2>0, <3>1, <3>2
  <2> QED
    BY <2>1, <2>2
<1>13. CASE recover_clear
  BY <1>13 DEF recover_clear
<1>14. CASE UNCHANGED vars
  BY <1>14, ZenonT(30) DEF vars
<1> QED
  BY <1>1, <1>2, <1>3, <1>4, <1>5, <1>6, <1>7, <1>8, <1>9, <1>10, <1>11, <1>12, <1>13, <1>14, ZenonT(30)
     DEF Next, Commit, Recover

\* What the reader of the abstract file system cannot tell apart.
Same == Durable' = Durable /\ View' = View /\ InOp' = InOp /\ Pending' = Pending

\* Every step of log.c is a step of AtomicFS or changes nothing in it.
LEMMA AtomicStep ==
    ASSUME LogInv, Contents, LogInv', [Next]_vars
    PROVE  Abstract!ANext \/ Same
<1>t. /\ lh \in Seq(Blocks) /\ Once(lh) /\ head \in Seq(Blocks) /\ Once(head) /\ Len(lh) \in Nat
      /\ cache \in [Blocks -> Vals] /\ home \in [Blocks -> Vals] /\ tail \in Nat
      /\ \A p \in Procs : pc[p] \in {"out", "begin", "sleep", "op", "commit"}
      /\ pc \in [Procs -> {"out", "begin", "sleep", "op", "commit"}]
  BY SMT DEF LogInv, TypeOK, Pins, Once
<1>1. ASSUME NEW p \in Procs, begin_op(p) PROVE Abstract!ANext \/ Same
  <2>1. /\ UNCHANGED <<cpc, cache, home, logblk, head>> /\ ~Booting /\ pc[p] # "op"
        /\ \/ pc' = [pc EXCEPT ![p] = "sleep"]
           \/ ~committing /\ pc' = [pc EXCEPT ![p] = "op"]
    BY <1>1 DEF begin_op, disk, Running
  <2>2. Durable' = Durable /\ View' = View /\ Pending' = Pending
    BY <2>1 DEF Durable, View, Booting, Pending
  <2>3. CASE pc' = [pc EXCEPT ![p] = "sleep"]
    <3>1. InOp' = InOp
      BY <1>t, <2>1, <2>3 DEF InOp
    <3> QED
      BY <2>2, <3>1 DEF Same
  <2>4. CASE ~committing /\ pc' = [pc EXCEPT ![p] = "op"]
    <3>1. InOp' = InOp \union {p} /\ p \notin InOp
      BY <1>t, <2>1, <2>4 DEF InOp
    <3>2. ~Pending
      BY <2>4 DEF LogInv, Phase, Pending
    <3>3. Abstract!ABegin(p)
      BY <2>2, <3>1, <3>2 DEF Abstract!ABegin
    <3> QED
      BY <3>3 DEF Abstract!ANext
  <2> QED
    BY <2>1, <2>3, <2>4
<1>2. ASSUME NEW p \in Procs, NEW b \in Blocks, NEW v \in Vals, log_write(p, b, v)
      PROVE  Abstract!ANext \/ Same
  <2>1. CASE UNCHANGED <<mem, disk>>
    BY <2>1 DEF mem, disk, Same, Durable, View, Booting, InOp, Pending
  <2>2. CASE ~UNCHANGED <<mem, disk>>
    <3>1. /\ cache' = [cache EXCEPT ![b] = v] /\ UNCHANGED <<pc, cpc, home, logblk, head>>
          /\ pc[p] = "op" /\ ~Booting
      BY <1>2, <2>2 DEF log_write, disk, Running
    <3>2. Durable' = Durable /\ InOp' = InOp /\ Pending' = Pending
      BY <3>1 DEF Durable, InOp, Pending
    <3>3. View' = [View EXCEPT ![b] = v] /\ p \in InOp
      BY <3>1 DEF View, Booting, InOp
    <3>4. Abstract!AUpdate(p, b, v)
      BY <3>2, <3>3 DEF Abstract!AUpdate
    <3> QED
      BY <3>4 DEF Abstract!ANext
  <2> QED
    BY <2>1, <2>2
<1>3. ASSUME NEW p \in Procs, end_op(p) PROVE Abstract!ANext \/ Same
  <2>1. /\ cpc = "idle" /\ pc[p] = "op" /\ UNCHANGED <<lh, cache, home, logblk, head>> /\ ~Booting
        /\ pc' = [pc EXCEPT ![p] = "commit"] \/ pc' = [wakeup EXCEPT ![p] = "out"]
    BY <1>3 DEF end_op, disk, Running, LogInv, Phase, TypeOK, Booting
  <2>2. InOp' = InOp \ {p} /\ p \in InOp
    BY <1>t, <2>1 DEF InOp, wakeup
  <2>3. outstanding' = 0 <=> InOp' = {}
    BY FiniteNext, FS_EmptySet, ZenonT(30) DEF LogInv, Budget
  <2>4. IF outstanding' = 0 THEN cpc' = IF lh = <<>> THEN "done" ELSE "wlog" ELSE cpc' = cpc
    BY <1>3 DEF end_op
  <2>5. Durable' = Durable /\ View' = View
    BY <2>1, <2>4 DEF Durable, View, Booting
  <2>6. IF InOp' # {} THEN Pending' = FALSE ELSE Pending' = TRUE \/ (View = Durable /\ Pending' = FALSE)
    <3>1. CASE InOp' # {}
      BY <2>1, <2>3, <2>4, <3>1, SMT DEF Pending
    <3>2. CASE InOp' = {} /\ lh # <<>>
      BY <2>3, <2>4, <3>2 DEF Pending
    <3>3. CASE InOp' = {} /\ lh = <<>>
      <4>1. \A b \in Blocks : pin[b] = 0
        BY <3>3, SMT DEF LogInv, Pins, Pinned
      <4>2. cache = home
        BY <1>t, <4>1, SMT DEF Contents
      <4>3. Durable = home
        BY <1>t, <2>1, OverlayEmpty, SMT DEF Durable, Contents
      <4> QED
        BY <2>1, <2>3, <2>4, <3>3, <4>2, <4>3, SMT DEF Pending, View
    <3> QED
      BY <3>1, <3>2, <3>3, ZenonT(30)
  <2>7. Abstract!AEnd(p)
    BY <2>2, <2>5, <2>6 DEF Abstract!AEnd
  <2> QED
    BY <2>7 DEF Abstract!ANext
<1>4. ASSUME NEW b \in Blocks, evict(b) PROVE Abstract!ANext \/ Same
  <2>1. cache' = cache
    BY <1>4, <1>t DEF evict, Contents
  <2> QED
    BY <1>4, <2>1 DEF evict, disk, Same, Durable, View, Booting, InOp, Pending
<1>5. CASE write_log
  <2>1. /\ cpc = "wlog" /\ cpc' \in {"wlog", "whead"} /\ UNCHANGED <<pc, cache, home, head>>
    BY <1>5 DEF write_log
  <2>2. Durable = home /\ Durable' = home
    BY <1>t, <2>1, OverlayEmpty, SMT DEF Durable, Contents
  <2> QED
    BY <2>1, <2>2 DEF Same, View, Booting, InOp, Pending
<1>6. CASE write_head
  <2>1. /\ cpc = "whead" /\ cpc' = "install" /\ head' = lh /\ UNCHANGED <<pc, cache, home, logblk>>
    BY <1>6 DEF write_head
  <2>2. \A b \in Blocks : ~In(b, lh) => home[b] = cache[b]
    BY <2>1, ZenonT(30) DEF LogInv, Pins, Pinned, In, Contents
  <2>3. Durable' = cache
    BY <1>t, <2>1, <2>2, OverlayIs, SMT DEF Durable, Contents
  <2>4. InOp = {} /\ InOp' = {} /\ Pending /\ ~Pending' /\ View = cache /\ View' = cache
    BY <2>1 DEF LogInv, Phase, InOp, Pending, View, Booting
  <2>5. Abstract!ACommit
    BY <2>3, <2>4, SMT DEF Abstract!ACommit
  <2> QED
    BY <2>5 DEF Abstract!ANext
<1>7. CASE install_trans
  <2> DEFINE b == lh[tail + 1]
  <2>1. /\ cpc = "install" /\ cpc' \in {"install", "clear"} /\ UNCHANGED <<pc, logblk, head>>
        /\ home' = [home EXCEPT ![b] = logblk[tail + 1]]
        /\ cache' = [cache EXCEPT ![b] = logblk[tail + 1]]
    BY <1>7 DEF install_trans
  <2>2. tail + 1 \in 1 .. Len(lh) /\ b \in Blocks /\ head = lh
    BY <1>t, <2>1, SMT DEF LogInv, Phase, Contents
  <2>3. cache' = cache
    BY <1>t, <2>1, <2>2, SMT DEF Contents
  <2>4. \A c \in Blocks : ~In(c, head) => home'[c] = home[c]
    BY <1>t, <2>1, <2>2 DEF In
  <2>5. UNCHANGED <<logblk, head>>
    BY <2>1
  <2>6. Durable' = Durable
    BY <2>4, <2>5, OverlayHides DEF Durable
  <2> QED
    BY <2>1, <2>3, <2>6, SMT DEF Same, View, Booting, InOp, Pending
<1>8. CASE clear_head \/ recover_clear
  <2>1. /\ cpc \in {"clear", "rclear"} /\ cpc' \in {"done", "idle"} /\ head' = <<>>
        /\ UNCHANGED <<pc, cache, pin, home, logblk>>
    BY <1>8 DEF clear_head, recover_clear
  <2>2. Durable = home
    BY <1>t, <2>1, OverlayHome, SMT DEF Durable, Contents
  <2>3. Durable' = home
    BY <1>t, <2>1, OverlayEmpty DEF Durable
  <2>4. cache = home
    <3>1. \A b \in Blocks : pin[b] = 0
      BY <2>1, SMT DEF LogInv, Pins, Pinned, Phase
    <3> QED
      BY <1>t, <3>1, SMT DEF Contents
  <2> QED
    BY <2>1, <2>2, <2>3, <2>4, SMT DEF Same, View, Booting, InOp, Pending
<1>9. ASSUME NEW p \in Procs, end_commit(p) PROVE Abstract!ANext \/ Same
  <2>1. /\ pc' = [wakeup EXCEPT ![p] = "out"] /\ pc[p] = "commit" /\ cpc = "done" /\ cpc' = "idle"
        /\ UNCHANGED <<cache, home, logblk, head>>
    BY <1>9 DEF end_commit, disk
  <2>2. InOp' = InOp
    BY <1>t, <2>1 DEF InOp, wakeup
  <2> QED
    BY <2>1, <2>2, SMT DEF Same, Durable, View, Booting, Pending
<1>10. CASE crash
  <2>1. /\ cpc' = "boot" /\ pc' = [p \in Procs |-> "out"] /\ UNCHANGED <<home, logblk, head>>
    BY <1>10 DEF crash, disk
  <2>2. Durable' = Durable /\ View' = Durable /\ InOp' = {} /\ Pending' = FALSE
    BY <2>1, SMT DEF Durable, View, Booting, InOp, Pending
  <2>3. Abstract!ACrash
    BY <2>2 DEF Abstract!ACrash
  <2> QED
    BY <2>3 DEF Abstract!ANext
<1>11. CASE read_head
  BY <1>11, SMT DEF read_head, disk, Same, Durable, View, Booting, InOp, Pending
<1>12. CASE recover_install
  <2>1. /\ cpc = "rinstall" /\ cpc' \in {"rinstall", "rclear"} /\ head = lh
        /\ UNCHANGED <<pc, logblk, head>>
        /\ \/ home' = home
           \/ tail < Len(lh) /\ home' = [home EXCEPT ![lh[tail + 1]] = logblk[tail + 1]]
    BY <1>12 DEF recover_install, Contents
  <2>2. \A c \in Blocks : ~In(c, head) => home'[c] = home[c]
    <3>1. tail < Len(lh) => tail + 1 \in 1 .. Len(lh)
      BY <1>t, SMT
    <3> QED
      BY <1>t, <2>1, <3>1 DEF In
  <2>3. Durable' = Durable
    BY <2>1, <2>2, OverlayHides, SMT DEF Durable
  <2> QED
    BY <2>1, <2>3, SMT DEF Same, View, Booting, InOp, Pending
<1>13. CASE UNCHANGED vars
  BY <1>13 DEF vars, Same, Durable, View, Booting, InOp, Pending
<1> QED
  BY <1>1, <1>2, <1>3, <1>4, <1>5, <1>6, <1>7, <1>8, <1>9, <1>10, <1>11, <1>12, <1>13, ZenonT(30)
     DEF Next, Commit, Recover

\* For every number of processes and blocks and every size of the log: the log of
\* log.c implements AtomicFS.  Groups of calls take effect all or nothing, at the write
\* of the header, whatever the moment of a crash or of a crash during recovery.
THEOREM LogAtomic == Spec => Atomic
<1>1. Init => Abstract!AInit /\ Contents
  <2> SUFFICES ASSUME Init PROVE Abstract!AInit /\ Contents
    OBVIOUS
  <2>1. Durable = home
    BY OverlayEmpty DEF Init, Durable
  <2>2. View = Durable /\ InOp = {} /\ Pending = FALSE
    BY SMT DEF Init, View, Booting, InOp, Pending
  <2>3. Contents
    BY DEF Init, Contents
  <2> QED
    BY <2>1, <2>2, <2>3 DEF Init, Abstract!AInit
<1>2. LogInv /\ LogInv' /\ Contents /\ [Next]_vars => Contents' /\ [Abstract!ANext]_(Abstract!avars)
  BY ContentsStep, AtomicStep DEF Same, Abstract!avars
<1> QED
  BY <1>1, <1>2, LogInvariant, PTL DEF Spec, Atomic, Abstract!ASpec
=============================================================================
