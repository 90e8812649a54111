---------------------------- MODULE VirtioProofs ----------------------------
(***************************************************************************)
(* The disk driver is right for any number of processes, any size of the   *)
(* rings and any order in which the device completes requests: the         *)
(* inductive invariant of Virtio, its proof, and the theorems that follow. *)
(***************************************************************************)
EXTENDS Virtio, FiniteSetTheorems, WellFoundedInduction, TLAPS

\* Zenon proves most leaves; the others name their prover.
USE Zenon

-----------------------------------------------------------------------------
(* The inductive invariant.                                                *)

\* Entries between two indices of a ring, and the place of the j-th one.
Behind(lo, hi) == (hi - lo) % WORD
Place(k, j) == (k + j) % NUM

\* A ring has room, and no id twice.
OneEach(ring, lo, hi) ==
    /\ Behind(lo, hi) < NUM
    /\ \A i, j \in 0 .. Behind(lo, hi) - 1 : ring[Place(lo, i)] = ring[Place(lo, j)] => i = j

\* What the device has reported and virtio_disk_intr() has not looked at.
Reported == Window(used, seen, used_idx)

\* Somebody waits for the request that starts at descriptor d.
Waiting(d) ==
    /\ d \in Desc /\ info[d].b \in Procs /\ pc[info[d].b] \in {"wait", "check"}
    /\ bdisk[info[d].b] /\ head[info[d].b] = d

\* A request is in one place: the avail ring, the device or the used ring.
RingsOK ==
    /\ OneEach(avail, fetched, avail_idx) /\ OneEach(used, seen, used_idx)
    /\ \A d \in Pending : Waiting(d) /\ info[d].b \notin moved
    /\ \A d \in Reported : Waiting(d) /\ info[d].b \in moved
    /\ \A r \in flight : /\ Waiting(r.id) /\ r.id \notin Pending
                         /\ r.buf = info[r.id].b /\ r.buf \notin moved
                         /\ r.status = r.id /\ r.op = want[r.buf]

\* The request under way to the avail ring is its lock holder's.
LockOK ==
    \A p \in Procs : pc[p] = "notify" =>
        lock = p /\ bdisk[p] /\ p \notin moved /\ avail[avail_idx % NUM] = head[p]

\* Only requests that were carried out are given back, and their status is 0.
MovedOK ==
    \A p \in Procs :
        /\ ~Submitted(p) => ~bdisk[p] /\ p \notin moved
        /\ p \in moved => info[head[p]].status = "0"
        /\ Submitted(p) /\ ~bdisk[p] => p \in moved /\ pc[p] = "check"

\* The three descriptors of a request: header, buffer, status.
Formatted(p) ==
    LET d0 == head[p]
        d1 == desc[d0].next
        d2 == desc[d1].next
    IN  /\ d0 # d1 /\ d0 # d2 /\ d1 # d2
        /\ desc[d0].more /\ desc[d1].more /\ ~desc[d2].more
        /\ desc[d1].addr = p /\ desc[d2].addr = d0 /\ ops[d0] = want[p] /\ info[d0].b = p

ChainsOK ==
    /\ \A p \in Procs : Submitted(p) => Formatted(p)
    /\ \A p, q \in Procs : p # q /\ Submitted(p) /\ Submitted(q) =>
          Chain(head[p]) \intersect Chain(head[q]) = {}
    /\ free = Desc \ UNION {Chain(head[p]) : p \in {q \in Procs : Submitted(q)}}

VirtioInv == TypeOK /\ RingsOK /\ LockOK /\ MovedOK /\ ChainsOK

-----------------------------------------------------------------------------
(* Remainders.                                                             *)

\* What % returns.
LEMMA Remainder ==
    ASSUME NEW x \in Int, NEW m \in Nat \ {0}
    PROVE  x = (m * (x \div m)) + (x % m) /\ x \div m \in Int /\ x % m \in 0 .. m - 1
BY SMT

\* A quotient and a remainder are determined by the number.
LEMMA Unique ==
    ASSUME NEW m \in Nat \ {0}, NEW q1 \in Int, NEW q2 \in Int, NEW r1 \in 0 .. m - 1, NEW r2 \in 0 .. m - 1,
           (m * q1) + r1 = (m * q2) + r2
    PROVE  q1 = q2 /\ r1 = r2
BY SMT

\* Multiples do not count.
LEMMA Multiple ==
    ASSUME NEW x \in Int, NEW m \in Nat \ {0}, NEW k \in Int
    PROVE  (x + (m * k)) % m = x % m
<1> DEFINE q1 == x \div m
           r1 == x % m
           y == x + (m * k)
           q2 == y \div m
           r2 == y % m
<1>1. x = (m * q1) + r1 /\ q1 \in Int /\ r1 \in 0 .. m - 1
    BY Remainder
<1>2. y \in Int
    BY SMT
<1>3. y = (m * q2) + r2 /\ q2 \in Int /\ r2 \in 0 .. m - 1
    BY <1>2, Remainder
<1>4. y = (m * (q1 + k)) + r1
    BY <1>1, SMT
<1>5. q1 + k \in Int
    BY <1>1, SMT
<1> HIDE DEF q1, r1, y, q2, r2
<1>6. r1 = r2
    BY <1>1, <1>3, <1>4, <1>5, Unique, ZenonT(30)
<1> QED BY <1>6 DEF y, r1, r2

\* Numbers less than m apart have different remainders.
LEMMA Apart ==
    ASSUME NEW x \in Int, NEW y \in Int, NEW m \in Nat \ {0}, x < y, y - x < m
    PROVE  x % m # y % m
<1> SUFFICES ASSUME x % m = y % m PROVE FALSE
    OBVIOUS
<1> DEFINE q1 == x \div m
           r1 == x % m
           q2 == y \div m
           r2 == y % m
<1>1. x = (m * q1) + r1 /\ q1 \in Int /\ r1 \in 0 .. m - 1
    BY Remainder
<1>2. y = (m * q2) + r2 /\ q2 \in Int /\ r2 \in 0 .. m - 1
    BY Remainder
<1>3. r1 = r2
    OBVIOUS
<1> HIDE DEF q1, r1, q2, r2
<1>4. y - x = m * (q2 - q1)
    BY <1>1, <1>2, <1>3, SMT
<1>5. q2 - q1 >= 1
    BY <1>1, <1>2, <1>4, SMT
<1>6. m * (q2 - q1) >= m
    BY <1>1, <1>2, <1>5, SMT
<1> QED BY <1>4, <1>6, SMT

\* The remainders of a word that the ring indices meet.
LEMMA Wrap ==
    ASSUME NEW x \in Int
    PROVE  /\ 0 <= x /\ x < WORD => x % WORD = x
           /\ WORD <= x /\ x < 2 * WORD => x % WORD = x - WORD
           /\ -WORD <= x /\ x < 0 => x % WORD = x + WORD
BY VirtioAssumption, SMT

\* The ring entry of an index that has wrapped is that of the one that has not.
LEMMA SamePlace ==
    ASSUME NEW x \in Int, 0 <= x, x < 2 * WORD
    PROVE  (x % WORD) % NUM = x % NUM
<1>1. CASE x < WORD
    BY <1>1, Wrap
<1>2. CASE x >= WORD
  <2>1. x % WORD = x - WORD
      BY <1>2, Wrap
  <2>2. WORD = NUM * (WORD \div NUM) /\ WORD \div NUM \in Int
    <3>1. WORD \in Int /\ NUM \in Nat \ {0} /\ WORD % NUM = 0
        BY VirtioAssumption, SMT
    <3> QED BY <3>1, Remainder, SMT
  <2>3. ASSUME NEW k \in Int, WORD = NUM * k PROVE (x - WORD) % NUM = x % NUM
    <3>1. NUM \in Nat \ {0}
        BY VirtioAssumption, SMT
    <3>2. PICK j \in Int : j = -k
        BY SMT
    <3>3. x - WORD = x + (NUM * j)
        BY <2>3, <3>1, <3>2, SMT
    <3>4. (x + (NUM * j)) % NUM = x % NUM
        BY <3>1, Multiple
    <3> QED BY <3>3, <3>4
  <2> QED BY <2>1, <2>2, <2>3
<1> QED BY <1>1, <1>2, VirtioAssumption, SMT

-----------------------------------------------------------------------------
(* Rings.                                                                  *)

\* Adding one to a ring index.
LEMMA NextIs == ASSUME NEW a \in 0 .. WORD - 1
                PROVE  /\ (a + 1) % WORD = IF a + 1 = WORD THEN 0 ELSE a + 1
                       /\ (a + 1) % WORD \in 0 .. WORD - 1
<1>1. a + 1 \in Int /\ WORD \in Nat
    BY VirtioAssumption, SMT
<1> QED BY <1>1, Wrap, SMT

\* The difference of two ring indices.
LEMMA BehindIs ==
    ASSUME NEW lo \in 0 .. WORD - 1, NEW hi \in 0 .. WORD - 1
    PROVE  /\ Behind(lo, hi) \in 0 .. WORD - 1
           /\ Behind(lo, hi) = IF hi >= lo THEN hi - lo ELSE (hi - lo) + WORD
           /\ Behind(lo, hi) = 0 <=> lo = hi
<1>1. WORD \in Nat /\ hi - lo \in Int
    BY VirtioAssumption, SMT
<1>2. Behind(lo, hi) = IF hi >= lo THEN hi - lo ELSE (hi - lo) + WORD
    BY <1>1, Wrap, SMT DEF Behind
<1> QED BY <1>1, <1>2, SMT

\* Places are entries of the ring, different ones for different entries of a
\* window; the one behind the window is where the upper index points.
LEMMA Places ==
    ASSUME NEW lo \in 0 .. WORD - 1, NEW hi \in 0 .. WORD - 1
    PROVE  /\ \A j \in Nat : Place(lo, j) \in Desc
           /\ \A i, j \in 0 .. NUM - 1 : Place(lo, i) = Place(lo, j) => i = j
           /\ Place(lo, Behind(lo, hi)) = hi % NUM /\ hi % NUM \in Desc
           /\ Place(lo, 0) = lo % NUM
           /\ \A j \in 0 .. NUM - 1 : Place((lo + 1) % WORD, j) = Place(lo, j + 1)
<1>1. NUM \in Nat \ {0} /\ NUM <= WORD /\ WORD \in Nat /\ Behind(lo, hi) \in 0 .. WORD - 1
    BY VirtioAssumption, BehindIs, SMT
<1>2. ASSUME NEW j \in Nat PROVE Place(lo, j) \in Desc
  <2>1. lo + j \in Int
      BY SMT
  <2> QED BY <1>1, <2>1, Remainder DEF Place, Desc
<1>3. ASSUME NEW i \in 0 .. NUM - 1, NEW j \in 0 .. NUM - 1, i < j PROVE Place(lo, i) # Place(lo, j)
  <2>1. lo + i \in Int /\ lo + j \in Int /\ lo + i < lo + j /\ (lo + j) - (lo + i) < NUM
      BY <1>1, <1>3, SMT
  <2> QED BY <1>1, <2>1, Apart DEF Place
<1>4. \A i, j \in 0 .. NUM - 1 : i = j \/ i < j \/ j < i
    BY <1>1, SMT
<1>5. Place(lo, Behind(lo, hi)) = hi % NUM
  <2>1. PICK x \in Int : x = lo + Behind(lo, hi)
      BY <1>1, SMT
  <2>2. x = hi \/ x = hi + WORD
    <3>1. Behind(lo, hi) = IF hi >= lo THEN hi - lo ELSE (hi - lo) + WORD
        BY BehindIs
    <3> QED BY <1>1, <2>1, <3>1, SMT
  <2>3. 0 <= x /\ x < 2 * WORD
      BY <1>1, <2>1, SMT
  <2>4. x % WORD = hi
      BY <1>1, <2>2, <2>3, Wrap, SMT
  <2>5. (x % WORD) % NUM = x % NUM
      BY <2>3, SamePlace
  <2> QED BY <2>1, <2>4, <2>5 DEF Place
<1>6. hi % NUM \in Desc
    BY <1>1, <1>2, <1>5, SMT
<1>7. Place(lo, 0) = lo % NUM
  <2>1. lo + 0 = lo
      BY SMT
  <2> QED BY <2>1 DEF Place
<1>8. ASSUME NEW j \in 0 .. NUM - 1 PROVE Place((lo + 1) % WORD, j) = Place(lo, j + 1)
  <2>1. PICK a \in 0 .. WORD - 1 : a = (lo + 1) % WORD /\ a = IF lo + 1 = WORD THEN 0 ELSE lo + 1
      BY NextIs
  <2>2. PICK x \in Int : x = lo + (j + 1)
      BY SMT
  <2>3. PICK y \in Int : y = a + j
      BY <1>1, <2>1, SMT
  <2>4. 0 <= x /\ x < 2 * WORD /\ 0 <= y /\ y < 2 * WORD /\ (x = y \/ x = y + WORD)
      BY <1>1, <2>1, <2>2, <2>3, SMT
  <2>5. x % WORD = y % WORD
      BY <1>1, <2>4, Wrap, SMT
  <2>6. (x % WORD) % NUM = x % NUM /\ (y % WORD) % NUM = y % NUM
      BY <2>4, SamePlace
  <2> QED BY <2>1, <2>2, <2>3, <2>5, <2>6 DEF Place
<1> QED BY <1>2, <1>3, <1>4, <1>5, <1>6, <1>7, <1>8

\* Writing the entry behind a window that has room leaves the window alone.
LEMMA RingWrite ==
    ASSUME NEW lo \in 0 .. WORD - 1, NEW hi \in 0 .. WORD - 1, NEW ring, NEW ring2,
           OneEach(ring, lo, hi), \A d \in Desc \ {hi % NUM} : ring2[d] = ring[d]
    PROVE  Window(ring2, lo, hi) = Window(ring, lo, hi) /\ OneEach(ring2, lo, hi)
<1> DEFINE n == Behind(lo, hi)
<1>1. n \in Nat /\ n < NUM /\ NUM \in Nat
    BY BehindIs, VirtioAssumption, SMT DEF OneEach
<1>2. \A j \in 0 .. n - 1 : j \in 0 .. NUM - 1 /\ n \in 0 .. NUM - 1 /\ j # n
    BY <1>1, SMT
<1>3. \A j \in 0 .. n - 1 : Place(lo, j) # hi % NUM
    BY <1>2, Places, SMT
<1>4. \A j \in 0 .. n - 1 : ring2[Place(lo, j)] = ring[Place(lo, j)]
  <2>1. \A j \in 0 .. n - 1 : Place(lo, j) \in Desc
      BY <1>1, Places, SMT
  <2> QED BY <1>3, <2>1
<1>5. Window(ring2, lo, hi) = Window(ring, lo, hi)
    BY <1>4 DEF Window, Behind, Place
<1>6. OneEach(ring2, lo, hi)
    BY <1>4 DEF OneEach
<1> QED BY <1>5, <1>6

\* Advancing the upper index takes in the entry that it pointed at.
LEMMA RingGrow ==
    ASSUME NEW lo \in 0 .. WORD - 1, NEW hi \in 0 .. WORD - 1, NEW ring, OneEach(ring, lo, hi),
           Behind(lo, hi) + 1 < NUM, ring[hi % NUM] \notin Window(ring, lo, hi)
    PROVE  /\ Window(ring, lo, (hi + 1) % WORD) = Window(ring, lo, hi) \union {ring[hi % NUM]}
           /\ OneEach(ring, lo, (hi + 1) % WORD)
<1> DEFINE n == Behind(lo, hi)
           m == Behind(lo, (hi + 1) % WORD)
<1>1. n \in Nat /\ n + 1 < NUM /\ NUM \in Nat /\ NUM <= WORD /\ WORD \in Nat
    BY BehindIs, VirtioAssumption, SMT
<1>2. m = n + 1
  <2>1. PICK a \in 0 .. WORD - 1 : a = (hi + 1) % WORD /\ a = IF hi + 1 = WORD THEN 0 ELSE hi + 1
      BY NextIs
  <2>2. Behind(lo, a) = IF a >= lo THEN a - lo ELSE (a - lo) + WORD
      BY BehindIs
  <2>3. n = IF hi >= lo THEN hi - lo ELSE (hi - lo) + WORD
      BY BehindIs
  <2>4. Behind(lo, a) = n + 1
    <3> HIDE DEF n
    <3> QED BY <1>1, <2>1, <2>2, <2>3, SMT
  <2> QED BY <2>1, <2>4
<1>3. Place(lo, n) = hi % NUM
    BY Places
<1>4. \A j : j \in 0 .. m - 1 <=> j \in 0 .. n - 1 \/ j = n
  <2> HIDE DEF m, n
  <2> QED BY <1>1, <1>2, SMT
<1>5. Window(ring, lo, (hi + 1) % WORD) = {ring[Place(lo, j)] : j \in 0 .. m - 1}
      /\ Window(ring, lo, hi) = {ring[Place(lo, j)] : j \in 0 .. n - 1}
    BY DEF Window, Behind, Place
<1> HIDE DEF m, n
<1>6. Window(ring, lo, (hi + 1) % WORD) = Window(ring, lo, hi) \union {ring[hi % NUM]}
    BY <1>3, <1>4, <1>5
<1>7. \A j \in 0 .. n - 1 : ring[Place(lo, j)] # ring[Place(lo, n)]
    BY <1>3, <1>5
<1>8. \A i, j \in 0 .. n - 1 : ring[Place(lo, i)] = ring[Place(lo, j)] => i = j
    BY DEF OneEach, n
<1>9. \A i, j \in 0 .. m - 1 : ring[Place(lo, i)] = ring[Place(lo, j)] => i = j
    BY <1>4, <1>7, <1>8
<1>10. m < NUM
    BY <1>1, <1>2, SMT
<1> QED BY <1>6, <1>9, <1>10 DEF OneEach, m

\* Taking the first entry leaves the others.
LEMMA RingTake ==
    ASSUME NEW lo \in 0 .. WORD - 1, NEW hi \in 0 .. WORD - 1, NEW ring, NEW ring2,
           OneEach(ring, lo, hi), lo # hi, DOMAIN ring = Desc, ring2 = [ring EXCEPT ![lo % NUM] = NULL]
    PROVE  /\ ring[lo % NUM] \in Window(ring, lo, hi)
           /\ Window(ring2, (lo + 1) % WORD, hi) = Window(ring, lo, hi) \ {ring[lo % NUM]}
           /\ OneEach(ring2, (lo + 1) % WORD, hi)
<1> DEFINE n == Behind(lo, hi)
           b == (lo + 1) % WORD
           m == Behind(b, hi)
<1>1. n \in Nat /\ n < NUM /\ n > 0 /\ NUM \in Nat /\ NUM <= WORD /\ WORD \in Nat
    BY BehindIs, VirtioAssumption, SMT DEF OneEach
<1>2. m = n - 1
  <2>1. PICK a \in 0 .. WORD - 1 : a = (lo + 1) % WORD /\ a = IF lo + 1 = WORD THEN 0 ELSE lo + 1
      BY NextIs
  <2>2. Behind(a, hi) = IF hi >= a THEN hi - a ELSE (hi - a) + WORD
      BY BehindIs
  <2>3. n = IF hi >= lo THEN hi - lo ELSE (hi - lo) + WORD
      BY BehindIs
  <2>4. Behind(a, hi) = n - 1
    <3> HIDE DEF n
    <3> QED BY <1>1, <2>1, <2>2, <2>3, SMT
  <2> QED BY <2>1, <2>4
<1> HIDE DEF m, n
<1>3. \A j \in 0 .. m - 1 : j + 1 \in 0 .. n - 1 /\ j + 1 # 0 /\ j \in 0 .. NUM - 1 /\ j + 1 \in 0 .. NUM - 1
    BY <1>1, <1>2, SMT
<1>4. \A j \in 0 .. n - 1 : j # 0 => \E i \in 0 .. m - 1 : j = i + 1
  <2> SUFFICES ASSUME NEW j \in 0 .. n - 1, j # 0 PROVE j - 1 \in 0 .. m - 1 /\ j = (j - 1) + 1
      OBVIOUS
  <2> QED BY <1>1, <1>2, SMT
<1>5. 0 \in 0 .. n - 1 /\ 0 \in 0 .. NUM - 1
    BY <1>1, SMT
<1>6. Place(lo, 0) = lo % NUM
    BY Places
<1>7. \A j \in 0 .. m - 1 : Place(b, j) = Place(lo, j + 1) /\ Place(lo, j + 1) # lo % NUM
    BY <1>3, <1>5, <1>6, Places, SMT
<1>8. \A j \in 0 .. m - 1 : ring2[Place(b, j)] = ring[Place(lo, j + 1)]
  <2>1. \A j \in 0 .. m - 1 : Place(lo, j + 1) \in Desc
      BY <1>1, <1>3, Places, SMT
  <2> QED BY <1>7, <2>1
<1>9. Window(ring, lo, hi) = {ring[Place(lo, j)] : j \in 0 .. n - 1}
      /\ Window(ring2, b, hi) = {ring2[Place(b, j)] : j \in 0 .. m - 1}
    BY DEF Window, Behind, Place, m, n
<1>10. \A i, j \in 0 .. n - 1 : ring[Place(lo, i)] = ring[Place(lo, j)] => i = j
    BY DEF OneEach, n
<1> HIDE DEF b
<1>11. ring[lo % NUM] \in Window(ring, lo, hi)
    BY <1>5, <1>6, <1>9
<1>12. ASSUME NEW d PROVE d \in Window(ring2, b, hi) <=> d \in Window(ring, lo, hi) /\ d # ring[lo % NUM]
  <2>1. ASSUME d \in Window(ring2, b, hi) PROVE d \in Window(ring, lo, hi) /\ d # ring[lo % NUM]
    <3>1. PICK j \in 0 .. m - 1 : d = ring2[Place(b, j)]
        BY <1>9, <2>1
    <3>2. d = ring[Place(lo, j + 1)] /\ j + 1 \in 0 .. n - 1 /\ j + 1 # 0
        BY <1>3, <1>8, <3>1
    <3> QED BY <1>5, <1>6, <1>9, <1>10, <3>2
  <2>2. ASSUME d \in Window(ring, lo, hi), d # ring[lo % NUM] PROVE d \in Window(ring2, b, hi)
    <3>1. PICK j \in 0 .. n - 1 : d = ring[Place(lo, j)]
        BY <1>9, <2>2
    <3>2. PICK i \in 0 .. m - 1 : j = i + 1
        BY <1>4, <1>6, <2>2, <3>1
    <3> QED BY <1>8, <1>9, <3>1, <3>2
  <2> QED BY <2>1, <2>2
<1>13. \A i, j \in 0 .. m - 1 : ring2[Place(b, i)] = ring2[Place(b, j)] => i = j
  <2> SUFFICES ASSUME NEW i \in 0 .. m - 1, NEW j \in 0 .. m - 1, ring2[Place(b, i)] = ring2[Place(b, j)]
               PROVE  i = j
      OBVIOUS
  <2>1. i + 1 = j + 1
      BY <1>3, <1>8, <1>10, SMT
  <2> QED BY <1>1, <1>2, <2>1, SMT
<1>14. m < NUM
    BY <1>1, <1>2, SMT
<1>15. OneEach(ring2, b, hi)
    BY <1>13, <1>14 DEF OneEach, m
<1> QED BY <1>11, <1>12, <1>15 DEF b

\* Ids of a window are different descriptors: two that are not among them leave room
\* for another one.
LEMMA RingRoom ==
    ASSUME NEW lo \in 0 .. WORD - 1, NEW hi \in 0 .. WORD - 1, NEW ring, OneEach(ring, lo, hi),
           NEW c \in Desc, NEW d \in Desc, c # d, Window(ring, lo, hi) \subseteq Desc \ {c, d}
    PROVE  Behind(lo, hi) + 1 < NUM
<1> DEFINE n == Behind(lo, hi)
           S == Desc \ {c, d}
           f == [j \in 1 .. n |-> ring[Place(lo, j - 1)]]
<1>1. n \in Nat /\ NUM \in Nat /\ 0 .. NUM - 1 = Desc
    BY BehindIs, VirtioAssumption, SMT DEF Desc
<1>2. IsFiniteSet(Desc) /\ Cardinality(Desc) = NUM
    BY <1>1, FS_Interval, SMT
<1>3. IsFiniteSet(Desc \ {c}) /\ Cardinality(Desc \ {c}) = NUM - 1
    BY <1>2, FS_RemoveElement
<1>4. S = (Desc \ {c}) \ {d} /\ d \in Desc \ {c}
    OBVIOUS
<1>5. IsFiniteSet(S) /\ Cardinality(S) = (NUM - 1) - 1
    BY <1>3, <1>4, FS_RemoveElement
<1>6. IsFiniteSet(1 .. n) /\ Cardinality(1 .. n) = n
  <2> HIDE DEF n
  <2>1. 1 \in Int /\ n \in Int
      BY <1>1, SMT
  <2>2. IsFiniteSet(1 .. n) /\ Cardinality(1 .. n) = IF 1 > n THEN 0 ELSE n - 1 + 1
      BY <2>1, FS_Interval
  <2> QED BY <1>1, <2>2, SMT
<1>7. \A j \in 1 .. n : j - 1 \in 0 .. n - 1
    BY <1>1, SMT
<1>8. f \in [1 .. n -> S]
    BY <1>7 DEF Window, Behind, Place
<1>9. f \in Injection(1 .. n, S)
  <2>1. ASSUME NEW i \in 1 .. n, NEW j \in 1 .. n, f[i] = f[j] PROVE i = j
    <3>1. i - 1 = j - 1
        BY <1>7, <2>1 DEF OneEach
    <3> QED BY <1>1, <3>1, SMT
  <2> HIDE DEF f, n
  <2> QED BY <1>8, <2>1 DEF Injection, IsInjective
<1>10. n <= Cardinality(S)
    BY <1>5, <1>6, <1>9, FS_Injection, SMT DEF ExistsInjection
<1> QED BY <1>1, <1>5, <1>10, SMT

-----------------------------------------------------------------------------
(* alloc3_desc().                                                          *)

\* A non-empty set of naturals has a least element.
LEMMA Least ==
    ASSUME NEW S \in SUBSET Nat, S # {}
    PROVE  \E m \in S : \A n \in S : m <= n
<1>1. PICK m \in S : \A n \in S : ~(<<n, m>> \in OpToRel(<, Nat))
  BY NatLessThanWellFounded, WFMin
<1>2. ASSUME NEW n \in S PROVE m <= n
  <2>1. m \in Nat /\ n \in Nat /\ <<n, m>> \in Nat \X Nat
    OBVIOUS
  <2>2. n < m => <<n, m>> \in OpToRel(<, Nat)
    BY <2>1 DEF OpToRel
  <2>3. ~(n < m)
    BY <1>1, <2>2
  <2> QED
    BY <2>1, <2>3, SMT
<1> QED
  BY <1>2

\* Above the k lowest descriptors of free there is a next one.
LEMMA NextLowest ==
    ASSUME NEW T \in SUBSET free, free \in SUBSET Desc, IsFiniteSet(T), NEW k \in Nat,
           Cardinality(T) = k, k < Cardinality(free), \A a \in T, b \in free \ T : a < b
    PROVE  \E d \in free \ T : /\ {e \in free : e <= d} = T \union {d}
                               /\ IsFiniteSet(T \union {d}) /\ Cardinality(T \union {d}) = k + 1
                               /\ \A a \in T \union {d}, b \in free \ (T \union {d}) : a < b
<1>1. free \ T # {}
  <2>1. SUFFICES ASSUME free = T PROVE FALSE
    OBVIOUS
  <2> QED
    BY <2>1, SMT
<1>2. free \ T \in SUBSET Nat /\ free \in SUBSET Nat
  <2>1. \A d \in Desc : d \in Nat
    BY VirtioAssumption, SMT DEF Desc
  <2> QED
    BY <2>1
<1>3. PICK d \in free \ T : \A b \in free \ T : d <= b
  BY <1>1, <1>2, Least
<1>4. \A e \in free : e <= d <=> e \in T \union {d}
  BY <1>2, <1>3, SMT
<1>5. IsFiniteSet(T \union {d}) /\ Cardinality(T \union {d}) = k + 1
  BY <1>3, FS_AddElement
<1>6. \A a \in T \union {d}, b \in free \ (T \union {d}) : a < b
  BY <1>2, <1>3, SMT
<1>7. {e \in free : e <= d} = T \union {d}
  BY <1>3, <1>4
<1> QED
  BY <1>3, <1>5, <1>6, <1>7

\* alloc3_desc() takes three different free descriptors.
LEMMA Allocated ==
    ASSUME free \in SUBSET Desc, Cardinality(free) >= 3
    PROVE  /\ Nth(1) \in free /\ Nth(2) \in free /\ Nth(3) \in free
           /\ Nth(1) # Nth(2) /\ Nth(1) # Nth(3) /\ Nth(2) # Nth(3)
<1> DEFINE Rank(d) == Cardinality({e \in free : e <= d})
<1>0. Cardinality(free) \in Nat
  <2>1. IsFiniteSet(Desc)
    BY VirtioAssumption, FS_Interval, SMT DEF Desc
  <2> QED
    BY <2>1, FS_Subset, FS_CardinalityType, ZenonT(30)
<1>1. PICK a \in free : /\ Rank(a) = 1 /\ IsFiniteSet({a}) /\ Cardinality({a}) = 1
                        /\ \A x \in {a}, b \in free \ {a} : x < b
  <2>1. {} \in SUBSET free /\ IsFiniteSet({}) /\ Cardinality({}) = 0
    BY FS_EmptySet
  <2>2. 0 < Cardinality(free) /\ 0 \in Nat /\ 0 + 1 = 1
    BY <1>0, SMT
  <2>3. PICK d \in free \ {} : /\ {e \in free : e <= d} = {} \union {d}
                               /\ IsFiniteSet({} \union {d}) /\ Cardinality({} \union {d}) = 0 + 1
                               /\ \A x \in {} \union {d}, b \in free \ ({} \union {d}) : x < b
    BY <2>1, <2>2, NextLowest
  <2>4. {} \union {d} = {d}
    OBVIOUS
  <2> QED
    BY <2>2, <2>3, <2>4, SMT
<1>2. PICK c \in free : /\ Rank(c) = 2 /\ IsFiniteSet({a, c}) /\ Cardinality({a, c}) = 2
                        /\ \A x \in {a, c}, b \in free \ {a, c} : x < b
  <2> DEFINE T == {a}
  <2>0. T \in SUBSET free /\ IsFiniteSet(T) /\ Cardinality(T) = 1 /\ \A x \in T, b \in free \ T : x < b
    BY <1>1
  <2>1. 1 < Cardinality(free) /\ 1 \in Nat /\ 1 + 1 = 2
    BY <1>0, SMT
  <2> HIDE DEF T
  <2>2. PICK d \in free \ T : /\ {e \in free : e <= d} = T \union {d}
                              /\ IsFiniteSet(T \union {d}) /\ Cardinality(T \union {d}) = 1 + 1
                              /\ \A x \in T \union {d}, b \in free \ (T \union {d}) : x < b
    BY <2>0, <2>1, NextLowest
  <2>3. T \union {d} = {a, d} /\ d \in free
    BY DEF T
  <2> QED
    BY <2>1, <2>2, <2>3, ZenonT(30)
<1>3. PICK g \in free : Rank(g) = 3
  <2> DEFINE T == {a, c}
  <2>0. T \in SUBSET free /\ IsFiniteSet(T) /\ Cardinality(T) = 2 /\ \A x \in T, b \in free \ T : x < b
    BY <1>2
  <2>1. 2 < Cardinality(free) /\ 2 \in Nat /\ 2 + 1 = 3
    BY <1>0, SMT
  <2> HIDE DEF T
  <2>2. PICK d \in free \ T : /\ {e \in free : e <= d} = T \union {d}
                              /\ IsFiniteSet(T \union {d}) /\ Cardinality(T \union {d}) = 2 + 1
                              /\ \A x \in T \union {d}, b \in free \ (T \union {d}) : x < b
    BY <2>0, <2>1, NextLowest
  <2> QED
    BY <2>1, <2>2
<1>4. Nth(1) \in free /\ Rank(Nth(1)) = 1
  BY <1>1 DEF Nth
<1>5. Nth(2) \in free /\ Rank(Nth(2)) = 2
  BY <1>2 DEF Nth
<1>6. Nth(3) \in free /\ Rank(Nth(3)) = 3
  BY <1>3 DEF Nth
<1> HIDE DEF Rank
<1> QED
  BY <1>4, <1>5, <1>6, SMT

-----------------------------------------------------------------------------
(* Chains.                                                                 *)

\* The descriptors of a request are three, and what the device reads from them is
\* the request.
LEMMA ChainIs ==
    ASSUME TypeOK, NEW p \in Procs, Formatted(p)
    PROVE  LET d0 == head[p]
               d1 == desc[d0].next
               d2 == desc[d1].next
           IN  /\ d0 \in Desc /\ d1 \in Desc /\ d2 \in Desc
               /\ Chain(d0) = {d0, d1, d2} /\ Cardinality(Chain(d0)) = 3
               /\ Request(d0) = [id |-> d0, op |-> want[p], buf |-> p, status |-> d0]
<1> DEFINE d0 == head[p]
           d1 == desc[d0].next
           d2 == desc[d1].next
<1>1. d0 \in Desc /\ \A d \in Desc : desc[d].next \in Desc
  BY DEF TypeOK, Descriptors
<1>2. d1 \in Desc /\ d2 \in Desc
  BY <1>1
<1>3. /\ d0 # d1 /\ d0 # d2 /\ d1 # d2
      /\ desc[d0].more /\ desc[d1].more /\ desc[d1].addr = p /\ desc[d2].addr = d0
      /\ ops[d0] = want[p]
  BY DEF Formatted
<1>4. Chain(d0) = {d0, d1, d2}
  BY <1>3 DEF Chain
<1>5. Request(d0) = [id |-> d0, op |-> want[p], buf |-> p, status |-> d0]
  BY <1>3 DEF Request
<1> HIDE DEF d0, d1, d2
<1>6. Cardinality({d0, d1, d2}) = 3
  <2>1. IsFiniteSet({d0}) /\ Cardinality({d0}) = 1
    BY FS_Singleton
  <2>0. d1 \notin {d0} /\ d2 \notin {d0} \union {d1}
    BY <1>3 DEF d0, d1, d2
  <2>2. IsFiniteSet({d0} \union {d1}) /\ Cardinality({d0} \union {d1}) = 1 + 1
    BY <2>0, <2>1, FS_AddElement
  <2>3. Cardinality(({d0} \union {d1}) \union {d2}) = (1 + 1) + 1
    BY <2>0, <2>2, FS_AddElement
  <2>4. ({d0} \union {d1}) \union {d2} = {d0, d1, d2}
    OBVIOUS
  <2> QED
    BY <2>3, <2>4, SMT
<1> QED
  BY <1>1, <1>2, <1>4, <1>5, <1>6 DEF d0, d1, d2

\* The descriptors of a request are not free.
LEMMA ChainTaken ==
    ASSUME TypeOK, ChainsOK, NEW p \in Procs, Submitted(p)
    PROVE  LET d0 == head[p]
               d1 == desc[d0].next
               d2 == desc[d1].next
           IN  /\ d0 \in Desc \ free /\ d1 \in Desc \ free /\ d2 \in Desc \ free
               /\ Chain(d0) = {d0, d1, d2} /\ info[d0].b = p
<1>1. Formatted(p)
  BY DEF ChainsOK
<1>2. \A d \in Chain(head[p]) : d \notin free
  BY DEF ChainsOK
<1>3. info[head[p]].b = p
  BY <1>1 DEF Formatted
<1> QED
  BY <1>1, <1>2, <1>3, ChainIs

\* A request whose descriptors a step leaves alone stays as it is.
LEMMA ChainSame ==
    ASSUME TypeOK, ChainsOK, NEW p \in Procs, Submitted(p),
           head'[p] = head[p], want'[p] = want[p], ops'[head[p]] = ops[head[p]],
           info'[head[p]].b = info[head[p]].b, \A d \in Chain(head[p]) : desc'[d] = desc[d]
    PROVE  Formatted(p)' /\ Chain(head[p])' = Chain(head[p])
<1> DEFINE d0 == head[p]
           d1 == desc[d0].next
           d2 == desc[d1].next
<1>1. Chain(d0) = {d0, d1, d2}
  BY ChainTaken
<1>2. desc'[d0] = desc[d0] /\ desc'[d1] = desc[d1] /\ desc'[d2] = desc[d2]
  BY <1>1
<1>3. head'[p] = d0 /\ desc'[d0].next = d1 /\ desc'[d1].next = d2
  BY <1>2
<1>4. Formatted(p)
  BY DEF ChainsOK
<1>5. Formatted(p)'
  BY <1>2, <1>3, <1>4, ZenonT(30) DEF Formatted
<1>6. Chain(head[p])' = {d0, d1, d2}
  <2>1. desc'[d0].more /\ desc'[d1].more
    BY <1>2, <1>4 DEF Formatted
  <2> HIDE DEF d0, d1, d2
  <2> QED
    BY <1>3, <2>1 DEF Chain
<1> QED
  BY <1>1, <1>5, <1>6

\* A step that leaves requests and their descriptors alone keeps the chains.
LEMMA ChainsKept ==
    ASSUME TypeOK, ChainsOK, head' = head, ops' = ops, free' = free,
           \A p \in Procs : Submitted(p)' <=> Submitted(p),
           \A p \in Procs : Submitted(p) => want'[p] = want[p],
           \A d \in Desc : info'[d].b = info[d].b,
           \A d \in Desc \ free : desc'[d] = desc[d]
    PROVE  ChainsOK'
<1>1. ASSUME NEW p \in Procs, Submitted(p)
      PROVE  Formatted(p)' /\ Chain(head[p])' = Chain(head[p])
  <2>1. Chain(head[p]) \subseteq Desc \ free /\ head[p] \in Desc
    BY <1>1, ChainTaken, SMT
  <2> QED
    BY <1>1, <2>1, ChainSame
<1>2. \A p \in Procs : Submitted(p)' => Formatted(p)'
  BY <1>1
<1>3. \A p, q \in Procs : p # q /\ Submitted(p)' /\ Submitted(q)' =>
          Chain(head[p])' \intersect Chain(head[q])' = {}
  BY <1>1 DEF ChainsOK
<1>4. UNION {Chain(head[p])' : p \in {q \in Procs : Submitted(q)'}}
        = UNION {Chain(head[p]) : p \in {q \in Procs : Submitted(q)}}
  BY <1>1
<1> QED
  BY <1>2, <1>3, <1>4 DEF ChainsOK

-----------------------------------------------------------------------------
(* Requests in the rings.                                                  *)

\* The rings of the next state.
LEMMA NextRings ==
    /\ Pending' = Window(avail', fetched', avail_idx')
    /\ Reported' = Window(used', seen', used_idx')
    /\ OneEach(avail, fetched, avail_idx)' <=> OneEach(avail', fetched', avail_idx')
    /\ OneEach(used, seen, used_idx)' <=> OneEach(used', seen', used_idx')
BY DEF Pending, Reported, Window, OneEach, Behind, Place

\* A request somebody waits for is a chain of its own.
LEMMA WaitingIs ==
    ASSUME TypeOK, ChainsOK, NEW d, Waiting(d)
    PROVE  /\ d \in Desc \ free /\ info[d].b \in Procs /\ Submitted(info[d].b)
           /\ pc[info[d].b] # "notify" /\ head[info[d].b] = d
<1>1. Submitted(info[d].b) /\ info[d].b \in Procs /\ head[info[d].b] = d /\ pc[info[d].b] # "notify"
  BY DEF Waiting, Submitted
<1> QED
  BY <1>1, ChainTaken

\* The descriptors of a request are no other's first one.
LEMMA WaitingApart ==
    ASSUME TypeOK, ChainsOK, NEW p \in Procs, Submitted(p), NEW d, Waiting(d), info[d].b # p
    PROVE  d \notin Chain(head[p])
<1> DEFINE q == info[d].b
<1>1. q \in Procs /\ Submitted(q) /\ head[q] = d
  BY WaitingIs
<1>2. d \in Chain(head[q])
  BY <1>1 DEF Chain
<1>3. Chain(head[p]) \intersect Chain(head[q]) = {}
  BY <1>1 DEF ChainsOK
<1> QED
  BY <1>2, <1>3

\* Two requests that somebody waits for are two processes'.
LEMMA WaitingOne ==
    ASSUME NEW c, Waiting(c), NEW d, Waiting(d), info[c].b = info[d].b
    PROVE  c = d
BY DEF Waiting

\* A step that leaves the rings and the requests in them alone.
LEMMA RingsKept ==
    ASSUME TypeOK, RingsOK, UNCHANGED <<avail, avail_idx, fetched, used, used_idx, seen, flight, moved>>,
           \A d \in Desc : Waiting(d) => /\ Waiting(d)' /\ info'[d].b = info[d].b
                                         /\ want'[info[d].b] = want[info[d].b]
    PROVE  RingsOK'
<1>1. Pending' = Pending /\ Reported' = Reported
  BY DEF Pending, Reported, Window
<1>2. OneEach(avail, fetched, avail_idx)' /\ OneEach(used, seen, used_idx)'
  BY SMT DEF RingsOK, OneEach, Behind
<1>3. \A d : Waiting(d) => d \in Desc
  BY DEF Waiting
<1>4. \A d \in Pending : Waiting(d)' /\ info'[d].b \notin moved
  BY <1>3 DEF RingsOK
<1>5. \A d \in Reported : Waiting(d)' /\ info'[d].b \in moved
  BY <1>3 DEF RingsOK
<1>6. \A r \in flight : /\ Waiting(r.id)' /\ r.id \notin Pending
                        /\ r.buf = info'[r.id].b /\ r.buf \notin moved
                        /\ r.status = r.id /\ r.op = want'[r.buf]
  BY <1>3, ZenonT(30) DEF RingsOK
<1> QED
  BY <1>1, <1>2, <1>4, <1>5, <1>6 DEF RingsOK

-----------------------------------------------------------------------------
(* Steps that move no request.                                             *)

\* The values of a process's step.
Steps == {"run", "alloc", "nofree", "notify", "wait", "check"}

\* A step that only moves processes about, or blanks free descriptors, keeps the invariant.
LEMMA Quiet ==
    ASSUME VirtioInv, TypeOK',
           UNCHANGED <<free, ops, info, avail, avail_idx, seen, bdisk, head, used, used_idx, fetched,
                       flight, moved>>,
           \A p \in Procs : Submitted(p)' <=> Submitted(p),
           \A p \in Procs : pc[p] \in {"wait", "check"} => pc'[p] \in {"wait", "check"},
           \A p \in Procs : pc'[p] = "notify" => pc[p] = "notify" /\ lock' = lock,
           \A p \in Procs : Submitted(p) /\ ~bdisk[p] => pc'[p] = pc[p],
           \A p \in Procs : Submitted(p) => want'[p] = want[p],
           \A d \in Desc \ free : desc'[d] = desc[d]
    PROVE  VirtioInv'
<1>1. TypeOK /\ RingsOK /\ LockOK /\ MovedOK /\ ChainsOK
  BY DEF VirtioInv
<1>2. ChainsOK'
  BY <1>1, ChainsKept
<1>3. MovedOK'
  BY <1>1 DEF MovedOK
<1>4. LockOK'
  BY <1>1 DEF LockOK
<1>5. ASSUME NEW d \in Desc, Waiting(d)
      PROVE  Waiting(d)' /\ want'[info[d].b] = want[info[d].b]
  <2>1. info[d].b \in Procs /\ Submitted(info[d].b)
    BY <1>1, <1>5, WaitingIs
  <2>2. want'[info[d].b] = want[info[d].b]
    BY <2>1
  <2>3. Waiting(d)'
    BY <1>5, <2>1 DEF Waiting
  <2> QED
    BY <2>2, <2>3
<1>6. RingsOK'
  BY <1>1, <1>5, RingsKept
<1> QED
  BY <1>2, <1>3, <1>4, <1>6 DEF VirtioInv

\* bread() or bwrite() calls the driver.
LEMMA Call ==
    ASSUME VirtioInv, NEW p \in Procs, NEW op \in Ops, call(p, op)
    PROVE  VirtioInv'
<1>1. TypeOK
  BY DEF VirtioInv
<1>2. pc \in [Procs -> Steps] /\ want \in [Procs -> Ops \union {NULL}]
  BY <1>1 DEF TypeOK, Steps
<1>3. pc' \in [Procs -> Steps] /\ want' \in [Procs -> Ops \union {NULL}]
  BY <1>2 DEF call, Steps
<1>4. UNCHANGED <<free, desc, ops, info, avail, avail_idx, seen, bdisk, lock, head, used, used_idx,
                  irq, fetched, flight, moved>>
  BY DEF call, device
<1>5. TypeOK'
  BY <1>1, <1>3, <1>4 DEF TypeOK, Steps
<1>6. pc[p] = "run" /\ pc'[p] = "alloc" /\ \A q \in Procs \ {p} : pc'[q] = pc[q] /\ want'[q] = want[q]
  BY <1>2 DEF call
<1>7. \A q \in Procs : Submitted(q)' <=> Submitted(q)
  BY <1>6 DEF Submitted
<1>8. \A q \in Procs : Submitted(q) => q # p
  BY <1>6 DEF Submitted
<1>9. \A q \in Procs : pc[q] \in {"wait", "check", "notify"} => Submitted(q)
  BY DEF Submitted
<1> QED
  BY <1>4, <1>5, <1>6, <1>7, <1>8, <1>9, Quiet

\* kill() makes a sleeping process runnable.
LEMMA Kill ==
    ASSUME VirtioInv, NEW p \in Procs, kill(p)
    PROVE  VirtioInv'
<1>1. TypeOK /\ MovedOK
  BY DEF VirtioInv
<1>2. pc \in [Procs -> Steps]
  BY <1>1 DEF TypeOK, Steps
<1>3. pc[p] \in {"nofree", "wait"} /\ pc' = [pc EXCEPT ![p] = IF pc[p] = "wait" THEN "check" ELSE "alloc"]
  BY DEF kill
<1>4. UNCHANGED <<free, desc, ops, info, avail, avail_idx, seen, bdisk, lock, head, want, used,
                  used_idx, irq, fetched, flight, moved>>
  BY DEF kill, device
<1>5. pc'[p] = (IF pc[p] = "wait" THEN "check" ELSE "alloc") /\ \A q \in Procs \ {p} : pc'[q] = pc[q]
  BY <1>2, <1>3
<1>6. pc' \in [Procs -> Steps]
  BY <1>2, <1>3 DEF Steps
<1>7. TypeOK'
  BY <1>1, <1>4, <1>6 DEF TypeOK, Steps
<1>8. \A q \in Procs : Submitted(q)' <=> Submitted(q)
  BY <1>3, <1>5, SMT DEF Submitted
<1>9. \A q \in Procs : Submitted(q) /\ ~bdisk[q] => q # p
  BY <1>1, <1>3 DEF MovedOK
<1> QED
  BY <1>3, <1>4, <1>5, <1>7, <1>8, <1>9, Quiet, SMT

\* alloc3_desc() fails.
LEMMA AllocFails ==
    ASSUME VirtioInv, NEW p \in Procs, alloc_fails(p)
    PROVE  VirtioInv'
<1>1. TypeOK
  BY DEF VirtioInv
<1>2. pc \in [Procs -> Steps] /\ desc \in [Desc -> Descriptors] /\ pc[p] = "alloc"
  BY <1>1 DEF TypeOK, Steps, alloc_fails
<1>3. UNCHANGED <<free, ops, info, avail, avail_idx, seen, bdisk, lock, head, want, used, used_idx,
                  irq, fetched, flight, moved>>
  BY DEF alloc_fails, device
<1>4. desc' = [d \in Desc |-> IF d \in free THEN Blank ELSE desc[d]] /\ Blank \in Descriptors
  <2>1. 0 \in Desc
    BY VirtioAssumption, SMT DEF Desc
  <2> QED
    BY <2>1 DEF alloc_fails, Blank, Descriptors
<1>5. desc' \in [Desc -> Descriptors] /\ \A d \in Desc \ free : desc'[d] = desc[d]
  BY <1>2, <1>4
<1>6. Wake_free \in [Procs -> Steps]
      /\ \A q \in Procs : Wake_free[q] = pc[q] \/ (pc[q] = "nofree" /\ Wake_free[q] = "alloc")
  BY <1>2 DEF Wake_free, Steps
<1>7. pc' \in [Procs -> Steps] /\ pc'[p] = "nofree"
      /\ \A q \in Procs \ {p} : pc'[q] = pc[q] \/ (pc[q] = "nofree" /\ pc'[q] = "alloc")
  BY <1>2, <1>6 DEF alloc_fails, Steps
<1>8. TypeOK'
  BY <1>1, <1>3, <1>5, <1>7 DEF TypeOK, Steps
<1>9. \A q \in Procs : Submitted(q)' <=> Submitted(q)
  BY <1>2, <1>7 DEF Submitted
<1>10. \A q \in Procs : Submitted(q) => pc'[q] = pc[q]
  BY <1>2, <1>7 DEF Submitted
<1>11. \A q \in Procs : pc[q] \in {"wait", "check"} => Submitted(q)
  BY DEF Submitted
<1>12. \A q \in Procs : pc'[q] = "notify" => pc[q] = "notify" /\ lock' = lock
  BY <1>3, <1>7
<1> QED
  BY <1>3, <1>5, <1>8, <1>9, <1>10, <1>11, <1>12, Quiet

\* virtio_disk_intr() begins.
LEMMA IntrBegin ==
    ASSUME VirtioInv, intr_begin
    PROVE  VirtioInv'
<1>1. TypeOK /\ LockOK
  BY DEF VirtioInv
<1>2. lock = NULL /\ lock' = "intr" /\ irq' = FALSE
      /\ UNCHANGED <<free, desc, ops, info, avail, avail_idx, seen, bdisk, pc, head, want, used,
                     used_idx, fetched, flight, moved>>
  BY DEF intr_begin
<1>3. TypeOK'
  BY <1>1, <1>2 DEF TypeOK
<1>4. \A q \in Procs : pc[q] # "notify"
  BY <1>1, <1>2, VirtioAssumption DEF LockOK
<1> QED
  BY <1>2, <1>3, <1>4, Quiet DEF Submitted

\* virtio_disk_intr() ends.
LEMMA IntrEnd ==
    ASSUME VirtioInv, intr_end
    PROVE  VirtioInv'
<1>1. TypeOK /\ LockOK
  BY DEF VirtioInv
<1>2. lock = "intr" /\ lock' = NULL
      /\ UNCHANGED <<free, desc, ops, info, avail, avail_idx, seen, bdisk, pc, head, want, used,
                     used_idx, irq, fetched, flight, moved>>
  BY DEF intr_end, device
<1>3. TypeOK'
  BY <1>1, <1>2 DEF TypeOK
<1>4. \A q \in Procs : pc[q] # "notify"
  BY <1>1, <1>2, VirtioAssumption, ZenonT(30) DEF LockOK
<1> QED
  BY <1>2, <1>3, <1>4, Quiet DEF Submitted

\* The process finds its buffer still in use and sleeps again.
LEMMA CheckBusy ==
    ASSUME VirtioInv, NEW p \in Procs, check(p), bdisk[p]
    PROVE  VirtioInv'
<1>1. TypeOK
  BY DEF VirtioInv
<1>2. pc \in [Procs -> Steps]
  BY <1>1 DEF TypeOK, Steps
<1>3. pc[p] = "check" /\ pc' = [pc EXCEPT ![p] = "wait"]
      /\ UNCHANGED <<free, desc, ops, info, head, want, moved>>
      /\ UNCHANGED <<avail, avail_idx, seen, bdisk, lock, used, used_idx, irq, fetched, flight>>
  BY DEF check, Busy
<1>4. pc' \in [Procs -> Steps] /\ pc'[p] = "wait" /\ \A q \in Procs \ {p} : pc'[q] = pc[q]
  BY <1>2, <1>3 DEF Steps
<1>5. TypeOK'
  BY <1>1, <1>3, <1>4, ZenonT(30) DEF TypeOK, Steps
<1>6. \A q \in Procs : Submitted(q)' <=> Submitted(q)
  BY <1>3, <1>4 DEF Submitted
<1>7. \A q \in Procs : ~bdisk[q] => q # p
  OBVIOUS
<1> QED
  BY <1>3, <1>4, <1>5, <1>6, <1>7, Quiet

-----------------------------------------------------------------------------
(* Steps that move a request.                                              *)

\* The avail index takes in the request of the process that holds the lock.
LEMMA Notify ==
    ASSUME VirtioInv, NEW p \in Procs, notify(p)
    PROVE  VirtioInv'
<1> DEFINE c == head[p]
           d == desc[c].next
<1>1. TypeOK /\ RingsOK /\ LockOK /\ MovedOK /\ ChainsOK
  BY DEF VirtioInv
<1>2. pc[p] = "notify" /\ Submitted(p) /\ bdisk[p] /\ p \notin moved /\ avail[avail_idx % NUM] = c /\ lock = p
  BY <1>1 DEF notify, LockOK, Submitted
<1>3. /\ avail_idx' = (avail_idx + 1) % WORD /\ pc' = [pc EXCEPT ![p] = "wait"] /\ lock' = NULL
      /\ UNCHANGED <<free, desc, ops, info, avail, seen, bdisk, head, want, used, used_idx, irq,
                     fetched, flight, moved>>
  BY <1>2 DEF notify, Succ, device
<1>4. /\ pc \in [Procs -> Steps] /\ avail_idx \in 0 .. WORD - 1 /\ fetched \in 0 .. WORD - 1
  BY <1>1 DEF TypeOK, Steps
<1>5. pc' \in [Procs -> Steps] /\ pc'[p] = "wait" /\ \A q \in Procs \ {p} : pc'[q] = pc[q]
  BY <1>3, <1>4 DEF Steps
<1>6. TypeOK'
  <2>1. avail_idx' \in 0 .. WORD - 1
    BY <1>3, <1>4, NextIs
  <2> QED
    BY <1>1, <1>3, <1>5, <2>1, ZenonT(30) DEF TypeOK, Steps
<1>7. \A q \in Procs : Submitted(q)' <=> Submitted(q)
  BY <1>2, <1>5 DEF Submitted
<1>8. ChainsOK'
  BY <1>1, <1>3, <1>7, ChainsKept, ZenonT(30)
<1>9. MovedOK'
  BY <1>1, <1>2, <1>3, <1>5, <1>7 DEF MovedOK
<1>10. LockOK'
  BY <1>1, <1>2, <1>3, <1>5 DEF LockOK
<1>11. c \in Desc /\ d \in Desc /\ c # d /\ {c, d} \subseteq Chain(c) /\ info[c].b = p
  <2>1. Formatted(p)
    BY <1>1, <1>2 DEF ChainsOK
  <2> QED
    BY <1>1, <1>2, <2>1, ChainTaken, ZenonT(30) DEF Formatted
<1>12. \A e : Waiting(e) => /\ e \notin {c, d} /\ info[e].b # p /\ Waiting(e)'
  <2> SUFFICES ASSUME NEW e, Waiting(e) PROVE e \notin {c, d} /\ info[e].b # p /\ Waiting(e)'
    OBVIOUS
  <2>1. info[e].b \in Procs /\ info[e].b # p
    BY <1>1, <1>2, WaitingIs
  <2>2. e \notin Chain(head[p])
    BY <1>1, <1>2, <2>1, WaitingApart
  <2>3. Waiting(e)'
    BY <1>3, <1>5, <2>1, ZenonT(30) DEF Waiting
  <2> QED
    BY <1>11, <2>1, <2>2, <2>3
<1>13. Pending \subseteq Desc \ {c, d}
  BY <1>1, <1>12 DEF RingsOK, Waiting
<1>14. OneEach(avail, fetched, avail_idx) /\ Behind(fetched, avail_idx) + 1 < NUM
  BY <1>1, <1>4, <1>11, <1>13, RingRoom DEF RingsOK, Pending
<1>15. Pending' = Pending \union {c} /\ OneEach(avail, fetched, avail_idx)'
  <2>1. avail[avail_idx % NUM] \notin Window(avail, fetched, avail_idx)
    BY <1>2, <1>13, ZenonT(30) DEF Pending
  <2>2. /\ Window(avail, fetched, (avail_idx + 1) % WORD) = Window(avail, fetched, avail_idx) \union {c}
        /\ OneEach(avail, fetched, (avail_idx + 1) % WORD)
    BY <1>2, <1>4, <1>14, <2>1, RingGrow, SMT
  <2> QED
    BY <1>3, <2>2, SMT DEF Pending, Window, OneEach, Behind
<1>16. Reported' = Reported /\ OneEach(used, seen, used_idx)'
  BY <1>1, <1>3, SMT DEF Reported, Window, RingsOK, OneEach, Behind
<1>17. Waiting(c)'
  BY <1>2, <1>3, <1>5, <1>11 DEF Waiting
<1>18. RingsOK'
  <2>1. \A e \in Pending' : Waiting(e)' /\ info'[e].b \notin moved'
    BY <1>1, <1>2, <1>3, <1>11, <1>12, <1>15, <1>17, ZenonT(30) DEF RingsOK
  <2>2. \A e \in Reported' : Waiting(e)' /\ info'[e].b \in moved'
    BY <1>1, <1>3, <1>12, <1>16 DEF RingsOK
  <2>3. \A r \in flight' : /\ Waiting(r.id)' /\ r.id \notin Pending'
                           /\ r.buf = info'[r.id].b /\ r.buf \notin moved'
                           /\ r.status = r.id /\ r.op = want'[r.buf]
    BY <1>1, <1>3, <1>12, <1>15 DEF RingsOK
  <2> QED
    BY <1>15, <1>16, <2>1, <2>2, <2>3 DEF RingsOK
<1> QED
  BY <1>6, <1>8, <1>9, <1>10, <1>18, ZenonT(30) DEF VirtioInv

\* alloc3_desc() succeeds and the request is formatted.
LEMMA Submit ==
    ASSUME VirtioInv, NEW p \in Procs, submit(p)
    PROVE  VirtioInv'
<1> DEFINE d0 == Nth(1)
           d1 == Nth(2)
           d2 == Nth(3)
           e0 == [addr |-> d0, next |-> d1, more |-> TRUE]
           e1 == [addr |-> p, next |-> d2, more |-> TRUE]
           e2 == [addr |-> d0, next |-> 0, more |-> FALSE]
           i0 == [b |-> p, status |-> "ff"]
<1>1. TypeOK /\ RingsOK /\ LockOK /\ MovedOK /\ ChainsOK
  BY DEF VirtioInv
<1>2. /\ pc[p] = "alloc" /\ lock = NULL /\ Cardinality(free) >= 3 /\ free \in SUBSET Desc
  BY <1>1 DEF submit, TypeOK
<1>3. d0 \in free /\ d1 \in free /\ d2 \in free /\ d0 # d1 /\ d0 # d2 /\ d1 # d2
      /\ d0 \in Desc /\ d1 \in Desc /\ d2 \in Desc
  BY <1>2, Allocated
<1>4. /\ free' = free \ {d0, d1, d2} /\ ops' = [ops EXCEPT ![d0] = want[p]]
      /\ desc' = [desc EXCEPT ![d0] = e0, ![d1] = e1, ![d2] = e2]
      /\ info' = [info EXCEPT ![d0] = i0] /\ avail' = [avail EXCEPT ![avail_idx % NUM] = d0]
      /\ head' = [head EXCEPT ![p] = d0] /\ bdisk' = [bdisk EXCEPT ![p] = TRUE]
      /\ pc' = [pc EXCEPT ![p] = "notify"] /\ lock' = p
      /\ UNCHANGED <<avail_idx, seen, want, used, used_idx, irq, fetched, flight, moved>>
  BY DEF submit, device
<1> HIDE DEF d0, d1, d2
<1>5. /\ pc \in [Procs -> Steps] /\ avail_idx \in 0 .. WORD - 1 /\ fetched \in 0 .. WORD - 1
      /\ desc \in [Desc -> Descriptors] /\ ops \in [Desc -> Ops \union {NULL}]
      /\ info \in [Desc -> [b : Procs \union {NULL}, status : {"0", "ff"}]]
      /\ avail \in [Desc -> Desc \union {NULL}] /\ bdisk \in [Procs -> BOOLEAN]
      /\ head \in [Procs -> Desc] /\ want \in [Procs -> Ops \union {NULL}]
  BY <1>1 DEF TypeOK, Steps
<1>6. e0 \in Descriptors /\ e1 \in Descriptors /\ e2 \in Descriptors
      /\ i0 \in [b : Procs \union {NULL}, status : {"0", "ff"}]
  <2>1. 0 \in Desc
    BY VirtioAssumption, SMT DEF Desc
  <2> QED
    BY <1>3, <2>1, ZenonT(30) DEF Descriptors
<1>7. /\ e0.next = d1 /\ e0.more /\ e1.next = d2 /\ e1.more /\ e1.addr = p /\ ~e2.more /\ e2.addr = d0
      /\ i0.b = p
  OBVIOUS
<1> HIDE DEF e0, e1, e2, i0
<1>8. /\ desc' \in [Desc -> Descriptors] /\ desc'[d0] = e0 /\ desc'[d1] = e1 /\ desc'[d2] = e2
      /\ \A d \in Desc \ free : desc'[d] = desc[d]
  BY <1>3, <1>4, <1>5, <1>6
<1>9. /\ info' \in [Desc -> [b : Procs \union {NULL}, status : {"0", "ff"}]] /\ info'[d0] = i0
      /\ \A d \in Desc \ free : info'[d] = info[d]
  BY <1>3, <1>4, <1>5, <1>6, ZenonT(30)
<1>10. /\ ops' \in [Desc -> Ops \union {NULL}] /\ ops'[d0] = want[p]
       /\ \A d \in Desc \ free : ops'[d] = ops[d]
  BY <1>3, <1>4, <1>5, ZenonT(30)
<1>11. /\ head' \in [Procs -> Desc] /\ head'[p] = d0 /\ bdisk' \in [Procs -> BOOLEAN] /\ bdisk'[p]
       /\ pc' \in [Procs -> Steps] /\ pc'[p] = "notify"
       /\ \A q \in Procs \ {p} : head'[q] = head[q] /\ bdisk'[q] = bdisk[q] /\ pc'[q] = pc[q]
  BY <1>3, <1>4, <1>5 DEF Steps
<1>12. /\ OneEach(avail', fetched, avail_idx) /\ Window(avail', fetched, avail_idx) = Pending
       /\ avail'[avail_idx % NUM] = d0 /\ avail' \in [Desc -> Desc \union {NULL}]
  <2>1. OneEach(avail, fetched, avail_idx) /\ DOMAIN avail = Desc
    BY <1>1, <1>5 DEF RingsOK
  <2>2. avail_idx % NUM \in Desc
    BY <1>5, Places
  <2>3. avail' \in [Desc -> Desc \union {NULL}]
    BY <1>3, <1>4, <1>5, <2>2, ZenonT(30)
  <2>4. avail'[avail_idx % NUM] = d0 /\ \A d \in Desc \ {avail_idx % NUM} : avail'[d] = avail[d]
    BY <1>4, <2>1, <2>2
  <2>5. Window(avail', fetched, avail_idx) = Window(avail, fetched, avail_idx) /\ OneEach(avail', fetched, avail_idx)
    <3>1. avail_idx \in 0 .. WORD - 1 /\ fetched \in 0 .. WORD - 1
      BY <1>5, ZenonT(30)
    <3> QED
      BY <2>1, <2>4, <3>1, RingWrite
  <2> QED
    BY <2>3, <2>4, <2>5, ZenonT(30) DEF Pending
<1>13. TypeOK'
  <2>1. free' \in SUBSET Desc /\ lock' \in Procs \union {"intr", NULL}
    BY <1>2, <1>4
  <2> QED
    BY <1>1, <1>4, <1>8, <1>9, <1>10, <1>11, <1>12, <2>1, ZenonT(30) DEF TypeOK, Steps
<1>14. ~Submitted(p) /\ Submitted(p)' /\ \A q \in Procs \ {p} : Submitted(q)' <=> Submitted(q)
  BY <1>2, <1>11, ZenonT(30) DEF Submitted
<1>15. ~bdisk[p] /\ p \notin moved
  BY <1>1, <1>14 DEF MovedOK
<1>16. ASSUME NEW q \in Procs, Submitted(q)
       PROVE  /\ q # p /\ Formatted(q)' /\ Chain(head[q])' = Chain(head[q])
              /\ head[q] \in Desc \ free /\ Chain(head[q]) \intersect free = {}
  <2>1. q # p
    BY <1>14, <1>16, ZenonT(30)
  <2>2. head[q] \in Desc \ free /\ Chain(head[q]) \subseteq Desc \ free
    BY <1>1, <1>16, ChainTaken, SMT
  <2>3. Formatted(q)' /\ Chain(head[q])' = Chain(head[q])
    BY <1>1, <1>4, <1>8, <1>9, <1>10, <1>11, <1>16, <2>1, <2>2, ChainSame, ZenonT(30)
  <2> QED
    BY <2>1, <2>2, <2>3
<1>17. Formatted(p)' /\ Chain(head[p])' = {d0, d1, d2}
  <2>1. Formatted(p)'
    BY <1>3, <1>4, <1>7, <1>8, <1>9, <1>10, <1>11, ZenonT(30) DEF Formatted
  <2>2. Chain(head[p])' = {d0, d1, d2}
    BY <1>7, <1>8, <1>11, ZenonT(30) DEF Chain
  <2> QED
    BY <2>1, <2>2, ZenonT(30)
<1>18. ChainsOK'
  <2>1. \A q \in Procs : Submitted(q)' => Formatted(q)'
    BY <1>14, <1>16, <1>17
  <2>2. \A q, r \in Procs : q # r /\ Submitted(q)' /\ Submitted(r)' =>
            Chain(head[q])' \intersect Chain(head[r])' = {}
    <3>1. ASSUME NEW q \in Procs \ {p}, Submitted(q)
          PROVE  Chain(head[q])' \intersect Chain(head[p])' = {}
      BY <1>3, <1>16, <1>17, <3>1
    <3>2. ASSUME NEW q \in Procs \ {p}, NEW r \in Procs \ {p}, q # r, Submitted(q), Submitted(r)
          PROVE  Chain(head[q])' \intersect Chain(head[r])' = {}
      BY <1>1, <1>16, <3>2, ZenonT(30) DEF ChainsOK
    <3> QED
      BY <1>14, <3>1, <3>2, ZenonT(30)
  <2>3. UNION {Chain(head[q])' : q \in {s \in Procs : Submitted(s)'}}
          = {d0, d1, d2} \union UNION {Chain(head[q]) : q \in {s \in Procs : Submitted(s)}}
    <3>1. ASSUME NEW d PROVE (\E q \in Procs : Submitted(q)' /\ d \in Chain(head[q])')
                         <=> (d \in {d0, d1, d2} \/ \E q \in Procs : Submitted(q) /\ d \in Chain(head[q]))
      BY <1>14, <1>16, <1>17
    <3> QED
      BY <3>1
  <2>4. free = Desc \ UNION {Chain(head[q]) : q \in {s \in Procs : Submitted(s)}}
    BY <1>1, ZenonT(30) DEF ChainsOK
  <2>5. free' = Desc \ UNION {Chain(head[q])' : q \in {s \in Procs : Submitted(s)'}}
    BY <1>4, <2>3, <2>4, ZenonT(30)
  <2> QED
    BY <2>1, <2>2, <2>5 DEF ChainsOK
<1>19. MovedOK'
  <2>1. \A q \in Procs \ {p} : ~Submitted(q)' => ~bdisk'[q] /\ q \notin moved'
    BY <1>1, <1>4, <1>11, <1>14, ZenonT(30) DEF MovedOK
  <2>2. \A q \in Procs : q \in moved' => Submitted(q)
    BY <1>1, <1>4, ZenonT(30) DEF MovedOK
  <2>3. \A q \in Procs : q \in moved' => info'[head'[q]].status = "0"
    BY <1>1, <1>4, <1>9, <1>11, <1>16, <2>2, ZenonT(30) DEF MovedOK
  <2>4. \A q \in Procs \ {p} : Submitted(q)' /\ ~bdisk'[q] => q \in moved' /\ pc'[q] = "check"
    BY <1>1, <1>4, <1>11, <1>14, ZenonT(30) DEF MovedOK
  <2> QED
    BY <1>11, <1>14, <2>1, <2>3, <2>4 DEF MovedOK
<1>20. LockOK'
  <2>1. \A q \in Procs \ {p} : pc'[q] # "notify"
    BY <1>1, <1>2, <1>11, VirtioAssumption DEF LockOK
  <2> QED
    BY <1>4, <1>11, <1>12, <1>15, <2>1, ZenonT(30) DEF LockOK
<1>21. ASSUME NEW d, Waiting(d)
       PROVE  Waiting(d)' /\ info'[d].b = info[d].b
  <2>1. d \in Desc \ free /\ info[d].b \in Procs /\ Submitted(info[d].b)
    BY <1>1, <1>21, WaitingIs
  <2>2. info[d].b # p /\ info'[d] = info[d]
    BY <1>9, <1>16, <2>1
  <2>3. PICK o \in Procs \ {p} : o = info[d].b /\ o = info'[d].b
    BY <2>1, <2>2
  <2>4. head'[o] = head[o] /\ bdisk'[o] = bdisk[o] /\ pc'[o] = pc[o]
    BY <1>11
  <2> QED
    BY <1>21, <2>3, <2>4 DEF Waiting
<1>22. RingsOK'
  <2>1. Pending' = Pending /\ OneEach(avail, fetched, avail_idx)'
    BY <1>4, <1>12, NextRings
  <2>2. Reported' = Reported /\ OneEach(used, seen, used_idx)'
    BY <1>1, <1>4, SMT DEF Reported, Window, RingsOK, OneEach, Behind
  <2>3. \A e \in Pending' : Waiting(e)' /\ info'[e].b \notin moved'
    BY <1>1, <1>4, <1>21, <2>1, SMT DEF RingsOK
  <2>4. \A e \in Reported' : Waiting(e)' /\ info'[e].b \in moved'
    BY <1>1, <1>4, <1>21, <2>2, SMT DEF RingsOK
  <2>5. \A r \in flight' : /\ Waiting(r.id)' /\ r.id \notin Pending'
                           /\ r.buf = info'[r.id].b /\ r.buf \notin moved'
                           /\ r.status = r.id /\ r.op = want'[r.buf]
    BY <1>1, <1>4, <1>21, <2>1 DEF RingsOK
  <2> QED
    BY <2>1, <2>2, <2>3, <2>4, <2>5 DEF RingsOK
<1> QED
  BY <1>13, <1>18, <1>19, <1>20, <1>22 DEF VirtioInv

\* The request is done: the process gives its chain back and returns.
LEMMA CheckDone ==
    ASSUME VirtioInv, NEW p \in Procs, check(p), ~bdisk[p]
    PROVE  VirtioInv'
<1> DEFINE c == head[p]
<1>1. TypeOK /\ RingsOK /\ LockOK /\ MovedOK /\ ChainsOK
  BY DEF VirtioInv
<1>2. pc[p] = "check" /\ Submitted(p) /\ lock = NULL
  BY DEF check, Submitted
<1>3. /\ pc' = [Wake_free EXCEPT ![p] = "run"] /\ info' = [info EXCEPT ![c].b = NULL]
      /\ free' = free \union Chain(c)
      /\ desc' = [d \in Desc |-> IF d \in Chain(c) THEN Blank ELSE desc[d]]
      /\ ops' = [ops EXCEPT ![c] = NULL] /\ moved' = moved \ {p}
      /\ head' = [head EXCEPT ![p] = 0] /\ want' = [want EXCEPT ![p] = NULL]
      /\ UNCHANGED <<avail, avail_idx, seen, bdisk, lock, used, used_idx, irq, fetched, flight>>
  BY DEF check, Busy
<1>4. /\ pc \in [Procs -> Steps] /\ free \in SUBSET Desc
      /\ desc \in [Desc -> Descriptors] /\ ops \in [Desc -> Ops \union {NULL}]
      /\ info \in [Desc -> [b : Procs \union {NULL}, status : {"0", "ff"}]]
      /\ head \in [Procs -> Desc] /\ want \in [Procs -> Ops \union {NULL}] /\ moved \in SUBSET Procs
  BY <1>1 DEF TypeOK, Steps
<1>5. c \in Desc /\ Chain(c) \subseteq Desc /\ c \in Chain(c) /\ info[c].b = p
  BY <1>1, <1>2, ChainTaken, SMT
<1>6. 0 \in Desc /\ Blank \in Descriptors
  <2>1. 0 \in Desc
    BY VirtioAssumption, SMT DEF Desc
  <2> QED
    BY <2>1 DEF Blank, Descriptors
<1>7. /\ Wake_free \in [Procs -> Steps]
      /\ \A q \in Procs : Wake_free[q] = pc[q] \/ (pc[q] = "nofree" /\ Wake_free[q] = "alloc")
  BY <1>4 DEF Wake_free, Steps
<1> HIDE DEF c
<1>8. /\ pc' \in [Procs -> Steps] /\ pc'[p] = "run"
      /\ \A q \in Procs \ {p} : pc'[q] = pc[q] \/ (pc[q] = "nofree" /\ pc'[q] = "alloc")
  BY <1>3, <1>7 DEF Steps
<1>9. /\ head' \in [Procs -> Desc] /\ want' \in [Procs -> Ops \union {NULL}]
      /\ \A q \in Procs \ {p} : head'[q] = head[q] /\ want'[q] = want[q]
  BY <1>3, <1>4, <1>6
<1>10. /\ info' \in [Desc -> [b : Procs \union {NULL}, status : {"0", "ff"}]]
       /\ \A d \in Desc \ {c} : info'[d] = info[d]
  <2>1. [info[c] EXCEPT !.b = NULL] \in [b : Procs \union {NULL}, status : {"0", "ff"}]
    BY <1>4, <1>5, ZenonT(30)
  <2>2. info' = [info EXCEPT ![c] = [info[c] EXCEPT !.b = NULL]]
    BY <1>3
  <2> QED
    BY <1>4, <1>5, <2>1, <2>2
<1>11. /\ desc' \in [Desc -> Descriptors] /\ ops' \in [Desc -> Ops \union {NULL}]
       /\ \A d \in Desc \ Chain(c) : desc'[d] = desc[d] /\ ops'[d] = ops[d]
  BY <1>3, <1>4, <1>5, <1>6
<1>12. TypeOK'
  <2>1. free' \in SUBSET Desc /\ moved' \in SUBSET Procs
    BY <1>3, <1>4, <1>5
  <2> QED
    BY <1>1, <1>3, <1>8, <1>9, <1>10, <1>11, <2>1 DEF TypeOK, Steps
<1>13. ~Submitted(p)' /\ \A q \in Procs \ {p} : Submitted(q)' <=> Submitted(q)
  BY <1>8 DEF Submitted
<1>14. \A q \in Procs \ {p} : Submitted(q) => pc'[q] = pc[q]
  BY <1>8 DEF Submitted
<1>15. ASSUME NEW q \in Procs \ {p}, Submitted(q)
       PROVE  /\ Formatted(q)' /\ Chain(head[q])' = Chain(head[q])
              /\ Chain(head[q]) \intersect Chain(c) = {} /\ head[q] \in Desc \ Chain(c)
  <2>1. Chain(head[q]) \intersect Chain(c) = {}
    BY <1>1, <1>2, <1>15 DEF ChainsOK, c
  <2>2. head[q] \in Chain(head[q]) /\ Chain(head[q]) \subseteq Desc
    BY <1>1, <1>15, ChainTaken, SMT
  <2>3. head[q] \in Desc \ Chain(c) /\ head[q] # c
    BY <1>5, <2>1, <2>2
  <2>4. \A d \in Chain(head[q]) : desc'[d] = desc[d]
    BY <1>11, <2>1, <2>2, ZenonT(30)
  <2>5. Formatted(q)' /\ Chain(head[q])' = Chain(head[q])
    BY <1>1, <1>9, <1>10, <1>11, <1>15, <2>3, <2>4, ChainSame
  <2> QED
    BY <2>1, <2>3, <2>5
<1>16. ChainsOK'
  <2>1. \A q \in Procs : Submitted(q)' => Formatted(q)'
    BY <1>13, <1>15
  <2>2. \A q, r \in Procs : q # r /\ Submitted(q)' /\ Submitted(r)' =>
            Chain(head[q])' \intersect Chain(head[r])' = {}
    <3>1. ASSUME NEW q \in Procs \ {p}, NEW r \in Procs \ {p}, q # r, Submitted(q), Submitted(r)
          PROVE  Chain(head[q])' \intersect Chain(head[r])' = {}
      BY <1>1, <1>15, <3>1 DEF ChainsOK
    <3> QED
      BY <1>13, <3>1
  <2>3. free' = Desc \ UNION {Chain(head[q])' : q \in {s \in Procs : Submitted(s)'}}
    <3>1. ASSUME NEW d \in Desc
          PROVE  d \in free <=> ~\E q \in Procs : Submitted(q) /\ d \in Chain(head[q])
      BY <1>1, ZenonT(30) DEF ChainsOK
    <3>2. ASSUME NEW d \in Desc
          PROVE  d \in free' <=> ~\E q \in Procs : Submitted(q)' /\ d \in Chain(head[q])'
      <4>1. d \in free' <=> d \in free \/ d \in Chain(c)
        BY <1>3
      <4>2. (\E q \in Procs : Submitted(q) /\ d \in Chain(head[q]))
              <=> d \in Chain(c) \/ \E q \in Procs \ {p} : Submitted(q) /\ d \in Chain(head[q])
        BY <1>2 DEF c
      <4>3. (\E q \in Procs : Submitted(q)' /\ d \in Chain(head[q])')
              <=> \E q \in Procs \ {p} : Submitted(q) /\ d \in Chain(head[q])
        BY <1>13, <1>15
      <4>4. d \in Chain(c) => ~\E q \in Procs \ {p} : Submitted(q) /\ d \in Chain(head[q])
        BY <1>15
      <4> QED
        BY <3>1, <4>1, <4>2, <4>3, <4>4
    <3>3. free' \subseteq Desc
      BY <1>3, <1>4, <1>5
    <3> QED
      BY <3>2, <3>3
  <2> QED
    BY <2>1, <2>2, <2>3 DEF ChainsOK
<1>17. MovedOK'
  <2>1. ~bdisk'[p] /\ p \notin moved'
    BY <1>3
  <2>2. ASSUME NEW q \in Procs \ {p}, q \in moved PROVE info'[head'[q]].status = "0"
    <3>1. Submitted(q)
      BY <1>1, <2>2, ZenonT(30) DEF MovedOK
    <3>2. info'[head'[q]] = info[head[q]]
      BY <1>5, <1>9, <1>10, <1>15, <3>1, ZenonT(30)
    <3> QED
      BY <1>1, <2>2, <3>2 DEF MovedOK
  <2>3. \A q \in Procs \ {p} : /\ ~Submitted(q)' => ~bdisk'[q] /\ q \notin moved'
                               /\ Submitted(q)' /\ ~bdisk'[q] => q \in moved' /\ pc'[q] = "check"
    BY <1>1, <1>3, <1>13, <1>14 DEF MovedOK
  <2> QED
    BY <1>3, <1>13, <2>1, <2>2, <2>3, ZenonT(30) DEF MovedOK
<1>18. LockOK'
  <2>1. \A q \in Procs : pc[q] # "notify"
    BY <1>1, <1>2, VirtioAssumption, ZenonT(30) DEF LockOK
  <2> QED
    BY <1>8, <2>1, ZenonT(30) DEF LockOK
<1>19. ASSUME NEW d, Waiting(d)
       PROVE  Waiting(d)' /\ info[d].b # p /\ info'[d].b = info[d].b /\ want'[info[d].b] = want[info[d].b]
  <2>1. info[d].b # p /\ bdisk[info[d].b]
    BY <1>19, ZenonT(30) DEF Waiting
  <2>2. d \in Desc /\ info[d].b \in Procs \ {p} /\ Submitted(info[d].b) /\ head[info[d].b] = d
    BY <1>1, <1>19, <2>1, WaitingIs, ZenonT(30)
  <2>3. d # c /\ info'[d] = info[d]
    BY <1>5, <1>10, <2>1, <2>2
  <2>4. pc'[info[d].b] = pc[info[d].b]
    BY <1>14, <2>2, ZenonT(30)
  <2> QED
    BY <1>3, <1>9, <1>19, <2>1, <2>2, <2>3, <2>4 DEF Waiting
<1>20. RingsOK'
  <2>1. Pending' = Pending /\ OneEach(avail, fetched, avail_idx)'
    BY <1>1, <1>3, NextRings DEF RingsOK, Pending
  <2>2. Reported' = Reported /\ OneEach(used, seen, used_idx)'
    BY <1>1, <1>3, NextRings, ZenonT(30) DEF RingsOK, Reported
  <2>3. \A e \in Pending' : Waiting(e)' /\ info'[e].b \notin moved'
    BY <1>1, <1>3, <1>19, <2>1, SMT DEF RingsOK
  <2>4. \A e \in Reported' : Waiting(e)' /\ info'[e].b \in moved'
    BY <1>1, <1>3, <1>19, <2>2, SMT DEF RingsOK
  <2>5. \A r \in flight' : /\ Waiting(r.id)' /\ r.id \notin Pending'
                           /\ r.buf = info'[r.id].b /\ r.buf \notin moved'
                           /\ r.status = r.id /\ r.op = want'[r.buf]
    BY <1>1, <1>3, <1>19, <2>1, SMT DEF RingsOK
  <2> QED
    BY <2>1, <2>2, <2>3, <2>4, <2>5, ZenonT(30) DEF RingsOK
<1> QED
  BY <1>12, <1>16, <1>17, <1>18, <1>20 DEF VirtioInv

\* virtio_disk_intr() gives back the buffer of one completed request.
LEMMA IntrEntry ==
    ASSUME VirtioInv, intr_entry
    PROVE  VirtioInv'
<1> DEFINE e == Completed
           o == info[e].b
<1>1. TypeOK /\ RingsOK /\ LockOK /\ MovedOK /\ ChainsOK
  BY DEF VirtioInv
<1>2. /\ seen \in 0 .. WORD - 1 /\ used_idx \in 0 .. WORD - 1 /\ seen # used_idx
      /\ used \in [Desc -> Desc \union {NULL}] /\ pc \in [Procs -> Steps] /\ bdisk \in [Procs -> BOOLEAN]
  BY <1>1 DEF TypeOK, Steps, intr_entry
<1>3. /\ bdisk' = [p \in Procs |-> bdisk[p] /\ p # o]
      /\ pc' = [p \in Procs |-> IF p = o /\ pc[p] = "wait" THEN "check" ELSE pc[p]]
      /\ used' = [used EXCEPT ![seen % NUM] = NULL] /\ seen' = (seen + 1) % WORD
      /\ UNCHANGED <<free, desc, ops, info, avail, avail_idx, lock, head, want, used_idx, irq,
                     fetched, flight, moved>>
  BY DEF intr_entry, Finished, Succ
<1>4. /\ e \in Reported /\ Window(used', seen', used_idx) = Reported \ {e} /\ OneEach(used', seen', used_idx)
  <2>1. OneEach(used, seen, used_idx) /\ DOMAIN used = Desc
    BY <1>1, <1>2 DEF RingsOK
  <2>2. used' = [used EXCEPT ![seen % NUM] = NULL] /\ seen' = (seen + 1) % WORD
    BY <1>3
  <2>3. /\ used[seen % NUM] \in Window(used, seen, used_idx)
        /\ Window(used', (seen + 1) % WORD, used_idx) = Window(used, seen, used_idx) \ {used[seen % NUM]}
        /\ OneEach(used', (seen + 1) % WORD, used_idx)
    <3>1. seen \in 0 .. WORD - 1 /\ used_idx \in 0 .. WORD - 1 /\ seen # used_idx
      BY <1>2
    <3> QED
      BY <2>1, <2>2, <3>1, RingTake
  <2> QED
    BY <2>2, <2>3 DEF Reported, Completed
<1>5. Waiting(e) /\ o \in moved
  BY <1>1, <1>4 DEF RingsOK
<1> HIDE DEF e
<1>6. o \in Procs /\ pc[o] \in {"wait", "check"} /\ Submitted(o)
  BY <1>5 DEF Waiting, Submitted
<1> HIDE DEF o
<1>7. /\ pc' \in [Procs -> Steps] /\ bdisk' \in [Procs -> BOOLEAN]
      /\ pc'[o] = "check" /\ ~bdisk'[o]
      /\ \A q \in Procs \ {o} : pc'[q] = pc[q] /\ (bdisk'[q] <=> bdisk[q])
  <2>1. pc'[o] = "check"
    BY <1>3, <1>6
  <2>2. pc' \in [Procs -> Steps]
    BY <1>2, <1>3 DEF Steps
  <2>3. bdisk' \in [Procs -> BOOLEAN] /\ ~bdisk'[o] /\ \A q \in Procs \ {o} : bdisk'[q] <=> bdisk[q]
    BY <1>2, <1>3, <1>6
  <2> QED
    BY <1>3, <2>1, <2>2, <2>3
<1>8. TypeOK'
  <2>1. seen' \in 0 .. WORD - 1
    BY <1>2, <1>3, NextIs
  <2>2. seen % NUM \in Desc
    BY <1>2, Places, ZenonT(30)
  <2>3. used' \in [Desc -> Desc \union {NULL}]
    BY <1>2, <1>3, <2>2
  <2> QED
    BY <1>1, <1>3, <1>7, <2>1, <2>3 DEF TypeOK, Steps
<1>9. \A q \in Procs : Submitted(q)' <=> Submitted(q)
  BY <1>6, <1>7 DEF Submitted
<1>10. ChainsOK'
  BY <1>1, <1>3, <1>9, ChainsKept, ZenonT(30)
<1>11. MovedOK'
  <2>1. \A q \in Procs \ {o} : /\ ~Submitted(q)' => ~bdisk'[q]
                               /\ Submitted(q)' /\ ~bdisk'[q] => q \in moved' /\ pc'[q] = "check"
    BY <1>1, <1>3, <1>7, <1>9 DEF MovedOK
  <2>2. \A q \in Procs : /\ ~Submitted(q)' => q \notin moved'
                         /\ q \in moved' => info'[head'[q]].status = "0"
    BY <1>1, <1>3, <1>9, ZenonT(30) DEF MovedOK
  <2> QED
    BY <1>3, <1>5, <1>6, <1>7, <1>9, <2>1, <2>2, ZenonT(30) DEF MovedOK, o
<1>12. LockOK'
  BY <1>1, <1>3, <1>6, <1>7, ZenonT(30) DEF LockOK
<1>13. ASSUME NEW d, Waiting(d), d # e PROVE Waiting(d)'
  <2>1. info[d].b # o
    BY <1>5, <1>13, WaitingOne, ZenonT(30) DEF o
  <2> QED
    BY <1>3, <1>7, <1>13, <2>1 DEF Waiting
<1>14. RingsOK'
  <2>1. Pending' = Pending /\ OneEach(avail, fetched, avail_idx)'
    BY <1>1, <1>3, NextRings DEF RingsOK, Pending
  <2>2. Reported' = Reported \ {e} /\ OneEach(used, seen, used_idx)'
    BY <1>3, <1>4, NextRings, ZenonT(30)
  <2>3. \A d \in Pending' : Waiting(d)' /\ info'[d].b \notin moved'
    BY <1>1, <1>3, <1>5, <1>13, <2>1 DEF RingsOK, o
  <2>4. \A d \in Reported' : Waiting(d)' /\ info'[d].b \in moved'
    BY <1>1, <1>3, <1>13, <2>2 DEF RingsOK
  <2>5. \A r \in flight' : /\ Waiting(r.id)' /\ r.id \notin Pending'
                           /\ r.buf = info'[r.id].b /\ r.buf \notin moved'
                           /\ r.status = r.id /\ r.op = want'[r.buf]
    BY <1>1, <1>3, <1>5, <1>13, <2>1, ZenonT(30) DEF RingsOK, o
  <2> QED
    BY <2>1, <2>2, <2>3, <2>4, <2>5, ZenonT(30) DEF RingsOK
<1> QED
  BY <1>8, <1>10, <1>11, <1>12, <1>14 DEF VirtioInv

\* The device fetches a request.
LEMMA Fetch ==
    ASSUME VirtioInv, fetch
    PROVE  VirtioInv'
<1> DEFINE e == avail[fetched % NUM]
           o == info[e].b
<1>1. TypeOK /\ RingsOK /\ LockOK /\ MovedOK /\ ChainsOK
  BY DEF VirtioInv
<1>2. /\ fetched \in 0 .. WORD - 1 /\ avail_idx \in 0 .. WORD - 1 /\ fetched # avail_idx
      /\ avail \in [Desc -> Desc \union {NULL}]
  BY <1>1 DEF TypeOK, fetch
<1>3. /\ flight' = flight \union {Request(e)} /\ avail' = [avail EXCEPT ![fetched % NUM] = NULL]
      /\ fetched' = (fetched + 1) % WORD
      /\ UNCHANGED <<free, desc, ops, info, avail_idx, seen, bdisk, lock, pc, head, want, used,
                     used_idx, irq, moved>>
  BY DEF fetch
<1>4. /\ e \in Pending /\ Window(avail', fetched', avail_idx) = Pending \ {e}
      /\ OneEach(avail', fetched', avail_idx)
  <2>1. OneEach(avail, fetched, avail_idx) /\ DOMAIN avail = Desc
    BY <1>1, <1>2 DEF RingsOK
  <2>2. avail' = [avail EXCEPT ![fetched % NUM] = NULL] /\ fetched' = (fetched + 1) % WORD
    BY <1>3
  <2>3. /\ avail[fetched % NUM] \in Window(avail, fetched, avail_idx)
        /\ Window(avail', (fetched + 1) % WORD, avail_idx) = Window(avail, fetched, avail_idx) \ {avail[fetched % NUM]}
        /\ OneEach(avail', (fetched + 1) % WORD, avail_idx)
    <3>1. fetched \in 0 .. WORD - 1 /\ avail_idx \in 0 .. WORD - 1 /\ fetched # avail_idx
      BY <1>2
    <3> QED
      BY <2>1, <2>2, <3>1, RingTake
  <2> QED
    BY <2>2, <2>3, ZenonT(30) DEF Pending
<1>5. Waiting(e) /\ o \notin moved
  BY <1>1, <1>4 DEF RingsOK
<1> HIDE DEF e
<1>6. o \in Procs /\ head[o] = e /\ e \in Desc /\ Formatted(o)
  BY <1>1, <1>5, WaitingIs DEF ChainsOK
<1>7. Request(e) = [id |-> e, op |-> want[o], buf |-> o, status |-> e]
  BY <1>1, <1>6, ChainIs, ZenonT(30)
<1> HIDE DEF o
<1>8. Request(e) \in Requests
  <2>1. want[o] \in Ops \union {NULL}
    BY <1>1, <1>6 DEF TypeOK
  <2> QED
    BY <1>6, <1>7, <2>1, SMT DEF Requests
<1>9. fetched % NUM \in Desc /\ avail_idx % NUM # fetched % NUM
  <2>1. Behind(fetched, avail_idx) \in 0 .. NUM - 1 /\ 0 \in 0 .. NUM - 1 /\ Behind(fetched, avail_idx) # 0
    <3>1. Behind(fetched, avail_idx) \in 0 .. WORD - 1 /\ Behind(fetched, avail_idx) # 0
      BY <1>2, BehindIs
    <3>2. Behind(fetched, avail_idx) < NUM
      BY <1>1 DEF RingsOK, OneEach
    <3> QED
      BY <3>1, <3>2, VirtioAssumption, SMT
  <2> QED
    BY <1>2, <2>1, Places, SMT
<1>10. TypeOK'
  <2>1. fetched' \in 0 .. WORD - 1
    BY <1>2, <1>3, NextIs
  <2>2. avail' \in [Desc -> Desc \union {NULL}]
    BY <1>2, <1>3, <1>9
  <2>3. flight' \in SUBSET Requests
    BY <1>1, <1>3, <1>8 DEF TypeOK
  <2> QED
    BY <1>1, <1>3, <2>1, <2>2, <2>3 DEF TypeOK
<1>11. \A q \in Procs : Submitted(q)' <=> Submitted(q)
  BY <1>3 DEF Submitted
<1>12. ChainsOK'
  BY <1>1, <1>3, <1>11, ChainsKept, ZenonT(30)
<1>13. MovedOK'
  BY <1>1, <1>3, <1>11 DEF MovedOK
<1>14. LockOK'
  <2>1. avail'[avail_idx % NUM] = avail[avail_idx % NUM]
    BY <1>2, <1>3, <1>9, Places
  <2> QED
    BY <1>1, <1>3, <2>1, ZenonT(30) DEF LockOK
<1>15. \A d : Waiting(d)' <=> Waiting(d)
  BY <1>3 DEF Waiting
<1>16. RingsOK'
  <2>1. Pending' = Pending \ {e} /\ OneEach(avail, fetched, avail_idx)'
    BY <1>3, <1>4, NextRings, ZenonT(30)
  <2>2. Reported' = Reported /\ OneEach(used, seen, used_idx)'
    BY <1>1, <1>3, NextRings, ZenonT(30) DEF RingsOK, Reported
  <2>3. \A d \in Pending' : Waiting(d)' /\ info'[d].b \notin moved'
    BY <1>1, <1>3, <1>15, <2>1 DEF RingsOK
  <2>4. \A d \in Reported' : Waiting(d)' /\ info'[d].b \in moved'
    BY <1>1, <1>3, <1>15, <2>2, ZenonT(30) DEF RingsOK
  <2>5. \A r \in flight : /\ Waiting(r.id)' /\ r.id \notin Pending'
                          /\ r.buf = info'[r.id].b /\ r.buf \notin moved'
                          /\ r.status = r.id /\ r.op = want'[r.buf]
    BY <1>1, <1>3, <1>15, <2>1 DEF RingsOK
  <2>6. PICK r : r = Request(e)
    OBVIOUS
  <2>7. r.id = e /\ r.buf = o /\ r.status = e /\ r.op = want[o]
    BY <1>7, <2>6, SMT
  <2>8. /\ Waiting(r.id)' /\ r.id \notin Pending' /\ r.buf = info'[r.id].b /\ r.buf \notin moved'
        /\ r.status = r.id /\ r.op = want'[r.buf]
    BY <1>3, <1>5, <1>15, <2>1, <2>7, ZenonT(30) DEF o
  <2>9. \A s \in flight' : s \in flight \/ s = r
    BY <1>3, <2>6
  <2> QED
    BY <2>1, <2>2, <2>3, <2>4, <2>5, <2>8, <2>9 DEF RingsOK
<1> QED
  BY <1>10, <1>12, <1>13, <1>14, <1>16 DEF VirtioInv

\* The device carries out a request and puts it in the used ring, which has room.
LEMMA Complete ==
    ASSUME VirtioInv, NEW r \in flight, complete(r)
    PROVE  VirtioInv'
<1> DEFINE e == r.id
           o == r.buf
           c == desc[e].next
<1>1. TypeOK /\ RingsOK /\ LockOK /\ MovedOK /\ ChainsOK
  BY DEF VirtioInv
<1>2. /\ seen \in 0 .. WORD - 1 /\ used_idx \in 0 .. WORD - 1
      /\ used \in [Desc -> Desc \union {NULL}] /\ r \in Requests
      /\ info \in [Desc -> [b : Procs \union {NULL}, status : {"0", "ff"}]]
  BY <1>1 DEF TypeOK
<1>3. Waiting(e) /\ e \notin Pending /\ o = info[e].b /\ o \notin moved /\ r.status = e
  BY <1>1 DEF RingsOK
<1>4. /\ flight' = flight \ {r} /\ moved' = moved \union {o}
      /\ info' = [info EXCEPT ![e].status = "0"]
      /\ used' = [used EXCEPT ![used_idx % NUM] = e] /\ used_idx' = (used_idx + 1) % WORD
      /\ irq' = TRUE
      /\ UNCHANGED <<free, desc, ops, avail, avail_idx, seen, bdisk, lock, pc, head, want, fetched>>
  BY <1>3 DEF complete
<1> HIDE DEF e, o
<1>5. o \in Procs /\ Submitted(o) /\ pc[o] # "notify" /\ head[o] = e /\ e \in Desc /\ Formatted(o) /\ bdisk[o]
  BY <1>1, <1>3, WaitingIs DEF ChainsOK, Waiting
<1>6. c \in Desc /\ c # e /\ e \in Chain(head[o]) /\ c \in Chain(head[o])
  <2>1. c \in Desc /\ Chain(e) = {e, c, desc[c].next}
    BY <1>1, <1>5, ChainIs
  <2>2. c # e
    BY <1>5 DEF Formatted
  <2> QED
    BY <1>5, <2>1, <2>2
<1> HIDE DEF c
<1>7. Reported \subseteq Desc \ {e, c}
  <2>1. ASSUME NEW d \in Reported PROVE d \in Desc /\ d \notin Chain(head[o])
    <3>1. Waiting(d) /\ info[d].b # o
      BY <1>1, <1>3, <2>1 DEF RingsOK
    <3> QED
      BY <1>1, <1>5, <3>1, WaitingApart, ZenonT(30) DEF Waiting
  <2> QED
    BY <1>6, <2>1
<1>8. /\ Window(used', seen, used_idx') = Reported \union {e} /\ OneEach(used', seen, used_idx')
  <2>1. OneEach(used, seen, used_idx) /\ DOMAIN used = Desc
    BY <1>1, <1>2 DEF RingsOK
  <2>2. used'[used_idx % NUM] = e /\ \A d \in Desc \ {used_idx % NUM} : used'[d] = used[d]
    <3>1. used_idx % NUM \in Desc
      BY <1>2, Places
    <3> QED
      BY <1>4, <2>1, <3>1
  <2>3. seen \in 0 .. WORD - 1 /\ used_idx \in 0 .. WORD - 1
    BY <1>2, ZenonT(30)
  <2>4. Behind(seen, used_idx) + 1 < NUM
    BY <1>5, <1>6, <1>7, <2>1, <2>3, RingRoom, ZenonT(30) DEF Reported
  <2>5. Window(used', seen, used_idx) = Window(used, seen, used_idx) /\ OneEach(used', seen, used_idx)
    BY <2>1, <2>2, <2>3, RingWrite
  <2>6. used'[used_idx % NUM] \notin Window(used', seen, used_idx)
    BY <1>7, <2>2, <2>5, ZenonT(30) DEF Reported
  <2>7. /\ Window(used', seen, (used_idx + 1) % WORD) = Window(used', seen, used_idx) \union {used'[used_idx % NUM]}
        /\ OneEach(used', seen, (used_idx + 1) % WORD)
    BY <2>3, <2>4, <2>5, <2>6, RingGrow, ZenonT(30)
  <2> QED
    BY <1>4, <2>2, <2>5, <2>7 DEF Reported
<1>9. /\ info' \in [Desc -> [b : Procs \union {NULL}, status : {"0", "ff"}]]
      /\ \A d \in Desc : info'[d].b = info[d].b /\ (d # e => info'[d] = info[d])
      /\ info'[e].status = "0"
  <2> DEFINE i == [info[e] EXCEPT !.status = "0"]
  <2>1. i \in [b : Procs \union {NULL}, status : {"0", "ff"}] /\ i.b = info[e].b /\ i.status = "0"
    BY <1>2, <1>5, ZenonT(30)
  <2>2. info' = [info EXCEPT ![e] = i]
    BY <1>4
  <2> HIDE DEF i
  <2> QED
    BY <1>2, <1>5, <2>1, <2>2, ZenonT(30)
<1>10. TypeOK'
  <2>1. used_idx' \in 0 .. WORD - 1
    BY <1>2, <1>4, NextIs
  <2>2. used_idx % NUM \in Desc
    BY <1>2, Places
  <2>3. used' \in [Desc -> Desc \union {NULL}]
    BY <1>2, <1>4, <1>5, <2>2
  <2>4. flight' \in SUBSET Requests /\ moved' \in SUBSET Procs /\ irq' \in BOOLEAN
    BY <1>1, <1>4, <1>5 DEF TypeOK
  <2> QED
    BY <1>1, <1>4, <1>9, <2>1, <2>3, <2>4, ZenonT(30) DEF TypeOK
<1>11. \A q \in Procs : Submitted(q)' <=> Submitted(q)
  BY <1>4 DEF Submitted
<1>12. ChainsOK'
  <2>1. /\ head' = head /\ ops' = ops /\ free' = free
        /\ \A p \in Procs : Submitted(p) => want'[p] = want[p]
        /\ \A d \in Desc \ free : desc'[d] = desc[d]
        /\ \A d \in Desc : info'[d].b = info[d].b
    BY <1>4, <1>9
  <2> QED
    BY <1>1, <1>11, <2>1, ChainsKept
<1>13. MovedOK'
  <2>1. \A q \in Procs \ {o} : q \in moved' => info'[head'[q]].status = "0"
    <3>1. \A q \in Procs \ {o} : q \in moved' => info[head[q]].status = "0" /\ head[q] \in Desc
      BY <1>1, <1>4 DEF MovedOK, TypeOK
    <3>2. \A d \in Desc : info[d].status = "0" => info'[d].status = "0"
      BY <1>9
    <3> QED
      BY <1>4, <3>1, <3>2
  <2>2. \A q \in Procs \ {o} : /\ ~Submitted(q)' => ~bdisk'[q] /\ q \notin moved'
                               /\ Submitted(q)' /\ ~bdisk'[q] => q \in moved' /\ pc'[q] = "check"
    BY <1>1, <1>4, <1>11, ZenonT(30) DEF MovedOK
  <2>3. /\ ~Submitted(o)' => ~bdisk'[o] /\ o \notin moved'
        /\ o \in moved' => info'[head'[o]].status = "0"
        /\ Submitted(o)' /\ ~bdisk'[o] => o \in moved' /\ pc'[o] = "check"
    BY <1>4, <1>5, <1>9, <1>11
  <2> QED
    BY <2>1, <2>2, <2>3, ZenonT(30) DEF MovedOK
<1>14. LockOK'
  BY <1>1, <1>4, <1>5 DEF LockOK
<1>15. ASSUME NEW d, Waiting(d) PROVE Waiting(d)' /\ info'[d].b = info[d].b /\ (info[d].b = o => d = e)
  <2>1. info'[d].b = info[d].b
    BY <1>9, <1>15 DEF Waiting
  <2> QED
    BY <1>3, <1>4, <1>15, <2>1, ZenonT(30) DEF Waiting
<1>16. RingsOK'
  <2>1. Pending' = Pending /\ OneEach(avail, fetched, avail_idx)'
    BY <1>1, <1>4, NextRings, ZenonT(30) DEF RingsOK, Pending
  <2>2. Reported' = Reported \union {e} /\ OneEach(used, seen, used_idx)'
    BY <1>4, <1>8, NextRings
  <2>3. \A d \in Pending' : Waiting(d)' /\ info'[d].b \notin moved'
    BY <1>1, <1>3, <1>4, <1>15, <2>1, SMT DEF RingsOK
  <2>4. \A d \in Reported' : Waiting(d)' /\ info'[d].b \in moved'
    BY <1>1, <1>3, <1>4, <1>15, <2>2, SMT DEF RingsOK
  <2>5. ASSUME NEW s \in flight'
        PROVE  /\ Waiting(s.id)' /\ s.id \notin Pending'
               /\ s.buf = info'[s.id].b /\ s.buf \notin moved'
               /\ s.status = s.id /\ s.op = want'[s.buf]
    <3>1. s \in flight /\ s # r /\ s \in Requests
      BY <1>1, <1>4 DEF TypeOK
    <3>2. /\ Waiting(s.id) /\ s.id \notin Pending /\ s.buf = info[s.id].b /\ s.buf \notin moved
          /\ s.status = s.id /\ s.op = want[s.buf]
      BY <1>1, <3>1 DEF RingsOK
    <3>3. s.buf # o
      <4> SUFFICES ASSUME s.buf = o PROVE FALSE
        OBVIOUS
      <4>1. s.id = e /\ s.status = e
        BY <1>15, <3>2
      <4>2. r.id = e /\ r.status = e /\ r.buf = o /\ r.op = want[o] /\ s.op = want[o]
        BY <1>1, <1>3, <3>2 DEF RingsOK, e, o
      <4>3. s.id = r.id /\ s.status = r.status /\ s.buf = r.buf /\ s.op = r.op
        BY <4>1, <4>2
      <4> QED
        BY <1>2, <3>1, <4>3, SMT DEF Requests
    <3>4. s.buf \notin moved' /\ s.op = want'[s.buf] /\ s.id \notin Pending'
      BY <1>4, <2>1, <3>2, <3>3
    <3> QED
      BY <1>15, <3>2, <3>4
  <2> QED
    BY <2>1, <2>2, <2>3, <2>4, <2>5 DEF RingsOK
<1> QED
  BY <1>10, <1>12, <1>13, <1>14, <1>16 DEF VirtioInv

\* virtio_disk_init()
LEMMA VirtioInit ==
    ASSUME Init
    PROVE  VirtioInv
<1>1. 0 \in Desc /\ 0 \in 0 .. WORD - 1
  BY VirtioAssumption, SMT DEF Desc
<1>2. TypeOK
  <2>1. desc \in [Desc -> Descriptors]
    BY <1>1 DEF Init, Blank, Descriptors
  <2>2. info \in [Desc -> [b : Procs \union {NULL}, status : {"0", "ff"}]]
    BY DEF Init
  <2> QED
    BY <1>1, <2>1, <2>2 DEF Init, TypeOK
<1>3. \A p \in Procs : ~Submitted(p) /\ ~bdisk[p] /\ pc[p] = "run"
  BY DEF Init, Submitted
<1>4. ChainsOK
  <2>1. free = Desc /\ {q \in Procs : Submitted(q)} = {}
    BY <1>3 DEF Init
  <2> QED
    BY <1>3, <2>1 DEF ChainsOK
<1>5. Behind(0, 0) = 0
  BY <1>1, BehindIs
<1>6. ASSUME NEW ring PROVE Window(ring, 0, 0) = {} /\ OneEach(ring, 0, 0)
  <2>1. 0 .. Behind(0, 0) - 1 = {} /\ Behind(0, 0) < NUM
    BY <1>5, VirtioAssumption, SMT
  <2> QED
    BY <2>1 DEF Window, OneEach, Behind
<1>7. RingsOK
  <2>1. Pending = {} /\ Reported = {} /\ flight = {} /\ OneEach(avail, fetched, avail_idx) /\ OneEach(used, seen, used_idx)
    BY <1>6 DEF Init, Pending, Reported
  <2> QED
    BY <2>1 DEF RingsOK
<1>8. LockOK /\ MovedOK
  BY <1>3 DEF LockOK, MovedOK, Init
<1> QED
  BY <1>2, <1>4, <1>7, <1>8 DEF VirtioInv

\* Every step keeps the invariant.
LEMMA VirtioStep ==
    ASSUME VirtioInv, [Next]_vars
    PROVE  VirtioInv'
<1>1. CASE UNCHANGED vars
  <2>1. UNCHANGED <<free, desc, ops, info, avail, avail_idx, seen, bdisk, lock, pc, head, want, used,
                    used_idx, irq, fetched, flight, moved>>
    BY <1>1 DEF vars, driver, device
  <2>2. TypeOK'
    BY <2>1 DEF VirtioInv, TypeOK
  <2>3. \A p \in Procs : Submitted(p)' <=> Submitted(p)
    BY <2>1 DEF Submitted
  <2> QED
    BY <2>1, <2>2, <2>3, Quiet
<1>2. ASSUME NEW p \in Procs, alloc_fails(p) PROVE VirtioInv'
  BY <1>2, AllocFails
<1>3. ASSUME NEW p \in Procs, submit(p) PROVE VirtioInv'
  BY <1>3, Submit, ZenonT(30)
<1>4. ASSUME NEW p \in Procs, notify(p) PROVE VirtioInv'
  BY <1>4, Notify
<1>5. ASSUME NEW p \in Procs, check(p) PROVE VirtioInv'
  BY <1>5, CheckBusy, CheckDone
<1>6. ASSUME NEW p \in Procs, kill(p) PROVE VirtioInv'
  BY <1>6, Kill
<1>7. ASSUME NEW p \in Procs, NEW op \in Ops, call(p, op) PROVE VirtioInv'
  BY <1>7, Call
<1>8. CASE intr_begin
  BY <1>8, IntrBegin
<1>9. CASE intr_entry
  BY <1>9, IntrEntry
<1>10. CASE intr_end
  BY <1>10, IntrEnd
<1>11. CASE fetch
  BY <1>11, Fetch, ZenonT(30)
<1>12. ASSUME NEW r \in flight, complete(r) PROVE VirtioInv'
  BY <1>12, Complete
<1> QED
  BY <1>1, <1>2, <1>3, <1>4, <1>5, <1>6, <1>7, <1>8, <1>9, <1>10, <1>11, <1>12, ZenonT(30) DEF Next, Driver

-----------------------------------------------------------------------------
(* The theorems.                                                           *)

\* virtio_disk_rw() and virtio_disk_intr() keep the rings, the descriptors and the
\* buffers in step with the device.
THEOREM VirtioInvariant == Spec => []VirtioInv
<1>1. Init => VirtioInv
  BY VirtioInit
<1>2. VirtioInv /\ [Next]_vars => VirtioInv'
  BY VirtioStep
<1> QED
  BY <1>1, <1>2, PTL DEF Spec

\* What the device finds in a descriptor chain is the request of the chain's owner.
LEMMA DeviceReads ==
    ASSUME VirtioInv
    PROVE  DeviceSeesRequest
<1>1. TypeOK /\ RingsOK /\ ChainsOK
  BY DEF VirtioInv
<1> DEFINE Good(r) == /\ r.buf \in Procs /\ Submitted(r.buf) /\ bdisk[r.buf] /\ r.buf \notin moved
                      /\ r.id = head[r.buf] /\ r.status = r.id /\ r.op = want[r.buf]
<1>2. ASSUME NEW r \in flight PROVE Good(r)
  <2>1. /\ Waiting(r.id) /\ r.buf = info[r.id].b /\ r.buf \notin moved
        /\ r.status = r.id /\ r.op = want[r.buf]
    BY <1>1 DEF RingsOK
  <2> QED
    BY <1>1, <2>1, WaitingIs DEF Waiting
<1>3. ASSUME NEW d \in Pending PROVE d \in Desc /\ Good(Request(d))
  <2> DEFINE o == info[d].b
  <2>1. Waiting(d) /\ o \notin moved
    BY <1>1 DEF RingsOK
  <2>2. o \in Procs /\ Submitted(o) /\ bdisk[o] /\ head[o] = d /\ d \in Desc
    BY <1>1, <2>1, WaitingIs DEF Waiting
  <2>3. Formatted(o)
    BY <1>1, <2>2, ZenonT(30) DEF ChainsOK
  <2> HIDE DEF o
  <2>4. Request(d) = [id |-> d, op |-> want[o], buf |-> o, status |-> d]
    BY <1>1, <2>2, <2>3, ChainIs
  <2>5. PICK r : r = Request(d)
    OBVIOUS
  <2>6. r.id = d /\ r.op = want[o] /\ r.buf = o /\ r.status = d
    BY <2>4, <2>5, SMT
  <2> QED
    BY <2>1, <2>2, <2>5, <2>6, ZenonT(30)
<1> HIDE DEF Good
<1>4. \A r \in flight \union {Request(d) : d \in Pending} : Good(r)
  BY <1>2, <1>3
<1>5. Pending \subseteq Desc
  BY <1>3
<1> QED
  BY <1>4, <1>5 DEF DeviceSeesRequest, Good

\* virtio_disk_intr() finds a request that was carried out, with its buffer waiting.
LEMMA IntrReads ==
    ASSUME VirtioInv, seen # used_idx
    PROVE  /\ Completed \in Desc /\ info[Completed].status = "0"
           /\ info[Completed].b \in moved /\ bdisk[info[Completed].b]
<1>1. TypeOK /\ RingsOK /\ MovedOK /\ ChainsOK
  BY DEF VirtioInv
<1>2. seen \in 0 .. WORD - 1 /\ used_idx \in 0 .. WORD - 1
  BY <1>1, ZenonT(30) DEF TypeOK
<1>3. used[(seen + 0) % NUM] = Completed
  <2>1. seen + 0 = seen
    BY <1>2, VirtioAssumption, SMT
  <2> QED
    BY <2>1 DEF Completed
<1>4. 0 \in 0 .. ((used_idx - seen) % WORD) - 1
  <2>1. Behind(seen, used_idx) \in 0 .. WORD - 1 /\ Behind(seen, used_idx) # 0
    BY <1>2, BehindIs
  <2>2. 0 \in 0 .. Behind(seen, used_idx) - 1
    BY <2>1, VirtioAssumption, SMT
  <2> QED
    BY <2>2, ZenonT(30) DEF Behind
<1>5. Completed \in Reported
  BY <1>3, <1>4, ZenonT(30) DEF Reported, Window
<1>6. Waiting(Completed) /\ info[Completed].b \in moved
  BY <1>1, <1>5 DEF RingsOK
<1>7. info[Completed].b \in Procs /\ head[info[Completed].b] = Completed /\ Completed \in Desc
  BY <1>1, <1>6, WaitingIs
<1> QED
  BY <1>1, <1>6, <1>7 DEF MovedOK, Waiting

\* virtio_disk_rw(), virtio_disk_intr(), alloc3_desc(), free_chain(): a call returns only
\* when the device has carried out its own request; the device never fetches a chain that
\* was given back; the handler never meets an id without a request, so the panic about
\* the status is not reached; every descriptor is free or part of one request.
THEOREM VirtioReturnsServed == Spec => []ReturnsServed
<1>1. VirtioInv => ReturnsServed
  <2> SUFFICES ASSUME VirtioInv PROVE ReturnsServed
    OBVIOUS
  <2>1. TypeOK /\ MovedOK /\ ChainsOK
    BY DEF VirtioInv
  <2>2. OwnRequest
    BY <2>1 DEF MovedOK, OwnRequest, Submitted
  <2>3. DescriptorsAccounted
    <3>1. \A p \in Procs : Submitted(p) => Cardinality(Chain(head[p])) = 3
      BY <2>1, ChainIs DEF ChainsOK
    <3> QED
      BY <2>1, <3>1 DEF ChainsOK, DescriptorsAccounted
  <2>4. IntrFindsRequest
    BY IntrReads DEF IntrFindsRequest
  <2> QED
    BY <2>1, <2>2, <2>3, <2>4, DeviceReads DEF ReturnsServed
<1> QED
  BY <1>1, VirtioInvariant, PTL

\* virtio_disk_rw() sleeps for descriptors only while some request holds descriptors, and
\* the free_desc() calls of the next request that ends wake every such sleeper.
THEOREM VirtioNoLostWakeup == Spec => []NoLostWakeup
<1>1. Init => NoLostWakeup
  BY ZenonT(30) DEF Init, NoLostWakeup
<1>2. ASSUME VirtioInv, NoLostWakeup, [Next]_vars PROVE NoLostWakeup'
  <2> SUFFICES ASSUME NEW p \in Procs, pc'[p] = "nofree"
               PROVE  \E q \in Procs : Submitted(q)'
    BY DEF NoLostWakeup
  <2>1. TypeOK /\ ChainsOK /\ pc \in [Procs -> Steps]
    BY <1>2 DEF VirtioInv, TypeOK, Steps
  <2>2. ASSUME NEW q \in Procs, alloc_fails(q) PROVE \E s \in Procs : Submitted(s)'
    <3>1. Cardinality(free) < 3 /\ Cardinality(Desc) = NUM
      <4>1. 0 \in Int /\ NUM - 1 \in Int
        BY VirtioAssumption, SMT
      <4>2. Cardinality(0 .. NUM - 1) = IF 0 > NUM - 1 THEN 0 ELSE (NUM - 1) - 0 + 1
        BY <4>1, FS_Interval
      <4>3. Cardinality(0 .. NUM - 1) = NUM
        BY <4>2, VirtioAssumption, SMT
      <4> QED
        BY <2>2, <4>3 DEF alloc_fails, Desc
    <3>2. free # Desc
      BY <3>1, VirtioAssumption, SMT
    <3>3. PICK s \in Procs : Submitted(s)
      BY <2>1, <3>2 DEF ChainsOK
    <3>4. Submitted(s)'
      BY <2>1, <2>2, <3>3 DEF alloc_fails, Wake_free, Submitted
    <3> QED
      BY <3>4
  <2>3. ASSUME NEW q \in Procs, check(q), ~bdisk[q] PROVE FALSE
    <3>1. pc' = [Wake_free EXCEPT ![q] = "run"]
      BY <2>3 DEF check, Busy
    <3> QED
      BY <3>1 DEF Wake_free
  <2>4. ASSUME pc[p] = "nofree", \A q \in Procs : Submitted(q) => Submitted(q)'
        PROVE  \E q \in Procs : Submitted(q)'
    BY <1>2, <2>4 DEF NoLostWakeup
  <2>5. ASSUME NEW q \in Procs, submit(q) \/ notify(q) \/ kill(q) \/ (check(q) /\ bdisk[q]) \/ \E op \in Ops : call(q, op)
        PROVE  pc[p] = "nofree" /\ \A s \in Procs : Submitted(s) => Submitted(s)'
    BY <2>1, <2>5 DEF submit, notify, kill, check, Busy, call, Submitted
  <2>6. ASSUME intr_begin \/ intr_end \/ fetch \/ (\E r \in flight : complete(r)) \/ UNCHANGED vars
        PROVE  pc[p] = "nofree" /\ \A s \in Procs : Submitted(s) => Submitted(s)'
    <3>1. pc' = pc
      BY <2>6 DEF intr_begin, intr_end, fetch, complete, vars, driver
    <3> QED
      BY <3>1 DEF Submitted
  <2>7. ASSUME intr_entry PROVE pc[p] = "nofree" /\ \A s \in Procs : Submitted(s) => Submitted(s)'
    BY <2>1, <2>7 DEF intr_entry, Submitted
  <2> QED
    BY <1>2, <2>2, <2>3, <2>4, <2>5, <2>6, <2>7 DEF Next, Driver
<1> QED
  BY <1>1, <1>2, VirtioInvariant, PTL DEF Spec

=============================================================================
