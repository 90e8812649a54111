------------------------------ MODULE Strings -------------------------------
(***************************************************************************)
(* The memory and string functions of kernel/string.c and user/ulib.c, one *)
(* byte at a time, on a small memory whose regions may overlap.            *)
(***************************************************************************)
EXTENDS Integers, Sequences

CONSTANTS
    SIZE,       \* bytes of memory
    Bytes       \* what they hold: 0 is NUL

StringsAssumption == SIZE \in Nat \ {0} /\ Bytes \subseteq Nat /\ 0 \in Bytes

VARIABLES mem, op, a, b, n, ret

vars == <<mem, op, a, b, n, ret>>

Addr == 0 .. SIZE - 1

Init == mem \in [Addr -> Bytes] /\ op = "none" /\ a = 0 /\ b = 0 /\ n = 0 /\ ret = 0

\* *p; a C program that reads behind the memory has gone wrong, which no call here does.
At(m, p) == IF p \in Addr THEN m[p] ELSE 0
Set(m, p, v) == [x \in DOMAIN m |-> IF x = p THEN v ELSE m[x]]

-----------------------------------------------------------------------------
RECURSIVE Up(_, _, _, _)
Up(m, d, s, k) == IF k = 0 THEN m ELSE Up(Set(m, d, At(m, s)), d + 1, s + 1, k - 1)
RECURSIVE Down(_, _, _, _)
Down(m, d, s, k) == IF k = 0 THEN m ELSE Down(Set(m, d - 1, At(m, s - 1)), d - 1, s - 1, k - 1)

\* memmove() of the kernel goes down only when the regions overlap that way.
Overlaps(s, d, k) == s < d /\ s + k > d
memmove(m, d, s, k) == IF Overlaps(s, d, k) THEN Down(m, d + k, s + k, k) ELSE Up(m, d, s, k)

\* memmove() of the user library.
umemmove(m, d, s, k) == IF s > d THEN Up(m, d, s, k) ELSE Down(m, d + k, s + k, k)

RECURSIVE Fill(_, _, _)
Fill(m, s, k) == IF k <= 0 THEN m ELSE Fill(Set(m, s, 0), s + 1, k - 1)

\* strncpy(): both loops decrement n, the first once more when it ends.
RECURSIVE strncpy(_, _, _, _)
strncpy(m, s, t, k) ==
    IF k <= 0 THEN m
    ELSE IF At(m, t) = 0 THEN Fill(Set(m, s, 0), s + 1, k - 1)
    ELSE strncpy(Set(m, s, At(m, t)), s + 1, t + 1, k - 1)

Room(k) == k - 1

\* safestrcpy(), for n > 0: behind a NUL it has copied it stores another.
RECURSIVE Copy(_, _, _, _)
Copy(m, s, t, k) ==
    IF k <= 0 THEN Set(m, s, 0)
    ELSE IF At(m, t) = 0 THEN Set(Set(m, s, 0), s + 1, 0)
    ELSE Copy(Set(m, s, At(m, t)), s + 1, t + 1, k - 1)
safestrcpy(m, s, t, k) == IF k <= 0 THEN m ELSE Copy(m, s, t, Room(k))

RECURSIVE strlen(_, _)
strlen(m, s) == IF At(m, s) = 0 THEN 0 ELSE 1 + strlen(m, s + 1)

RECURSIVE strncmp(_, _, _, _)
strncmp(m, p, q, k) ==
    IF k > 0 /\ At(m, p) # 0 /\ At(m, p) = At(m, q) THEN strncmp(m, p + 1, q + 1, k - 1)
    ELSE IF k = 0 THEN 0 ELSE At(m, p) - At(m, q)

RECURSIVE strcmp(_, _, _)
strcmp(m, p, q) == IF At(m, p) # 0 /\ At(m, p) = At(m, q) THEN strcmp(m, p + 1, q + 1) ELSE At(m, p) - At(m, q)

RECURSIVE memcmp(_, _, _, _)
memcmp(m, p, q, k) ==
    IF k = 0 THEN 0 ELSE IF At(m, p) # At(m, q) THEN At(m, p) - At(m, q) ELSE memcmp(m, p + 1, q + 1, k - 1)

-----------------------------------------------------------------------------
\* The calls whose arguments are right: regions within memory, strings that end.
Ends(m, s) == \E x \in Addr : x >= s /\ m[x] = 0
Call(name, x, y, k) == op = "none" /\ op' = name /\ a' = x /\ b' = y /\ n' = k

moves ==
    \E x, y \in Addr, k \in 0 .. SIZE :
        /\ x + k <= SIZE /\ y + k <= SIZE
        /\ \/ Call("memmove", x, y, k) /\ mem' = memmove(mem, x, y, k)
           \/ Call("memmove", x, y, k) /\ mem' = umemmove(mem, x, y, k)
        /\ UNCHANGED ret

\* The two strings of a copy do not overlap.
copies ==
    \E x, y \in Addr, k \in 0 .. SIZE :
        /\ x + k <= SIZE /\ Ends(mem, y)
        /\ x + k <= y \/ y + strlen(mem, y) < x
        /\ \/ Call("strncpy", x, y, k) /\ mem' = strncpy(mem, x, y, k)
           \/ Call("safestrcpy", x, y, k) /\ mem' = safestrcpy(mem, x, y, k)
        /\ UNCHANGED ret

compares ==
    \E x, y \in Addr, k \in 0 .. SIZE :
        /\ \/ Ends(mem, x) /\ Ends(mem, y) /\ Call("strncmp", x, y, k) /\ ret' = strncmp(mem, x, y, k)
           \/ Ends(mem, x) /\ Ends(mem, y) /\ Call("strncmp", x, y, SIZE) /\ ret' = strcmp(mem, x, y)
           \/ x + k <= SIZE /\ y + k <= SIZE /\ Call("memcmp", x, y, k) /\ ret' = memcmp(mem, x, y, k)
        /\ UNCHANGED mem

returns == op # "none" /\ op' = "none" /\ a' = 0 /\ b' = 0 /\ n' = 0 /\ ret' = 0 /\ UNCHANGED mem

Next == moves \/ copies \/ compares \/ returns

Spec == Init /\ [][Next]_vars

-----------------------------------------------------------------------------
(* Properties: what each call is for, from the memory before it.           *)

Calls(names) == op = "none" /\ op' \in names

Str(s, k) == LET len == strlen(mem, s) IN [x \in 1 .. (IF len < k THEN len ELSE k) |-> mem[s + x - 1]]

\* The first n bytes of b, as they were, are at a, overlapping or not, and nothing else
\* has changed.
MovesRight ==
    Calls({"memmove"}) => mem' = [x \in Addr |-> IF x >= a' /\ x < a' + n' THEN mem[b' + x - a'] ELSE mem[x]]

\* strncpy() fills n bytes with the string and NULs; safestrcpy() leaves a string of at
\* most n - 1 characters; neither writes outside its n bytes.
CopiesRight ==
    Calls({"strncpy", "safestrcpy"}) =>
       LET s == Str(b', IF op' = "strncpy" THEN n' ELSE n' - 1)
       IN  /\ \A x \in Addr : x < a' \/ x >= a' + n' => mem'[x] = mem[x]
           /\ \A x \in 1 .. Len(s) : mem'[a' + x - 1] = s[x]
           /\ IF op' = "strncpy" THEN \A x \in a' + Len(s) .. a' + n' - 1 : mem'[x] = 0
              ELSE n' > 0 => mem'[a' + Len(s)] = 0

\* The first place where two sequences of at most n bytes differ decides; strings end
\* at their NUL.
Padded(s, k) == [x \in 1 .. k |-> IF op' = "memcmp" \/ x <= strlen(mem, s) THEN At(mem, s + x - 1) ELSE 0]
ComparesRight ==
    Calls({"strncmp", "memcmp"}) =>
       LET D == {x \in 1 .. n' : Padded(a', n')[x] # Padded(b', n')[x]}
       IN  IF D = {} THEN ret' = 0
           ELSE LET x == CHOOSE x \in D : \A y \in D : x <= y
                IN  ret' # 0 /\ (ret' < 0) = (Padded(a', n')[x] < Padded(b', n')[x])

=============================================================================
