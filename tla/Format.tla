------------------------------- MODULE Format -------------------------------
(***************************************************************************)
(* Formatted output: printf() and printint() of kernel/printf.c, vprintf() *)
(* and printint() of user/printf.c, and what a format means.  A format is  *)
(* typed character by character; every conversion takes the same argument, *)
(* a register of LONG bits of which an int is the lower INT bits.  Letter  *)
(* case of digits, %p and %s are left out.                                 *)
(***************************************************************************)
EXTENDS Integers, Sequences

CONSTANTS
    INT, LONG,      \* bits of an int and of a uint64: 32 and 64
    MAXFMT,         \* bound on the format
    Chars           \* of a format: "%", "d", "u", "x", "l" and others

FormatAssumption == INT \in Nat \ {0} /\ LONG \in Nat /\ INT < LONG /\ MAXFMT \in Nat

VARIABLES fmt, reg

vars == <<fmt, reg>>

Init == fmt = <<>> /\ reg \in 0 .. 2^LONG - 1
typed == Len(fmt) < MAXFMT /\ \E c \in Chars : fmt' = Append(fmt, c) /\ UNCHANGED reg
Next == typed \/ (Len(fmt) = MAXFMT /\ UNCHANGED vars)
Spec == Init /\ [][Next]_vars

-----------------------------------------------------------------------------
Unsigned(x, w) == x % 2^w
Signed(x, w) == LET u == x % 2^w IN IF u >= 2^(w - 1) THEN u - 2^w ELSE u

digits == <<"0", "1", "2", "3", "4", "5", "6", "7", "8", "9", "a", "b", "c", "d", "e", "f">>

\* The loop of printint(), its buffer printed backwards.
RECURSIVE Digits(_, _)
Digits(x, base) ==
    IF x \div base = 0 THEN <<digits[x + 1]>> ELSE Append(Digits(x \div base, base), digits[(x % base) + 1])

\* printint(), for a value of w bits: the negation is of an unsigned number.
printint(xx, w, base, sign) ==
    IF sign /\ xx < 0 THEN <<"-">> \o Digits(Unsigned(-xx, w), base) ELSE Digits(Unsigned(xx, w), base)

At(i) == IF i <= Len(fmt) THEN fmt[i] ELSE "NUL"

Base(c) == IF c = "x" THEN 16 ELSE 10
Numbers == {"d", "u", "x"}

\* printf() of the kernel from character i on: an int is widened with its sign.
RECURSIVE kprintf(_)
kprintf(i) ==
    LET c0 == At(i + 1)
        c1 == IF c0 = "NUL" THEN "NUL" ELSE At(i + 2)
        c2 == IF c1 = "NUL" THEN "NUL" ELSE At(i + 3)
    IN  IF At(i) = "NUL" THEN <<>>
        ELSE IF At(i) # "%" THEN <<At(i)>> \o kprintf(i + 1)
        ELSE IF c0 \in Numbers THEN printint(Signed(reg, INT), LONG, Base(c0), c0 = "d") \o kprintf(i + 2)
        ELSE IF c0 = "l" /\ c1 \in Numbers THEN printint(Signed(reg, LONG), LONG, Base(c1), c1 = "d") \o kprintf(i + 3)
        ELSE IF c0 = "l" /\ c1 = "l" /\ c2 \in Numbers THEN printint(Signed(reg, LONG), LONG, Base(c2), c2 = "d") \o kprintf(i + 4)
        ELSE IF c0 = "%" THEN <<"%">> \o kprintf(i + 2)
        ELSE IF c0 = "NUL" THEN <<>>
        ELSE <<"%", c0>> \o kprintf(i + 2)

\* vprintf() of the user library: its printint() takes an int.
RECURSIVE vprintf(_, _)
vprintf(i, state) ==
    LET c0 == At(i)
        c1 == At(i + 1)
        c2 == IF c1 = "NUL" THEN "NUL" ELSE At(i + 2)
    IN  IF c0 = "NUL" THEN <<>>
        ELSE IF state = 0 THEN (IF c0 = "%" THEN vprintf(i + 1, 1) ELSE <<c0>> \o vprintf(i + 1, 0))
        ELSE IF c0 \in Numbers THEN printint(Signed(reg, INT), INT, Base(c0), c0 = "d") \o vprintf(i + 1, 0)
        ELSE IF c0 = "l" /\ c1 \in Numbers THEN printint(Signed(reg, INT), INT, Base(c1), c1 = "d") \o vprintf(i + 2, 0)
        ELSE IF c0 = "l" /\ c1 = "l" /\ c2 \in Numbers THEN printint(Signed(reg, INT), INT, Base(c2), c2 = "d") \o vprintf(i + 3, 0)
        ELSE IF c0 = "%" THEN <<"%">> \o vprintf(i + 1, 0)
        ELSE <<"%", c0>> \o vprintf(i + 1, 0)

-----------------------------------------------------------------------------
(* Properties.                                                             *)

\* The numeral of n in a base: the shortest digits with that value.
RECURSIVE Value(_, _)
Value(s, base) == IF s = <<>> THEN 0 ELSE Value(SubSeq(s, 1, Len(s) - 1), base) * base + ((CHOOSE k \in 1 .. 16 : digits[k] = s[Len(s)]) - 1)
IsNumeral(s, n, base) ==
    LET t == IF n < 0 /\ s # <<>> THEN Tail(s) ELSE s
    IN  /\ n < 0 => s # <<>> /\ s[1] = "-"
        /\ t # <<>> /\ (Len(t) > 1 => t[1] # "0")
        /\ \A k \in 1 .. Len(t) : \E d \in 1 .. base : digits[d] = t[k]
        /\ Value(t, base) = IF n < 0 THEN -n ELSE n

\* Whether out is the output of the format from character i on.
RECURSIVE Means(_, _, _)
Means(out, i, int) ==
    LET number(k, n, c) == \E m \in 1 .. Len(out) : IsNumeral(SubSeq(out, 1, m), n, Base(c)) /\ Means(SubSeq(out, m + 1, Len(out)), k, int)
        long == \E k \in {i + 2, i + 3} : At(k) \in Numbers /\ \A j \in i + 1 .. k - 1 : At(j) = "l"
        k == CHOOSE k \in {i + 2, i + 3} : At(k) \in Numbers /\ \A j \in i + 1 .. k - 1 : At(j) = "l"
        value(c, w) == IF c = "d" THEN Signed(reg, w) ELSE Unsigned(reg, w)
        literal(s, j) == Len(out) >= Len(s) /\ SubSeq(out, 1, Len(s)) = s /\ Means(SubSeq(out, Len(s) + 1, Len(out)), j, int)
    IN  IF i > Len(fmt) THEN out = <<>>
        ELSE IF At(i) # "%" THEN literal(<<At(i)>>, i + 1)
        ELSE IF i = Len(fmt) THEN out = <<>>
        ELSE IF At(i + 1) \in Numbers THEN number(i + 2, value(At(i + 1), INT), At(i + 1))
        ELSE IF long THEN number(k + 1, value(At(k), int), At(k))
        ELSE IF At(i + 1) = "%" THEN literal(<<"%">>, i + 2)
        ELSE literal(<<"%", At(i + 1)>>, i + 2)

\* The kernel's printf() prints what the format means, the smallest number of each type
\* included, as long as %u and %x are given ints that are not negative (they are widened
\* with their sign).
KernelFormats == Unsigned(reg, INT) < 2^(INT - 1) \/ (\A k \in 1 .. Len(fmt) : fmt[k] \notin {"u", "x"}) => Means(kprintf(1), 1, LONG)

\* The user library's does too, %l conversions printing the lower INT bits.
UserFormats == Means(vprintf(1, 0), 1, INT)

=============================================================================
