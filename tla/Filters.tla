------------------------------ MODULE Filters -------------------------------
(***************************************************************************)
(* The programs that read their input in pieces: grep(), wc() and cat() of *)
(* user/grep.c, user/wc.c and user/cat.c, and the matcher of grep.c.       *)
(* read() gives what it has, up to the room in the buffer.  text is the    *)
(* whole input.                                                            *)
(***************************************************************************)
EXTENDS Integers, Sequences

(* The matcher.                                                            *)

From(s, k) == SubSeq(s, k + 1, Len(s))

\* s[k] in C: the terminating NUL behind the last character.
Char(s, k) == IF k < Len(s) THEN s[k + 1] ELSE "NUL"

RECURSIVE matchhere(_, _), matchstar(_, _, _)

\* (mutant) at least one instance
Mut_matchstar(c, re, text) ==
    /\ Char(text, 0) # "NUL" /\ (Char(text, 0) = c \/ c = ".")
    /\ \/ matchhere(re, From(text, 1)) \/ matchstar(c, re, From(text, 1))

matchstar(c, re, text) ==
    \/ matchhere(re, text)
    \/ /\ Char(text, 0) # "NUL" /\ (Char(text, 0) = c \/ c = ".")
       /\ matchstar(c, re, From(text, 1))

matchhere(re, text) ==
    IF Char(re, 0) = "NUL" THEN TRUE
    ELSE IF Char(re, 1) = "*" THEN matchstar(Char(re, 0), From(re, 2), text)
    ELSE IF Char(re, 0) = "$" /\ Char(re, 1) = "NUL" THEN Char(text, 0) = "NUL"
    ELSE /\ Char(text, 0) # "NUL" /\ (Char(re, 0) = "." \/ Char(re, 0) = Char(text, 0))
         /\ matchhere(From(re, 1), From(text, 1))

match(re, text) ==
    IF Char(re, 0) = "^" THEN matchhere(From(re, 1), text)
    ELSE \E k \in 0 .. Len(text) : matchhere(re, From(text, k))

\* What a pattern means.  A pattern is "^"?, then characters that stand once or, before
\* a "*", any number of times, then "$"?.  Reach is the set of places in the text where
\* a match of the elements that starts at a place in S may end.
Steps(c, text, S) == {k + 1 : k \in {j \in S : j < Len(text) /\ (c = "." \/ text[j + 1] = c)}}

RECURSIVE Star(_, _, _)
Star(c, text, S) == LET T == S \union Steps(c, text, S) IN IF T = S THEN S ELSE Star(c, text, T)

RECURSIVE Reach(_, _, _)
Reach(re, text, S) ==
    IF re = <<>> THEN S
    ELSE IF Len(re) > 1 /\ re[2] = "*" THEN Reach(From(re, 2), text, Star(re[1], text, S))
    ELSE IF re = <<"$">> THEN S \intersect {Len(text)}
    ELSE Reach(From(re, 1), text, Steps(re[1], text, S))

Denotes(re, text) ==
    IF re # <<>> /\ re[1] = "^" THEN Reach(From(re, 1), text, {0}) # {}
    ELSE Reach(re, text, 0 .. Len(text)) # {}

-----------------------------------------------------------------------------
CONSTANTS
    Chars,      \* of the input: "nl", "sp", "NUL" and letters
    MAXTEXT,    \* bound on the input
    Patterns, MAXRE,    \* characters of a pattern, and the longest
    SIZE        \* sizeof(buf): 1024 in grep, 512 in wc and cat

FiltersAssumption == MAXTEXT \in Nat /\ MAXRE \in Nat /\ SIZE \in Nat \ {0}

VARIABLES
    prog, re, text,
    pos,        \* what read() has given so far
    buf,        \* grep: buf[0 .. m-1]
    cnt,        \* wc: l, w, c and inword
    out,
    done        \* "no", or how it ended: "ok" is exit(0)

vars == <<prog, re, text, pos, buf, cnt, out, done>>

Programs == {"type", "grep", "wc", "cat"}

\* The pattern and the text are typed first.
Init ==
    /\ prog = "type" /\ re = <<>> /\ text = <<>> /\ pos = 0 /\ buf = <<>>
    /\ cnt = [l |-> 0, w |-> 0, c |-> 0, inword |-> FALSE] /\ out = <<>> /\ done = "no"

typed ==
    /\ prog = "type"
    /\ \/ \E c \in Chars : Len(text) < MAXTEXT /\ re = <<>> /\ text' = Append(text, c) /\ UNCHANGED <<re, prog>>
       \/ \E c \in Patterns : Len(re) < MAXRE /\ re' = Append(re, c) /\ UNCHANGED <<text, prog>>
       \/ prog' \in Programs \ {"type"} /\ (prog' # "grep" => re = <<>>) /\ UNCHANGED <<re, text>>
    /\ UNCHANGED <<pos, buf, cnt, out, done>>

\* read(fd, ..., room): n bytes, 0 only at the end or for no room.  It may also fail,
\* with -1, which grep() takes for the end of the file (and is left out there).
Reads(room) ==
    LET left == Len(text) - pos
        most == IF left < room THEN left ELSE room
    IN  IF most = 0 THEN {0} ELSE 1 .. most
Piece(n) == SubSeq(text, pos + 1, pos + n)

-----------------------------------------------------------------------------
\* strchr(p, '\n'): index from 0, -1 for none before the NUL.
RECURSIVE Newline(_, _)
Newline(s, k) ==
    IF Char(s, k) = "NUL" THEN -1 ELSE IF Char(s, k) = "nl" THEN k ELSE Newline(s, k + 1)

\* The inner loop of grep(): the lines in s, those that match kept with their newline.
RECURSIVE Lines(_, _)
Lines(s, kept) ==
    LET q == Newline(s, 0)
    IN  IF q = -1 THEN [rest |-> s, kept |-> kept]
        ELSE Lines(From(s, q + 1), IF match(re, SubSeq(s, 1, q)) THEN kept \o SubSeq(s, 1, q + 1) ELSE kept)

\* memmove(buf, p, m).
Moved(rest) == rest

grep ==
    /\ prog = "grep" /\ done = "no"
    /\ \E n \in Reads(SIZE - Len(buf) - 1) :
          IF n = 0 THEN done' = "ok" /\ UNCHANGED <<pos, buf, out>>
          ELSE LET r == Lines(buf \o Piece(n), <<>>)
               IN  /\ buf' = Moved(r.rest) /\ out' = out \o r.kept /\ pos' = pos + n /\ UNCHANGED done
    /\ UNCHANGED <<prog, re, text, cnt>>

-----------------------------------------------------------------------------
Space == {"nl", "sp"}

\* One turn of the for loop of wc().
Counted(k, c) ==
    [l |-> IF c = "nl" THEN k.l + 1 ELSE k.l,
     w |-> IF c \notin Space /\ ~k.inword THEN k.w + 1 ELSE k.w,
     c |-> k.c + 1, inword |-> c \notin Space]

RECURSIVE CountAll(_, _)
CountAll(k, s) == IF s = <<>> THEN k ELSE CountAll(Counted(k, Head(s)), Tail(s))

\* The counters live across pieces.
Start(k) == k

wc ==
    /\ prog = "wc" /\ done = "no"
    /\ \E n \in Reads(SIZE) \union {-1} :
          IF n <= 0 THEN done' = (IF n < 0 THEN "failed" ELSE "ok") /\ UNCHANGED <<pos, cnt>>
          ELSE cnt' = CountAll(Start(cnt), Piece(n)) /\ pos' = pos + n /\ UNCHANGED done
    /\ UNCHANGED <<prog, re, text, buf, out>>

Short(w, n) == w # n

\* cat(): a write() that does not take all is the end.
cat ==
    /\ prog = "cat" /\ done = "no"
    /\ \E n \in Reads(SIZE) \union {-1} :
          IF n <= 0 THEN done' = (IF n < 0 THEN "failed" ELSE "ok") /\ UNCHANGED <<pos, out>>
          ELSE \E w \in {n, -1} :
                 /\ out' = (IF w = n THEN out \o Piece(n) ELSE out)
                 /\ pos' = pos + n /\ done' = (IF Short(w, n) THEN "failed" ELSE "no")
    /\ UNCHANGED <<prog, re, text, buf, cnt>>

Stops == done # "no" /\ UNCHANGED vars

Next == typed \/ grep \/ wc \/ cat \/ Stops

Spec == Init /\ [][Next]_vars

-----------------------------------------------------------------------------
(* Properties.                                                             *)

Ends == {k \in 1 .. Len(text) : text[k] = "nl"}
Begin(k) == LET B == {j \in Ends : j < k} IN IF B = {} THEN 1 ELSE (CHOOSE j \in B : \A i \in B : i <= j) + 1

\* The lines grep() can see: those before a NUL or a line that does not fit in the buffer.
Seen == {k \in Ends : \A j \in Ends \union {k} : j <= k => j - Begin(j) + 1 < SIZE /\ \A i \in 1 .. j : text[i] # "NUL"}

RECURSIVE Selected(_)
Selected(K) ==
    IF K = {} THEN <<>>
    ELSE LET k == CHOOSE k \in K : \A j \in K : k <= j
         IN  (IF Denotes(re, SubSeq(text, Begin(k), k - 1)) THEN SubSeq(text, Begin(k), k) ELSE <<>>)
             \o Selected(K \ {k})

\* However its input is cut into pieces, grep prints the lines that match the pattern,
\* each once and in order, up to a line its buffer cannot hold.
GrepSelects == prog = "grep" /\ done = "ok" => out = Selected(Seen)

\* However its input is cut, wc counts lines, characters and words: the places where a
\* word begins.
WcCounts ==
    prog = "wc" /\ done = "ok" =>
        /\ [l |-> cnt.l, c |-> cnt.c] = [l |-> Len(SelectSeq(text, LAMBDA x : x = "nl")), c |-> Len(text)]
        /\ cnt.w = Len(SelectSeq([k \in 1 .. Len(text) |-> text[k] \notin Space /\ (k = 1 \/ text[k - 1] \in Space)], LAMBDA x : x))

\* cat ends with exit(0) only when all of the input has been written, and has never
\* written anything but a beginning of it, whatever the pieces and whichever call fails.
CatCopies == prog = "cat" => out = SubSeq(text, 1, Len(out)) /\ (done = "ok" => out = text)

=============================================================================
