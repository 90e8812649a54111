------------------------------ MODULE ShParse -------------------------------
(***************************************************************************)
(* The parser of the shell, user/sh.c: gettoken(), peek(), parsecmd() and  *)
(* the functions under it, nulterminate().  A line is a sequence of        *)
(* characters, typed one at a time; "w" stands for every character of a    *)
(* word.  A word is the pair of positions q, eq that gettoken() returns.   *)
(*                                                                         *)
(* A parser function takes a position ps and returns the new one, the      *)
(* command, and whether it has called panic().                             *)
(***************************************************************************)
EXTENDS Integers, Sequences, FiniteSets

CONSTANTS
    Alphabet,       \* " ", "w" and symbols
    NBUF,           \* bound: the length of a line
    MAXARGS

Symbols == {"<", "|", ">", "&", ";", "(", ")"}

ShParseAssumption == Alphabet \subseteq Symbols \union {" ", "w"} /\ MAXARGS \in Nat \ {0} /\ NBUF \in Nat

VARIABLE s
vars == <<s>>

Init == s = <<>>

typed == Len(s) < NBUF /\ \E c \in Alphabet : s' = Append(s, c)
\* The next line.
getcmd == s # <<>> /\ s' = <<>>

Next == typed \/ getcmd
Spec == Init /\ [][Next]_vars

-----------------------------------------------------------------------------
(* gettoken() and peek()                                                   *)

es == Len(s) + 1
Char(k) == IF k < es THEN s[k] ELSE "0"

\* The first position from k on whose character is not in C.
Past(k, C) == CHOOSE m \in k .. es : Char(m) \notin C /\ \A l \in k .. m - 1 : Char(l) \in C
Skip(k) == Past(k, {" "})

\* The token whose first character is at q.
Token(q) ==
    LET c == Char(q)
        tok == IF c = "w" THEN "a" ELSE IF c = ">" /\ Char(q + 1) = ">" THEN "+" ELSE c
        eq == CASE tok = "0" -> q [] tok = "a" -> Past(q, {"w"}) [] tok = "+" -> q + 2 [] OTHER -> q + 1
    IN  [tok |-> tok, q |-> q, eq |-> eq, ps |-> Skip(eq)]

gettoken(ps) == Token(Skip(ps))

peek(ps, toks) == Char(Skip(ps)) \in toks

-----------------------------------------------------------------------------
(* The grammar.                                                            *)

Res(ps, cmd) == [ps |-> ps, cmd |-> cmd, err |-> FALSE]
panic == [ps |-> es, cmd |-> <<>>, err |-> TRUE]

execcmd(argv) == <<"EXEC", argv>>
redircmd(cmd, file, tok) == <<"REDIR", cmd, file, tok>>
pipecmd(left, right) == <<"PIPE", left, right>>
listcmd(left, right) == <<"LIST", left, right>>
backcmd(cmd) == <<"BACK", cmd>>

\* A command being parsed by parseexec(): the redirections are wrapped around the
\* execcmd, whose argv still grows.
RECURSIVE Grown(_, _)
Grown(cmd, w) == IF cmd[1] = "EXEC" THEN execcmd(Append(cmd[2], w)) ELSE [cmd EXCEPT ![2] = Grown(@, w)]

RECURSIVE Argc(_)
Argc(cmd) == IF cmd[1] = "EXEC" THEN Len(cmd[2]) ELSE Argc(cmd[2])

\* One redirection: its operator op and the token behind it.
RECURSIVE parseredirs(_, _)
Redirected(cmd, op, file) ==
    IF file.tok # "a" THEN panic ELSE parseredirs(redircmd(cmd, <<file.q, file.eq>>, op.tok), file.ps)
Redir(cmd, op) == Redirected(cmd, op, gettoken(op.ps))
parseredirs(cmd, ps) == IF peek(ps, {"<", ">"}) THEN Redir(cmd, gettoken(ps)) ELSE Res(Skip(ps), cmd)

\* The loop of parseexec() over words and redirections, at token t.
RECURSIVE Words(_)
Word(r, t) ==
    IF peek(r.ps, {"|", ")", "&", ";"}) \/ t.tok = "0" THEN Res(Skip(r.ps), r.cmd)
    ELSE IF t.tok # "a" \/ Argc(r.cmd) + 1 >= MAXARGS THEN panic
    ELSE Words(parseredirs(Grown(r.cmd, <<t.q, t.eq>>), t.ps))
Words(r) == IF r.err THEN panic ELSE Word(r, gettoken(r.ps))

\* while(peek(ps, es, "&")) of parseline().
RECURSIVE Backs(_)
Backs(r) == IF r.err \/ ~peek(r.ps, {"&"}) THEN r ELSE Backs(Res(gettoken(r.ps).ps, backcmd(r.cmd)))

RECURSIVE parseline(_), parsepipe(_)

\* parseblock() behind the line in the parentheses.
Closed(r) == IF r.err \/ ~peek(r.ps, {")"}) THEN panic ELSE parseredirs(r.cmd, gettoken(r.ps).ps)
parseblock(ps) == Closed(parseline(gettoken(ps).ps))

parseexec(ps) == IF peek(ps, {"("}) THEN parseblock(ps) ELSE Words(parseredirs(execcmd(<<>>), ps))

\* (mutant) what is behind the bar is a line
Mut_Behind(ps) == parseline(ps)

\* The right-hand side of a pipe.
Behind(ps) == parsepipe(ps)

Piped(l, r) == IF r.err THEN panic ELSE Res(r.ps, pipecmd(l.cmd, r.cmd))
Bar(l) == IF l.err \/ ~peek(l.ps, {"|"}) THEN l ELSE Piped(l, Behind(gettoken(l.ps).ps))
parsepipe(ps) == Bar(parseexec(ps))

Listed(l, r) == IF r.err THEN panic ELSE Res(r.ps, listcmd(l.cmd, r.cmd))
Semicolon(l) == IF l.err \/ ~peek(l.ps, {";"}) THEN l ELSE Listed(l, parseline(gettoken(l.ps).ps))
parseline(ps) == Semicolon(Backs(parsepipe(ps)))

\* Leftovers are a syntax error.
Whole(r) == IF r.err \/ Skip(r.ps) # es THEN panic ELSE r
parsecmd == Whole(parseline(1))

\* The words of a command; nulterminate() stores a 0 at the end of each.
RECURSIVE Strings(_)
Strings(cmd) ==
    CASE cmd[1] = "EXEC" -> {cmd[2][k] : k \in DOMAIN cmd[2]}
      [] cmd[1] = "REDIR" -> Strings(cmd[2]) \union {cmd[3]}
      [] cmd[1] \in {"PIPE", "LIST"} -> Strings(cmd[2]) \union Strings(cmd[3])
      [] cmd[1] = "BACK" -> Strings(cmd[2])

End(w) == w[2]

nulterminate(cmd) == [k \in 1 .. es |-> IF \E w \in Strings(cmd) : End(w) = k THEN "0" ELSE Char(k)]

-----------------------------------------------------------------------------
(* The language, by splitting a sequence of tokens instead of predicting.  *)

RECURSIVE Tokens(_)
Tokens(t) == IF t.tok = "0" THEN <<>> ELSE <<[tok |-> t.tok, w |-> <<t.q, t.eq>>]>> \o Tokens(gettoken(t.ps))

Count(t, tok, k) == Cardinality({l \in 1 .. k : t[l].tok = tok})
Depth(t, k) == Count(t, "(", k) - Count(t, ")", k)

\* The first token tok outside all parentheses, 0 if there is none.  (The ")" that
\* matches an initial "(" counts as outside.)
First(t, tok) ==
    LET S == {k \in DOMAIN t : t[k].tok = tok /\ Depth(t, k) = 0}
    IN  IF S = {} THEN 0 ELSE CHOOSE k \in S : \A l \in S : k <= l

Bad == <<"BAD">>
Both(l, r, c) == IF l = Bad \/ r = Bad THEN Bad ELSE <<c, l, r>>
One(c, x) == IF x = Bad THEN Bad ELSE <<c, x>>
From(t, k) == SubSeq(t, k, Len(t))

IsRedir(tok) == tok \in {"<", ">", "+"}

\* Redirections t around command x.
RECURSIVE Redirs(_, _)
Redirs(x, t) ==
    IF t = <<>> \/ x = Bad THEN x
    ELSE IF Len(t) < 2 \/ ~IsRedir(t[1].tok) \/ t[2].tok # "a" THEN Bad
    ELSE Redirs(<<"REDIR", x, t[2].w, t[1].tok>>, From(t, 3))

\* The words of t that are not files of redirections, and the redirections of t.
Plain(t) == {k \in DOMAIN t : t[k].tok = "a" /\ (k = 1 \/ ~IsRedir(t[k - 1].tok))}
RECURSIVE Pick(_, _)
Pick(t, S) ==
    IF S = {} THEN <<>> ELSE LET k == CHOOSE m \in S : \A l \in S : m <= l IN <<t[k]>> \o Pick(t, S \ {k})

RECURSIVE Line(_)
Pipe(t) ==
    LET simple(u) ==
            LET c == First(u, ")")
                argv == Pick(u, Plain(u))
            IN  IF u # <<>> /\ u[1].tok = "("
                THEN IF c = 0 THEN Bad ELSE Redirs(Line(SubSeq(u, 2, c - 1)), From(u, c + 1))
                ELSE IF Len(argv) >= MAXARGS \/ \E k \in DOMAIN u : u[k].tok \in {"(", ")", "&", ";"} THEN Bad
                ELSE Redirs(<<"EXEC", [k \in DOMAIN argv |-> argv[k].w]>>, Pick(u, DOMAIN u \ Plain(u)))
        bars[u \in {From(t, k) : k \in 1 .. Len(t) + 1}] ==
            LET k == First(u, "|")
            IN  IF k = 0 THEN simple(u) ELSE Both(simple(SubSeq(u, 1, k - 1)), bars[From(u, k + 1)], "PIPE")
    IN  bars[t]
RECURSIVE Item(_)
Item(t) ==
    IF t # <<>> /\ t[Len(t)].tok = "&" THEN One("BACK", Item(SubSeq(t, 1, Len(t) - 1))) ELSE Pipe(t)
Line(t) ==
    LET k == First(t, ";")
    IN  IF k = 0 THEN Item(t) ELSE Both(Item(SubSeq(t, 1, k - 1)), Line(From(t, k + 1)), "LIST")

Meaning == Line(Tokens(gettoken(1)))

-----------------------------------------------------------------------------
(* Properties.                                                             *)

\* parsecmd() accepts exactly the lines of the language and gives each the command it
\* means: ";" binds less than "&", "&" less than "|", parentheses group, a redirection
\* belongs to the command or block in front of it; every other line ends in panic().
Agrees(r, m) == IF m = Bad THEN r.err ELSE ~r.err /\ r.cmd = m
ParsesLanguage == Agrees(parsecmd, Meaning)

\* The zeros that nulterminate() stores end every word at its end and destroy none,
\* whatever stands next to it.
Ended(W, b) == \A w \in W : w[1] < w[2] /\ b[w[2]] = "0" /\ \A k \in w[1] .. w[2] - 1 : b[k] = "w"
Kept(r) == ~r.err => Ended(Strings(r.cmd), nulterminate(r.cmd))
WordsKept == Kept(parsecmd)

=============================================================================
