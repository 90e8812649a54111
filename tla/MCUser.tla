------------------------------- MODULE MCUser -------------------------------
(* Model checking the programs in user/ and the library routines.            *)
EXTENDS Integers, Sequences

E(c) == <<"EXEC", c>>
Pp(l, r) == <<"PIPE", l, r>>
Li(l, r) == <<"LIST", l, r>>
Bk(c) == <<"BACK", c>>
Rd(c, f) == <<"REDIR", c, f>>

\* source | cat | head;  source > f | cat;  (source &) | cat;  cat & ; source | cat < f
Commands == {Pp(E("source"), Pp(E("cat"), E("head"))), Pp(Rd(E("source"), 1), E("cat")),
             Pp(Bk(E("source")), E("cat")), Li(Bk(E("cat")), Pp(E("source"), Rd(E("cat"), 0))),
             Pp(Li(E("source"), E("head")), Rd(E("cat"), 1)), E("")}

VARIABLES
    part,       \* the component this behaviour is about; the others are not there
    s_s,
    h_st, h_parent, h_fd, h_todo, h_p, h_count, h_fg, h_want,
    u_hdr, u_freep, u_brk, u_live, u_core, u_refused,
    g_prog, g_re, g_text, g_pos, g_buf, g_cnt, g_out, g_done,
    m_mem, m_op, m_a, m_b, m_n, m_ret,
    f_fmt, f_reg

shparse_vars == <<s_s>>
shrun_vars == <<h_st, h_parent, h_fd, h_todo, h_p, h_count, h_fg, h_want>>
umalloc_vars == <<u_hdr, u_freep, u_brk, u_live, u_core, u_refused>>
filters_vars == <<g_prog, g_re, g_text, g_pos, g_buf, g_cnt, g_out, g_done>>
strings_vars == <<m_mem, m_op, m_a, m_b, m_n, m_ret>>
format_vars == <<f_fmt, f_reg>>
mcvars == <<part, shparse_vars, shrun_vars, umalloc_vars, filters_vars, strings_vars, format_vars>>

Parse == INSTANCE ShParse WITH
    Alphabet <- {" ", "w", "|", ";", "&", ">", "(", ")"}, NBUF <- 5, MAXARGS <- 3, s <- s_s

Line == INSTANCE ShRun WITH
    NPROC <- 7, Lines <- Commands, NPIPE <- 2, PIPESIZE <- 1, ITEMS <- 2, MayFail <- FALSE,
    st <- h_st, parent <- h_parent, fd <- h_fd, todo <- h_todo, p <- h_p, count <- h_count,
    fg <- h_fg, want <- h_want

Heap == INSTANCE Umalloc WITH
    UNIT <- 2, NALLOC <- 3, MAXBRK <- 10, MAXBYTES <- 6, hdr <- u_hdr, freep <- u_freep,
    brk <- u_brk, live <- u_live, core <- u_core, refused <- u_refused

Filter == INSTANCE Filters WITH
    Chars <- {"a", "nl", "sp", "NUL"}, MAXTEXT <- 5, Patterns <- {"a", "*"}, MAXRE <- 1,
    SIZE <- 4, prog <- g_prog, re <- g_re, text <- g_text, pos <- g_pos, buf <- g_buf,
    cnt <- g_cnt, out <- g_out, done <- g_done
Regex == INSTANCE Filters WITH
    Chars <- {"a", "$", "nl"}, MAXTEXT <- 3, Patterns <- {"a", "*", "$", "^", "."}, MAXRE <- 3,
    SIZE <- 5, prog <- g_prog, re <- g_re, text <- g_text, pos <- g_pos, buf <- g_buf,
    cnt <- g_cnt, out <- g_out, done <- g_done

Str == INSTANCE Strings WITH
    SIZE <- 4, Bytes <- {0, 1, 2}, mem <- m_mem, op <- m_op, a <- m_a, b <- m_b, n <- m_n,
    ret <- m_ret

Fmt == INSTANCE Format WITH
    INT <- 3, LONG <- 5, MAXFMT <- 4, Chars <- {"%", "d", "u", "x", "l", "q"}, fmt <- f_fmt,
    reg <- f_reg

ASSUME MCUserAssumption ==
    /\ Parse!ShParseAssumption /\ Line!ShRunAssumption /\ Heap!UmallocAssumption
    /\ Filter!FiltersAssumption /\ Regex!FiltersAssumption /\ Str!StringsAssumption
    /\ Fmt!FormatAssumption

NoShParse ==
    /\ s_s = 0

NoShRun ==
    /\ h_st = 0 /\ h_parent = 0 /\ h_fd = 0 /\ h_todo = 0 /\ h_p = 0 /\ h_count = 0
    /\ h_fg = 0 /\ h_want = 0

NoUmalloc ==
    /\ u_hdr = 0 /\ u_freep = 0 /\ u_brk = 0 /\ u_live = 0 /\ u_core = 0 /\ u_refused = 0

NoFilters ==
    /\ g_prog = 0 /\ g_re = 0 /\ g_text = 0 /\ g_pos = 0 /\ g_buf = 0 /\ g_cnt = 0
    /\ g_out = 0 /\ g_done = 0

NoStrings ==
    /\ m_mem = 0 /\ m_op = 0 /\ m_a = 0 /\ m_b = 0 /\ m_n = 0 /\ m_ret = 0

NoFormat ==
    /\ f_fmt = 0 /\ f_reg = 0

MCInit ==
    /\ part \in {"parse", "line", "malloc", "filter", "regex", "strings", "format"}
    /\ IF part = "parse" THEN Parse!Init ELSE NoShParse
    /\ IF part = "line" THEN Line!Init ELSE NoShRun
    /\ IF part = "malloc" THEN Heap!Init ELSE NoUmalloc
    /\ IF part = "filter" THEN Filter!Init ELSE IF part = "regex" THEN Regex!Init ELSE NoFilters
    /\ IF part = "strings" THEN Str!Init ELSE NoStrings
    /\ IF part = "format" THEN Fmt!Init ELSE NoFormat

MCNext ==
    \/ part = "parse" /\ Parse!Next /\ UNCHANGED <<part, shrun_vars, umalloc_vars, filters_vars, strings_vars, format_vars>>
    \/ part = "line" /\ Line!Next /\ UNCHANGED <<part, shparse_vars, umalloc_vars, filters_vars, strings_vars, format_vars>>
    \/ part = "malloc" /\ Heap!Next /\ UNCHANGED <<part, shparse_vars, shrun_vars, filters_vars, strings_vars, format_vars>>
    \/ part = "filter" /\ Filter!Next /\ UNCHANGED <<part, shparse_vars, shrun_vars, umalloc_vars, strings_vars, format_vars>>
    \/ part = "regex" /\ Regex!Next /\ UNCHANGED <<part, shparse_vars, shrun_vars, umalloc_vars, strings_vars, format_vars>>
    \/ part = "strings" /\ Str!Next /\ UNCHANGED <<part, shparse_vars, shrun_vars, umalloc_vars, filters_vars, format_vars>>
    \/ part = "format" /\ Fmt!Next /\ UNCHANGED <<part, shparse_vars, shrun_vars, umalloc_vars, filters_vars, strings_vars>>

MCSpec == MCInit /\ [][MCNext]_mcvars

-----------------------------------------------------------------------------
\* parsecmd(), parseline(), parsepipe(), parseexec(), gettoken(), nulterminate(): a line is
\* parsed exactly if it is in the language of the shell, into the tree the language gives
\* it, with the words of the line.
ParsesLanguage == part = "parse" => Parse!ParsesLanguage /\ Parse!WordsKept

\* runcmd(), main() of sh.c: a program starts with its standard input and output at the
\* pipes and files the line gives it and with no other descriptor, through any nesting, and
\* the shell is back at its prompt only when everything that is not behind an & has ended.
Wired == part = "line" => Line!Wired /\ Line!CleanDescriptors /\ Line!ForegroundDone

\* malloc(), free(), morecore(): the list of free blocks is circular, climbs and has no two
\* neighbours, blocks never overlap and nothing got from sbrk() is lost, a block has room
\* for the bytes asked for, and a request is refused only when no free block would do.
HeapRight == part = "malloc" => Heap!FreeListRight /\ Heap!Accounted /\ Heap!Coalesced /\ Heap!BigEnough /\ Heap!RefusedForCause

\* grep(), wc(), cat(), printf(), memmove(), strncpy(), safestrcpy(), strncmp(): the
\* filters give the result for the whole input however it is cut, formats print what they
\* mean, and the string routines move, copy and compare just their n bytes, overlapping or
\* not.
TextRight ==
    /\ [](part = "regex" => Regex!GrepSelects)
    /\ [](part = "filter" => Filter!GrepSelects /\ Filter!WcCounts /\ Filter!CatCopies)
    /\ [](part = "format" => Fmt!KernelFormats /\ Fmt!UserFormats)
    /\ [][part = "strings" => Str!MovesRight /\ Str!CopiesRight /\ Str!ComparesRight]_mcvars

=============================================================================
