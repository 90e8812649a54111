----------------------------- MODULE MCChannels -----------------------------
(* Model checking what names and descriptors lead to: directories, the      *)
(* table of open files, the pipe, and the console's input and output.       *)
EXTENDS Pipe

CONSTANTS p1, p2, s1, s2, intr

\* Names shorter than DIRSIZ, as long and longer; slashes in front, between and behind; the way up.
PathNames ==
    UNION {[1 .. len -> {"a", ".", "/"}] : len \in 0 .. 2} \union
    {<<"a", "/", "a">>, <<"a", "a", "a">>, <<"/", "a", "/">>, <<"/", "/", "a">>, <<"/", ".", ".">>,
     <<".", ".", ".">>, <<".", "/", "a">>, <<"a", "/", ".">>,
     <<"a", "a", "a", "a">>, <<"/", "a", "/", "a">>, <<"a", "/", ".", ".">>, <<"a", "/", "/", "a">>,
     <<".", ".", "/", "a">>, <<"/", ".", ".", "/">>, <<"a", "a", "/", "a">>}

VARIABLES
    part,       \* the component this behaviour is about; the others are not there
    c_buf, c_r, c_w, c_e, c_lock, c_pc, c_n, c_target, c_killed, c_queue, c_line, c_got,
    u_buf, uart_tx_r, uart_tx_w, u_lock, u_pc, u_c, u_thr, u_irq,
    f_live, f_ofile, f_ftable, f_pipes, f_iref, f_todo, f_panicked,
    r_started, r_locking, r_lock, r_panicked, r_pc, r_mine, r_left, r_next,
    n_type, n_dirents, n_tree

console_vars ==
    <<c_buf, c_r, c_w, c_e, c_lock, c_pc, c_n, c_target, c_killed, c_queue, c_line, c_got>>
uart_vars == <<u_buf, uart_tx_r, uart_tx_w, u_lock, u_pc, u_c, u_thr, u_irq>>
file_vars == <<f_live, f_ofile, f_ftable, f_pipes, f_iref, f_todo, f_panicked>>
printf_vars == <<r_started, r_locking, r_lock, r_panicked, r_pc, r_mine, r_left, r_next>>
paths_vars == <<n_type, n_dirents, n_tree>>
mcvars == <<part, vars, console_vars, uart_vars, file_vars, printf_vars, paths_vars>>

C == INSTANCE Console WITH
    Readers <- {p1, p2}, Chars <- {"x"}, INPUT_BUF_SIZE <- 3, WORD <- 6, MaxN <- 2,
    buf <- c_buf, r <- c_r, w <- c_w, e <- c_e, lock <- c_lock, pc <- c_pc, n <- c_n,
    target <- c_target, killed <- c_killed, queue <- c_queue, line <- c_line, got <- c_got

U == INSTANCE Uart WITH
    Writers <- {p1, p2}, Syncs <- {s1, s2}, intr <- intr, UART_TX_BUF_SIZE <- 3, FIFOSIZE <- 3,
    WORD <- 6, buf <- u_buf, lock <- u_lock, pc <- u_pc, c <- u_c, thr <- u_thr, irq <- u_irq

File == INSTANCE File WITH
    Procs <- {"init", "child"}, init <- "init", NOFILE <- 2, NFILE <- 3, NPIPE <- 1,
    Modes <- {"O_RDONLY", "O_RDWR"}, Types <- {"FD_INODE"}, live <- f_live, ofile <- f_ofile,
    ftable <- f_ftable, pipes <- f_pipes, iref <- f_iref, todo <- f_todo, panicked <- f_panicked

Pr == INSTANCE Printf WITH
    NHARTS <- 3, LEN <- 2, started <- r_started, locking <- r_locking, lock <- r_lock,
    panicked <- r_panicked, pc <- r_pc, mine <- r_mine, left <- r_left, next <- r_next

Naming == INSTANCE Paths WITH
    DIRSIZ <- 3, NINODES <- 3, type <- n_type, dirents <- n_dirents, tree <- n_tree

ASSUME MCChannelsAssumption ==
    /\ C!ConsoleAssumption /\ U!UartAssumption /\ File!FileAssumption /\ Pr!PrintfAssumption
    /\ Naming!PathsAssumption

NoConsole ==
    /\ c_buf = 0 /\ c_r = 0 /\ c_w = 0 /\ c_e = 0 /\ c_lock = 0 /\ c_pc = 0 /\ c_n = 0
    /\ c_target = 0 /\ c_killed = 0 /\ c_queue = 0 /\ c_line = 0 /\ c_got = 0

NoUart ==
    /\ u_buf = 0 /\ uart_tx_r = 0 /\ uart_tx_w = 0 /\ u_lock = 0 /\ u_pc = 0 /\ u_c = 0
    /\ u_thr = 0 /\ u_irq = 0

NoFile ==
    /\ f_live = 0 /\ f_ofile = 0 /\ f_ftable = 0 /\ f_pipes = 0 /\ f_iref = 0 /\ f_todo = 0
    /\ f_panicked = 0

NoPrintf ==
    /\ r_started = 0 /\ r_locking = 0 /\ r_lock = 0 /\ r_panicked = 0 /\ r_pc = 0
    /\ r_mine = 0 /\ r_left = 0 /\ r_next = 0

NoPaths ==
    /\ n_type = 0 /\ n_dirents = 0 /\ n_tree = 0

MCInit ==
    /\ part \in {"pipe", "console", "uart", "ftable", "print", "names"}
    /\ Init
    /\ IF part = "console" THEN C!Init ELSE NoConsole
    /\ IF part = "uart" THEN U!Init ELSE NoUart
    /\ IF part = "ftable" THEN File!Init ELSE NoFile
    /\ IF part = "print" THEN Pr!Init ELSE NoPrintf
    /\ IF part = "names" THEN Naming!Init ELSE NoPaths
    /\ part # "pipe" => \A k \in DOMAIN data : data[k] = 0

MCNext ==
    \/ part = "pipe" /\ Next /\ UNCHANGED <<part, console_vars, uart_vars, file_vars, printf_vars, paths_vars>>
    \/ part = "console" /\ C!Next /\ UNCHANGED <<part, vars, uart_vars, file_vars, printf_vars, paths_vars>>
    \/ part = "uart" /\ U!Next /\ UNCHANGED <<part, vars, console_vars, file_vars, printf_vars, paths_vars>>
    \/ part = "ftable" /\ File!Next /\ UNCHANGED <<part, vars, console_vars, uart_vars, printf_vars, paths_vars>>
    \/ part = "print" /\ Pr!Next /\ UNCHANGED <<part, vars, console_vars, uart_vars, file_vars, paths_vars>>
    \/ part = "names" /\ Naming!Next /\ UNCHANGED <<part, vars, console_vars, uart_vars, file_vars, printf_vars>>

MCSpec == MCInit /\ [][MCNext]_mcvars

-----------------------------------------------------------------------------
\* consoleread(), consoleintr(): r, w and e cut the ring into the committed input not yet
\* read and the line being edited, also when they wrap; a read is given bytes of one line
\* only, no reader sleeps while there is input for it, a full ring has a line that can be
\* read, and a read returns 0 only for a ^D at the start of a line.
LinesDelivered ==
    /\ [](part = "console" => C!TypeOK /\ C!RingIsInput /\ C!OneLine /\ C!NoLostWakeup /\ C!NeverStuck)
    /\ [][part = "console" => C!EofIsEmptyRead]_mcvars

\* uartputc(), uartstart(), uartputc_sync(), printf(): the bytes between the counters are
\* the ones written and not yet sent, the UART is never given more than it takes, no byte
\* and no writer is forgotten, and unless a hart panics no two messages are on the console
\* at once.
OutputRight ==
    /\ part = "uart" => U!TypeOK /\ U!RingHolds /\ U!NoOverrun /\ U!NoStall /\ U!NoLostWakeup
    /\ part = "print" => Pr!TypeOK /\ Pr!Unbroken

\* filealloc(), filedup(), fileclose(), sys_open(), sys_pipe(): ref of every struct file is
\* the number of descriptors and calls that have it, readopen and writeopen tell whether a
\* file has that end, and references to inodes are those of the open files, through every
\* failure.
FilesExact == part = "ftable" => File!TypeOK /\ File!RefExact /\ File!EndsExact /\ File!IrefExact /\ File!NoPanic

\* namex(), skipelem(), dirlookup(), dirlink(), sys_unlink(): after any calls to create()
\* and unlink(), namei() and nameiparent() find for every path what its elements name one
\* after the other, although their buffer is not clean, and each directory has one entry
\* per name in it.
Resolves == part = "names" => Naming!Resolves /\ Naming!ParentRight /\ Naming!EntriesRight

=============================================================================
