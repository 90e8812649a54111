SPECIFICATION MCSpec
CONSTANTS
    Procs = {init, p1, p2}
    initproc = init
    MaxPid = 5
    BadPids = {9}
    NULL = NULL
    TrapHarts = {"h0", "h1"}
    TrapProcs = {"p", "q"}
    PCS = 2
    Causes = {"timer", "device", "ecall", "fault", "bad"}
    ClockHarts = {0, 1}
    Sleepers = {"p", "q"}
    UINT = 6
    MAXLAG = 2
INVARIANTS
    ParentAlive NoMissedExit NoMissedWakeup Resumes
PROPERTIES
    SleepsEnough
