SPECIFICATION Spec
CONSTANTS
    MAXJOBS = 2
    Pids = {11, 12}
INVARIANT EvalWaits
CHECK_DEADLOCK FALSE
