\* Two children, a job list of two slots.
SPECIFICATION FairSpec
CONSTANTS
    MAXJOBS = 2
    Pids = {11, 12}
INVARIANTS
    JobsAreUnreaped
    ChildrenAreListed
    JidsUnique
PROPERTIES
    EvalReturns
    EvalWaitsForItsJob
CHECK_DEADLOCK FALSE
