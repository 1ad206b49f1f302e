SPECIFICATION Spec
CONSTANTS
    Loops = 2
    Code <- AllPrograms
    Outcomes <- Results
    Vars = {"glob", "sem", "called", "keys", "inits", "avail", "numConsumed", "barrier"}
    Locks = {"mtx", "rwlock", "splock", "once"}
    Blocks = {"r1", "r2", "buf"}
    Racy = {"thread_incr"}
    Dangling = {"thread_exit"}
    Leaky <- MCLeaky
    MaxSpurious = 1
    Polling = {"prod_no_condvar"}
INVARIANTS
    TypeOK
    SafeAccess
    NothingLeaked
PROPERTY
    Completes
CHECK_DEADLOCK FALSE
