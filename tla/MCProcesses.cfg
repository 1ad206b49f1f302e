SPECIFICATION Spec
CONSTANTS
    Loops = 2
    Code <- EveryProgram
    Outcomes <- EveryResult
    Vars = {"work1", "work2", "work3", "flag", "buf", "cnt", "out", "ready", "req", "type1", "type2", "out2", "semid", "otime", "wsem", "rsem", "sem", "tries", "dir", "seq", "raw", "file", "log", "len", "off1", "off2", "created", "status"}
    BinarySems = {"wsem", "rsem"}
    Pipes = {"p", "q", "p2", "q2", "self", "f", "in", "tty", "notify"}
    Signals = {"USR1", "INT", "QUIT", "CHLD", "ALRM", "PIPE", "TTOU", "STOP", "HUP", "CONT", "ABRT", "KILL", "TERM"}
    Queues = {"srv", "resp1", "resp2", "mq", "main", "client1", "client2"}
    QueueSize <- MCQueueSize
    Fragile = {"svmsg_file", "seccomp_unotify_mkdir", "seccomp_delayed", "seccomp_unotify_openat", "ud_ucase", "i6d_ucase", "scm_rights", "select_mq", "select_mq_empty"}
    Killable <- MCKillable
    Timed <- MCTimed
    Servers <- MCServers
    MayFail <- MCMayFail
    MayHang = {"timed_read", "timed_read_restart", "t_sigsuspend", "t_sigsuspend_pause", "sigpending", "simple_init", "orphaned_pgrp_SIGHUP", "catch_rtsigs", "block_sig_set"}
    Stops = {"tcsetpgrp"}
    MaxFaults = 1
INVARIANTS
    TypeOK
    ClaimsHold
    SystemTransparent
PROPERTY
    Completes
CHECK_DEADLOCK FALSE
