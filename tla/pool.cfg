SPECIFICATION FairSpec
CONSTANTS
    SlaverNum = 3
    NTasks = 4
INVARIANTS
    NoLostWakeup
    TasksConserved
PROPERTIES
    ImplementsTaskPool
    WaitReturns
\* Main returns, and a process that joined an invalid thread does nothing more.
CHECK_DEADLOCK FALSE
