SPECIFICATION FairSpec
CONSTANTS
    NTasks = 4
    Stacks = {s1, s2, s3}
    NoStack = NoStack
    MinStack = 4096
    StackSizes = {4095, 4096}
    Arguments = {1}
    NoArgument = NoArgument
    Events <- MCEvents
    Timeouts <- MCTimeouts
    Codes = {0}
    MaxTick = 2
INVARIANTS
    NoDeadTaskResumed
    TaskInv
PROPERTIES
    WaitEndsForItsReason
    RunnableIsScheduled
    TimedWaitReturns
