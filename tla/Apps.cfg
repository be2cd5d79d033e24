SPECIFICATION FairAppSpec
CONSTANTS
    sql = sql
    db = db
    sh = sh
    hb = hb
    NTasks = 5
    Stacks = {s1, s2, s3}
    NoStack = NoStack
    MinStack = 4096
    StackSizes = {4096, 16384}
    Arguments <- MCArguments
    NoArgument = NoArgument
    Events = {0, 1}
    Timeouts = {0}
    Codes <- MCCodes
    MaxTick = 1
    Apps <- MCApps
    Shell = sh
    Heartbeat = hb
    Args = {none, short}
    LongArgs = {long}
    NoArgs = none
    AppStackSize = 16384
INVARIANTS
    AppTypeOK
    RunningHasItsTask
    PromptHoldsNoTask
    ReportIsExitCode
PROPERTIES
    ImplementsTasks
    ArgsOutliveApp
    CommandReturns
