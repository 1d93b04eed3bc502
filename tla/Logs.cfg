CONSTANTS
    MaxOthers = 3
    stdout = stdout
    logFile = logFile
    netLog = netLog
    lDebug = lDebug
    lError = lError
    p1 = p1
    p2 = p2
    p3 = p3
    Writers = {stdout, logFile, netLog}
    Loggers = {lDebug, lError}
    Callers = {p1, p2, p3}
    LoggerOf <- SomeLoggerOf
    Arguments <- SomeArguments
    MaxFailures = 2
    Clients = {c1, c2}
    Gets = 2
    MaxBreaks = 2
SPECIFICATION FairSpec
INVARIANTS TypeOK OutputAsExpected Sustains SameOrder MetricsAreComplete
PROPERTIES LevelWatchEnds ServerMainEnds
CHECK_DEADLOCK FALSE
