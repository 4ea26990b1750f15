SPECIFICATION FairSpec
CONSTANT NumWorkers = 1
CONSTANT Grace = 1
CONSTANT HeartbeatTimeout = 1
CONSTANT BackoffBase = 1
CONSTANT BackoffAfterOk = 2
CONSTANT BackoffMax = 3
CONSTANT LaunchMayFail = TRUE
CONSTANT JoinMayTimeOut = TRUE
PROPERTY ShutdownEnds
PROPERTY BrokenIsRecovered
