SPECIFICATION Spec
CONSTANT NumWorkers = 2
CONSTANT Grace = 1
CONSTANT HeartbeatTimeout = 1
CONSTANT BackoffBase = 1
CONSTANT BackoffAfterOk = 2
CONSTANT BackoffMax = 3
CONSTANT LaunchMayFail = FALSE
CONSTANT JoinMayTimeOut = FALSE
INVARIANT TypeOK
INVARIANT UsesLive
INVARIANT NoTerminate
INVARIANT RunningIsWhole
INVARIANT StopsBeforeJoins
PROPERTY PostRecoveryGrace
PROPERTY AttemptsRemembered
PROPERTY ImplementsPipelineUse
