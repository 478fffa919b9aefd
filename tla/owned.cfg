SPECIFICATION McpSpec
CONSTANTS
    Platforms = {"nt", "posix"}
    Steps = 3
    CommandStep = 2
INVARIANTS McpTypeOK OutcomeIsTrue NothingRunsOn
PROPERTIES OwnedWhenStarted NoOrphans CancelledCallEnds
CHECK_DEADLOCK FALSE
