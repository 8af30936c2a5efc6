SPECIFICATION SpecCommands
INVARIANTS JobIsKept RunsWhatIsNamed EditIsCurrent KeysCount
PROPERTIES StopReturns
CHECK_DEADLOCK FALSE
