SPECIFICATION Spec
CONSTANTS
  Pids <- MCPids
  Commands <- MCCommands
  Sources <- MCSources
  ProjectFiles <- MCProjectFiles
  UserEnvs <- MCUserEnvs
  CallLimit = 3
  RunLimit = 2
INVARIANT DatabaseExact
INVARIANT AdjustedOnce
INVARIANT HeaderOfBuild
INVARIANT AbortOnlyAfterCutWrite
CHECK_DEADLOCK FALSE
