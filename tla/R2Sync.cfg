SPECIFICATION FairSpec
CONSTANTS
  Files = {instances, users}
  MainFile = instances
  NoFile = NoFile
  Savers = {s1, s2}
  Command = cmd
  MaxSaves = 3
  Scenarios <- MCScenarios
INVARIANTS FilesInv
PROPERTIES CatchesUp BackupGrows
