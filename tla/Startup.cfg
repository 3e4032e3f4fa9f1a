\* Lists of up to two lines and an argument, pairs of artifact paths under three spellings
\* of two directories, budgets of up to seven among up to five workers.
CONSTANTS
  AddressBits = 3
  MaxPort = 4
  MaxExpanded = 5
  Cores = 4
  MaxProcesses = 4
  Dirs <- MCDirs
  DirLinks <- MCDirLinks
  Files <- MCFiles
  Links <- MCLinks
  Invocations <- MCInvocations
SPECIFICATION Spec
INVARIANTS
  TargetsExact
  NoFileTwice
  BudgetsAddUp
