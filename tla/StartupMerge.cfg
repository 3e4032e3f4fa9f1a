\* Lists of up to two lines and an argument; the standard input may end without a line feed.
CONSTANTS
  AddressBits = 3
  MaxPort = 4
  MaxExpanded = 5
  Cores = 4
  MaxProcesses = 4
  Dirs <- MCDirs
  DirLinks <- MCDirLinks
  Files <- MCFiles
  Links <- MCLinks
  Invocations <- MergeInvocations
SPECIFICATION Spec
INVARIANT
  NothingDropped
