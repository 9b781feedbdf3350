\* The lock-file protocol, with crashes and inode reuse.
SPECIFICATION FairSpec
CONSTANTS
  Procs = {p1, p2, p3}
  Inodes = {i1, i2, i3, i4}
  None = None
  MaxCrashes = 1
INVARIANTS MutualExclusion HeldIsNamed NoStrayFile
PROPERTIES SomeoneGetsIt MutexSpec
CHECK_DEADLOCK TRUE
