SPECIFICATION Spec
CONSTANTS
  Key = {"k"}
  Builder = {"b1", "b2"}
  Work <- MCWork
  MaxSets = 1
  MaxBuilds = 2
  MaxWork = 3
  GoTests <- MCGoTests
  MiscTests <- MCMiscTests
  Duration <- MCDuration
  SizeThres = 10
  Helper = {"h1", "h2"}
INVARIANTS VerdictIsDeserved OneBuildPerWork PassIsDeserved
PROPERTIES TryAnswered TestsEnd
CHECK_DEADLOCK FALSE
