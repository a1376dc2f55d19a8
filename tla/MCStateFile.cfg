SPECIFICATION FairSpec
CONSTANTS
  s1 = s1
  s2 = s2
  s3 = s3
  r1 = r1
  r2 = r2
  server = server
  command = command
  reader = reader
  Saves <- MCSaves
  Loads <- MCLoads
  Procs <- MCProcs
  Home <- MCHome
  Absent = Absent
  Torn = Torn
  None = None
INVARIANTS
  TypeOK
  IdsKept
PROPERTIES
  ImplementsAtomicStore
  CallsReturn
CHECK_DEADLOCK FALSE
