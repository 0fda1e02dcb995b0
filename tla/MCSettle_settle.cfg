SPECIFICATION SettleSpec
CONSTANTS
  p1 = p1
  o1 = o1
  o2 = o2
  o3 = o3
  FLUSH = FLUSH
  Proc = {p1}
  Op = {o1, o2, o3}
  Detached = {}
  Throws = {o2}
  Backing = "file"
  MaxFaults = 3
  MaxBoots = 3
  n1 = n1
  Newcomer = {n1}
  MaxInvites = 1
  MaxJoins = 2
  MaxPairFaults = 1
  MaxLinks = 0
  MaxMail = 0
  MaxChallenges = 2
  MaxRegFaults = 1
  l1 = l1
  Letter = {l1}
  MaxSignals = 1
  MaxSessions = 1
  MaxDirectFaults = 1
INVARIANT ReportedSurvives
PROPERTY CallsAnswered
PROPERTY ShutdownEnds
PROPERTY JoinedIsInstalled
PROPERTY RootKeepsPulling
PROPERTY DirectDelivers
PROPERTY RelayCopySettles
CHECK_DEADLOCK FALSE
