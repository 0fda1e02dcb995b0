SPECIFICATION NetworkSpec
CONSTANTS
  phone = phone
  rootMail = rootMail
  rootAdmin = rootAdmin
  phoneMail = phoneMail
  Root = Root
  Nobody = Nobody
  Linkable = {phone}
  Proc = {p1}
  Call = {c1, c2}
  Page = {rootMail, rootAdmin, phoneMail}
  BrowserOf <- BrowserOfPage
  Admin = {rootAdmin}
  MaxSignings = 3
  MaxRegistryFaults = 1
  w1 = w1
  s1 = s1
  s2 = s2
  Owner = {w1}
  Sender = {s1, s2}
  MAX_POOL = 1
  LowWater = 1
  Target = 1
  MaxPrekeys = 3
  MaxPoolFaults = 1
  n1 = n1
  n2 = n2
  Newcomer = {n1, n2}
  MaxInvites = 2
  MaxJoins = 3
  MaxPairFaults = 1
  MaxLinks = 1
  MaxMail = 1
  MaxChallenges = 2
  MaxRegFaults = 1
  l1 = l1
  Letter = {l1}
  MaxSignals = 1
  MaxSessions = 2
  MaxDirectFaults = 1
INVARIANT NetworkTypeOK
INVARIANT KeptIsPublished
INVARIANT HandedOutOnce
INVARIANT ClaimedKeyOpens
INVARIANT InstalledIsLinked
INVARIANT OneDevicePerInvite
INVARIANT MailFollowsRoot
INVARIANT ChallengeUsedOnce
INVARIANT DeliveredDirectIsKept
PROPERTY CheckpointGrows
PROPERTY MemoryCacheGrows
PROPERTY DirectKeepsPromise
CHECK_DEADLOCK FALSE
