SPECIFICATION FairSpec
CONSTANTS
  alice = alice
  bob = bob
  a1 = a1
  b1 = b1
  d1 = d1
  d2 = d2
  Device = {alice, bob}
  Tab = {a1, b1}
  Home <- OneTab
  Delivery = {d1}
  From <- FromAlice
  To <- ToBob
  KeyMode = {"static-fallback", "one-time-prekey"}
  EnvelopeId <- Ids4
  MAX_QUEUE = 1
  MAX_RECEIPTS = 1
  PULL_BATCH = 1
  MaxFaults = 1
INVARIANT TypeOK
INVARIANT OutboxReleasedOnlyWhenStored
INVARIANT ReceiptMeansStored
INVARIANT SpentPrekeyMeansStored
PROPERTY KeepsPromise
PROPERTY DeliversEventually
PROPERTY OutboxSettles
