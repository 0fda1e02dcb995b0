SPECIFICATION Spec
CONSTANTS
  alice = alice
  bob = bob
  a1 = a1
  b1 = b1
  d1 = d1
  d2 = d2
  Device = {alice, bob}
  Tab = {a1, b1}
  Home <- OneTab
  Delivery = {d1, d2}
  From <- FromAlice
  To <- ToBob
  KeyMode = {"static-fallback"}
  EnvelopeId <- Ids6
  MAX_QUEUE = 2
  MAX_RECEIPTS = 1
  PULL_BATCH = 2
  MaxFaults = 0
INVARIANT DeliveryInv
INVARIANT MailboxesBoundedAndUnique
SYMMETRY Deliveries
