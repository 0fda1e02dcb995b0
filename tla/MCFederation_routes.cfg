SPECIFICATION Spec
CONSTANTS
  t1 = t1
  t2 = t2
  b1 = b1
  b2 = b2
  s1 = s1
  s2 = s2
  f1 = f1
  Timer = timer
  Transfer = {t1}
  Earlier = {t2}
  Dest = {b1, b2}
  Sender = {s1}
  Flusher = {}
  MAX_QUEUE = 1
  MAX_RECEIPTS = 1
  MaxRoute = 2
  MaxFaults = 2
  MaxExpiries = 1
  Candidates <- TwoRelays
INVARIANT TypeOK
INVARIANT ReceiptMeansAcked
INVARIANT OneEnvelopePerTransfer
