SPECIFICATION FairSpec
CONSTANTS
  t1 = t1
  t2 = t2
  b1 = b1
  b2 = b2
  s1 = s1
  s2 = s2
  f1 = f1
  Timer = timer
  Transfer = {t1}
  Earlier = {t2}
  Dest = {b1}
  Sender = {s1, s2}
  Flusher = {f1}
  MAX_QUEUE = 1
  MAX_RECEIPTS = 1
  MaxRoute = 1
  MaxFaults = 2
  MaxExpiries = 0
  Candidates <- OneRelay
PROPERTY ReceiptArrives
PROPERTY PendingSettles
