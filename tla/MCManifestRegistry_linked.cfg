SPECIFICATION RegistryFairSpec
CONSTANTS
  phone = phone
  rootMail = rootMail
  rootAdmin = rootAdmin
  phoneMail = phoneMail
  Root = Root
  Nobody = Nobody
  Linkable = {phone}
  Proc = {p1}
  Call = {c1, c2, c3}
  Page = {rootMail, rootAdmin, phoneMail}
  BrowserOf <- BrowserOfPage
  Admin = {rootAdmin}
  MaxSignings = 3
  MaxRegistryFaults = 0
PROPERTY LinkedDeviceKeepsSyncing
CHECK_DEADLOCK FALSE
