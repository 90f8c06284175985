CONSTANTS
  Logins = {l1}
  Pollers = {p1}
  Urls = {u1}
  NoUrl = NoUrl
  Expiry = 1
  AlreadyExpiry = 1
  Overlong = {}
  MaxTime = 1
SPECIFICATION Spec
INVARIANT
  PrintedUrlRecorded
