CONSTANTS
  Logins = {l1}
  Pollers = {p1}
  Urls = {u1, u2}
  NoUrl = NoUrl
  Expiry = 2
  AlreadyExpiry = 1
  Overlong = {"stdout"}
  MaxTime = 2
SPECIFICATION FairSpec
INVARIANTS
  OneApprovalUrl
  SuccessOnlyAfterLogin
PROPERTY
  LoginEnds
