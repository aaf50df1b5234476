\* Three commands meet one expired access token, beside a login.
SPECIFICATION FairSpec
CONSTANTS
  Procs = {p1, p2, p3}
  Nobody = Nobody
  NoToken = NoToken
  Kinds = {"use", "login"}
  Requests = 2
  BareLogins = FALSE
  Faults = {}
  Expiring = {1}
INVARIANTS
  TypeOK
  NoCommandIsStranded
  OneRefreshPerExpiry
PROPERTIES
  EveryCommandReturns
