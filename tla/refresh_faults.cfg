\* Commands, logins and logouts with every fault the code handles.
SPECIFICATION Spec
CONSTANTS
  Procs = {p1, p2, p3}
  Nobody = Nobody
  NoToken = NoToken
  Kinds = {"use", "login", "logout"}
  Requests = 2
  BareLogins = FALSE
  Faults = {"crash", "interrupt", "lost", "store"}
  Expiring = {1, 2, 3}
SYMMETRY ProcsSymmetry
INVARIANTS
  LockExcludes
  NoWastedRefresh
  StoredPairUsable
PROPERTIES
  RefreshIsInvisible
