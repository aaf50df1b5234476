\* A login pastes a bare access token while a command is running.
SPECIFICATION Spec
CONSTANTS
  Procs = {p1, p2}
  Nobody = Nobody
  NoToken = NoToken
  Kinds = {"use", "login"}
  Requests = 2
  BareLogins = TRUE
  Faults = {}
  Expiring = {1, 2}
PROPERTIES
  RefreshKeepsTheLogin
