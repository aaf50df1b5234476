\* Keyring or file, with commands that die, or fail on the file, between the two;
\* or with a keyring service that goes away and comes back.
SPECIFICATION Spec
CONSTANTS
  Procs = {p1, p2}
  Nobody = Nobody
  Accounts = {home, work}
  Modes = {"auto", "none"}
  Platforms = {"linux", "other"}
  FaultSets <- StoreFaults
  MaxSaves = 2
SYMMETRY StoreSymmetry
INVARIANTS
  FileIsNewest
PROPERTIES
  NothingOldComesBack
  OthersKept
  ReadsAreCurrent
  SavedMeansFound
