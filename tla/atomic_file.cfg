\* Three writers, with every fault; on Windows a rename may be refused.
SPECIFICATION Spec
CONSTANTS
  Writers = {w1, w2, w3}
  Before = Before
  Absent = Absent
  Torn = Torn
  Platforms = {"posix", "windows"}
  Faults = {"io", "crash", "power"}
INVARIANTS
  NeverTorn
  CleansUp
PROPERTIES
  PreviousOrNew
