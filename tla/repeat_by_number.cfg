SPECIFICATION Spec
CONSTANTS
  Programs <- AllPrograms
  ByNumber <- NotMisled
  BatchSize = 2
  MaxMeddling = 0
PROPERTY RepeatsAreHarmless
CHECK_DEADLOCK FALSE
