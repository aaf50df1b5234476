SPECIFICATION Spec
CONSTANTS
  Programs <- AllPrograms
  ByNumber <- MisledByNumbers
  BatchSize = 2
  MaxMeddling = 1
INVARIANT TypeOK
PROPERTIES NothingUnasked NoLostUpdate RepeatsAreHarmless AnswersAreTrue
CHECK_DEADLOCK FALSE
