SPECIFICATION Spec
CONSTANTS
  Commands = {c1, c2}
  Nothing = Nothing
  User = User
INVARIANTS TypeOK LandedIsComplete TokensRevoked
PROPERTIES NoClobber OneFileSurvives
