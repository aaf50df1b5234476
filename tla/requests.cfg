\* Every wrapper, against a proxy that may lose the answer of a done request.
SPECIFICATION FairSpec
CONSTANTS
  Calls = {"Get", "GetOnce", "Mutate", "PostIdempotent", "DeleteAndVerify"}
  MaxRetries = 3
  GatewayLoses = TRUE
INVARIANTS
  TypeOK
  AtMostOnce
  RefusedMeansUntouched
  SuccessIsReal
  BoundedRequests
PROPERTIES
  CallReturns
