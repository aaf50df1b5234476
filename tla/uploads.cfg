SPECIFICATION Spec
CONSTANT Parts = 3
INVARIANTS TypeOK SuccessIsSentWhole RefusedIsAbsent RefusalIsHeard
PROPERTY UploadReturns
CHECK_DEADLOCK FALSE
