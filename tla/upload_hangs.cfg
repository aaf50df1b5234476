SPECIFICATION AnySourceSpec
CONSTANT Parts = 2
PROPERTY UploadReturns
CHECK_DEADLOCK FALSE
