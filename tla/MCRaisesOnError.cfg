SPECIFICATION Spec
CONSTANTS
  None = None
  BatchSize = 2
  MaxEmitRetries = 2
  MaxMessages = 3
  MaxConns = 4
PROPERTY RaisesOnError
CHECK_DEADLOCK FALSE
