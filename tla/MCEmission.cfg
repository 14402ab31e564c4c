SPECIFICATION FairSpec
CONSTANTS
  Plugins <- MCPlugins
  Settings <- MCSettings
  MaxRetries = 2
  Features = 1
  MaxFrame = 2
INVARIANTS TypeOK Delivers InOrder
PROPERTIES EmitEnds
\* The run ends after MaxFrame frames or when an emitter raises.
CHECK_DEADLOCK FALSE
