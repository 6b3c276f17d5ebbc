SPECIFICATION Spec
CONSTANTS
  MaxSockets = 5
  MaxCalls = 2
INVARIANTS
  OneConnectIsSafe
PROPERTIES
  ReconnectComes
