SPECIFICATION Spec
CONSTANTS
  Modes <- MCModes
  MaxQueue = 1
INVARIANT Coherent
INVARIANT MappingsOk
INVARIANT ArmedIsReadOnly
CHECK_DEADLOCK FALSE
