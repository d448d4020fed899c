CONSTANTS
  Abi <- MCAbi
  Unknown = unknown
  Values <- MCValues
  MaxDashes = 2

SPECIFICATION Spec
\* parse_params returns once: the command line has been parsed.
CHECK_DEADLOCK FALSE

INVARIANTS
  TypeOK
  RoundTripPlainValues
