SPECIFICATION Spec
CONSTANTS
  CHAR_BITS = 3
  SHORT_BITS = 5
  INT_BITS = 8
  LONG_BITS = 16
  NTOA_BUFFER_SIZE = 8
  FTOA_BUFFER_SIZE = 12
  DEFAULT_PRECISION = 2
  MAX_PRECISION = 3
  MANTISSA_BITS = 5
  MAX_FLOAT = 1000
  MAX_ADAPTED = 100
  Inputs <- FractionInputs
INVARIANT
  PlacesAreKept
CHECK_DEADLOCK FALSE
