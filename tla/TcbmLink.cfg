CONSTANTS
  Bytes <- MCBytes
  Statuses = {0, 3}
  None = None
SPECIFICATION FairSpec
INVARIANT NoContention
PROPERTIES ExchangesBytes CallsReturn
CHECK_DEADLOCK TRUE
