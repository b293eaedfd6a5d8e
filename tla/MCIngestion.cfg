SPECIFICATION Spec
CONSTANTS
  r1 = r1
  r2 = r2
  r3 = r3
  d1 = d1
  Request = {r1, r2, r3}
  Document = {d1}
  Chunking <- MCChunking
  Pieces <- MCPieces
  MaxFaults = 1
INVARIANTS
  IngestionInv
  CompletedIsWhole
PROPERTY Settles
\* Requests end.
CHECK_DEADLOCK FALSE
