SPECIFICATION Spec
CONSTANTS
  w1 = w1
  w2 = w2
  w3 = w3
  Writers = {w1,w2,w3}
  MaxIds = 5
  Outages = TRUE
  Retention = FALSE
SYMMETRY WriterSymmetry
CHECK_DEADLOCK FALSE
INVARIANTS RowsExtendCommittedRows
