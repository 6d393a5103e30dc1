SPECIFICATION Spec
CONSTANTS
  w1 = w1
  Writers = {w1}
  MaxIds = 6
  Outages = TRUE
  Retention = TRUE
SYMMETRY WriterSymmetry
CHECK_DEADLOCK FALSE
INVARIANTS NoFalseAlarm
