CONSTANTS
  Rules = {"iterate", "crossover"}
SPECIFICATION Spec
CHECK_DEADLOCK TRUE
INVARIANTS
  SimplexDataIsCurrent
  BasesAgree
  ReportIsCurrent
