CONSTANTS
  Rules = {"iterate"}
SPECIFICATION Spec
CHECK_DEADLOCK TRUE
INVARIANTS
  BasesAgree
