CONSTANTS
  Kinds = {"tls", "http", "random"}
  MaxUp = 5
  MaxDown = 4
  MaxWrite = 3
SPECIFICATION Spec
INVARIANTS TypeOK InOrder 
CHECK_DEADLOCK FALSE
