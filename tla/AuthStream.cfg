CONSTANTS
  Kinds = {"sha1", "aes", "chain"}
  MaxUp = 3
  MaxDown = 2
  MaxWrite = 2
  MaxRaw = 2
SPECIFICATION Spec
INVARIANTS TypeOK Undisturbed InsertedOnce
PROPERTIES UpStream DownStream
CHECK_DEADLOCK FALSE
