\* Violated: see the finding on BufferedIsWaitedFor.  Plugins that only encode.
CONSTANTS MaxUp = 4  MaxDown = 4  Chunk = 2  Plugins = {FALSE}
SPECIFICATION Spec
INVARIANT BufferedIsWaitedFor
CHECK_DEADLOCK FALSE
