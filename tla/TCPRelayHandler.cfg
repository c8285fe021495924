\* Both kinds of plugins; four units each way, recv yields up to two.
CONSTANTS MaxUp = 4  MaxDown = 4  Chunk = 2  Plugins = {TRUE, FALSE}
SPECIFICATION Spec
INVARIANTS TypeOK EveryUnitOnce PollsForStatus NeverDeaf
           DownstreamInOrder EofAfterEverythingSent
CHECK_DEADLOCK FALSE
