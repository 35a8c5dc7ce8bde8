SPECIFICATION FairSpec
CONSTANT MaxSends = 3
INVARIANTS OneWrite InOrder ReleasedOnce
PROPERTIES LastWordsArrive SilenceEnds ClosedIsDestroyed
CHECK_DEADLOCK FALSE
