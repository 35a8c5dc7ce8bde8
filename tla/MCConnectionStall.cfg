SPECIFICATION FairSpec
CONSTANT MaxSends = 2
PROPERTY SocketCloses
CHECK_DEADLOCK FALSE
