SPECIFICATION FairSpec
CONSTANTS
  Channels = {c1, c2}
  NoChannel = NoChannel
  Fds = {5, 6}
  MaxRetries = 3
  MaxWrites = 2
CHECK_DEADLOCK FALSE
INVARIANTS WatchersAlive DisconnectedOnce WritesInOrder DeletionPending
PROPERTIES Settles
