\* Two clients, every variant of the server, a line that fits into one read and
\* one that does not.
CONSTANTS
  Clients = {"a", "b"}
  Kinds = {"fork", "refuse", "select", "poll", "epoll"}
  Lengths = {1, 3}
  MaxLine = 2
  Room = 1
  MaxLines = 1
  FD_SETSIZE = 2
  PollSize = 1
CHECK_DEADLOCK FALSE
SPECIFICATION FairSpec
INVARIANT ZombiesNoticed
INVARIANT ServerIntact
INVARIANT BytesHaveEvent
PROPERTY Answered
