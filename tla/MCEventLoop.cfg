\* Two connections at once, one of them of the controller at most; a header and its
\* payload, or two messages, in one portion, and packets in two.
CONSTANTS
  Commands = {"init", "crash", "sendfile", "routing_table"}
  HeaderSize = 1
  PayloadSize <- MCPayloadSize
  PacketSize = 2
  Interval = 2
  NbrCount = 1
  MaxFd = 5
  MaxConns = 2
  MaxControl = 1
  MaxUnread = 2
  MaxDatagrams = 1
SPECIFICATION LiveSpec
INVARIANTS
  TypeOK
  Registered
  StillReady
  Framed
PROPERTIES
  TimerNotEarly
  NobodyStarved
\* The process may hang or exit.
CHECK_DEADLOCK FALSE
