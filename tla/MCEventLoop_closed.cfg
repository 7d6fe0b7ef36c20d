\* One connection at a time, packets in two pieces.
CONSTANTS
  Commands = {"init", "crash", "sendfile", "routing_table"}
  HeaderSize = 1
  PayloadSize <- MCPayloadSize
  PacketSize = 2
  Interval = 1
  NbrCount = 1
  MaxFd = 4
  MaxConns = 1
  MaxControl = 1
  MaxUnread = 2
  MaxDatagrams = 1
SPECIFICATION LiveSpec
PROPERTIES
  ClosedIsRemoved
\* The process may hang or exit.
CHECK_DEADLOCK FALSE
