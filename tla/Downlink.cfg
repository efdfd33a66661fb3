SPECIFICATION Spec
CONSTANTS
  Cloud = cloud
  uart = uart
  timer = timer
  Contexts <- MCContexts
  Flushers <- MCFlushers
  Streams <- MCStreams
  HeadLen = 2
  MSG_BUFFER_MAXLEN = 4
  QC_MAX_SOCKET_LEN = 4
  Garbage = {2, 5}
  FlagLen = 1
  FrameLens = {2}
  UartBufLen = 5
  MaxNotices = 1
  MaxLosses = 1
INVARIANT FramesReachTheMcu
PROPERTY PacedMessagesArrive
CHECK_DEADLOCK FALSE
