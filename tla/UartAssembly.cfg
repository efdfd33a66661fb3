SPECIFICATION UartSpec
CONSTANTS
  HeadLen = 3
  ZC_MAX_UARTBUF_LEN = 7
  MSG_BULID_BUFFER_MAXLEN = 8
  FrameNum = 4
  Streams <- MCStreams
INVARIANTS
  FramesAreHandledOnce
  EveryFrameArrives
  Resynchronises
