SPECIFICATION FairSpec
CONSTANTS
  ZC_TIMER_MAX_NUM = 6
  Fds = {s1, s2}
  PCT_INVAILD_SOCKET = none
  CloudMsgs <- MCCloudMsgs
  SecSwitches = {1, 2}
  MSG_BUFFER_SEND_MAX_NUM = 2
  MSG_QUEUE_MAXLEN = 2
  PCT_SENDMOUDLE_NUM = 4
INVARIANT
  NothingQueuedWithoutKey
PROPERTIES
  RefinesSession
  HandshakeEnds
  DisconnectedRetries
  MoudleAnswerAwaitedBoundedly
