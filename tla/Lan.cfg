SPECIFICATION LanSpec
CONSTANTS
  Fds <- MCFds
  PCT_INVAILD_SOCKET = 256
  ZC_MAX_CLIENT_NUM = 2
  PCT_SEND_BC_MAX_NUM = 1
  BcSleepCount = 1
  MaxAsked = 1
INVARIANTS
  SocketsOfTheLanAreOwned
  BusyClientIsConnected
  OneConnectedSender
  AnswersReachTheirClient
PROPERTY
  BroadcastsAreSpaced
