SPECIFICATION FairSpec
CONSTANTS
  MSG_QUEUE_MAXLEN = 2
  MSG_BUFFER_SEND_MAX_NUM = 2
  Pushers = {uart}
  CloudThread = cloud
  MessageNum = 4
  NULL = null
PROPERTIES
  ImplementsChannel
  BuffersAreFreed
