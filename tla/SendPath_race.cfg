SPECIFICATION Spec
CONSTANTS
  MSG_QUEUE_MAXLEN = 2
  MSG_BUFFER_SEND_MAX_NUM = 2
  Pushers = {uart, cloud}
  CloudThread = cloud
  MessageNum = 4
  NULL = null
INVARIANT
  EmptyQueueHasNoMessage
