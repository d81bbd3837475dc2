SPECIFICATION Spec
CONSTANTS
  a = a
  b = b
  s = s
  Client = {a, b, s}
  Submission = s
  Fd <- MCFd
  Backlog = 2
  ReplyLen = 2
  SendBuffer = 1
  Listener = Listener
  None = None
  MaxConns = 3
  MaxRequests = 2
  MaxMails = 1
  MaxFaults = 1
INVARIANTS ChannelsMapped
PROPERTIES Implements MailEnds
CHECK_DEADLOCK FALSE
