SPECIFICATION MCFairSpec
CONSTANTS
  Nil = Nil
  p1 = p1  p2 = p2  p3 = p3
  m1 = m1  m2 = m2  m3 = m3  m4 = m4  m5 = m5
  Consumers = {p1, p2, p3}
  Messages = {m1, m2, m3, m4, m5}
  Message <- SentMessages
  Content <- Contents
  ProviderBySender <- Senders
  ProcessingTimeout <- Timeouts
  VisibilityTimeout = 3
  LongestProcessing = 1
  DeleteTimeout = 1
  RetryDelay <- Delays
  MaxReceives = 2
  MaxFaults = 1
  MaxStops = 1
  Traffics <- Pairs
INVARIANTS TypeOK DeadLettersNeedFaults HiddenIsHeld AckedIsCommitted
PROPERTIES CommitsInOrder MessagesSettled
