SPECIFICATION PublisherSpec
CONSTANTS
  c1 = c1
  c2 = c2
  Subscriber <- TwoClients
  Size <- SmallSizes
  TerminalSize <- TerminalSizes
  MaxFrames = 3
  MaxRetainedEvents = 2
  MaxRetainedBytes = 3
  SubscriberLimit <- OneOrTwo
  MaxSubscriberQueueEvents = 1
  MaxSubscriberQueueBytes = 4
  MaxLiveQueueBytes = 5
INVARIANTS
  Budgets
PROPERTIES
  LogSpec
  StreamsSettle
CHECK_DEADLOCK FALSE
