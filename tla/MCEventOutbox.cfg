CONSTANTS
  notifications = notifications
  other = other
  Event = {e1, e2}
  Own = {e2}
  Handlers <- MCHandlers
  RetrySafe = {notifications}
  Notifier = notifications
  Stream = {s1}
  QueueSize = 1
  SyncLimit = 1
  MaxFaults = 1
  None = None
SPECIFICATION FairSpec
INVARIANTS DeliveryIsTrue UnsafeHandlerAtMostOnce StreamCannotLose
PROPERTIES EventsSettleOnce
