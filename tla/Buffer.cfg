SPECIFICATION FairSpec
CONSTANTS
  QueueCapacity = 2
  BatchSize = 3
  MaxEvents = 7
INVARIANTS
  TypeOK
  Conservation
  LossOnlyInExitWindow
PROPERTIES
  KeepsPromise
  DropReturns
  EventsSettle
CHECK_DEADLOCK FALSE
