SPECIFICATION Spec
CONSTANTS
  QueueSize = 3
  MaxSubs = 2
  MaxType = 1
  StatMod = 4
  Handlers = {h1, h2}
  Filters <- MCFilters
INVARIANTS TypeOK Accounting DeliveryExact
PROPERTIES InFlightStable DispatchReturns ImplementsQueue
