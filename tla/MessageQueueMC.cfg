SPECIFICATION HFairSpec
CONSTANTS
    Items <- MCItems
    Consumers <- MCConsumers
    MaxQueueSize = 2
    MaxPuts = 5
    MaxVersion = 1
    a = a
    b = b
    c1 = c1
    c2 = c2
INVARIANTS
    NoLostWakeup
    Conservation
    QueueHoldsNewest
    DeliveredInOrder
PROPERTIES
    ShutdownReleasesConsumers
