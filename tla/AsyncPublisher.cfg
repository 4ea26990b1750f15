SPECIFICATION HungSinkSpec
CONSTANT Capacity = 2
CONSTANT MaxMessages = 5
INVARIANT TypeOK
INVARIANT LostOnlyByOverflow
INVARIANT StopDrains
INVARIANT SinkUpWhileDelivering
PROPERTY ImplementsDropOld
PROPERTY ProducerNeverBlocked
PROPERTY AcceptedIsHandled
