SPECIFICATION FairSpec
CONSTANT Capacity = 2
CONSTANT MaxMessages = 2
PROPERTY StopReturns
