SPECIFICATION FairSpec
CONSTANT Size = 4
CONSTANT MaxFrames = 6
CONSTANT FlushPolls = 2
INVARIANT TypeOK
INVARIANT SlotExclusive
PROPERTY ImplementsDropNew
PROPERTY DestroyDrains
CHECK_DEADLOCK FALSE
