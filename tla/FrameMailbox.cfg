SPECIFICATION Spec
CONSTANT MaxFrames = 6
INVARIANT FreshAtCall
INVARIANT NewestNotLost
PROPERTY ImplementsLatestWins
