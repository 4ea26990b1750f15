SPECIFICATION Spec
CONSTANT MaxIds = 2
CONSTANT NInit = 2
CONSTANT MaxAge = 2
CONSTANT PublishGrace = 1
CONSTANT PublishEvery = 2
CONSTANT Hold = 1
CONSTANT MaxGaze = 2
INVARIANT IdsNeverReused
INVARIANT GazeCountsMessages
PROPERTY FlagsExact
PROPERTY PublishedIsSeen
PROPERTY LostOnlyOutOfSight
