SPECIFICATION FairSpec
CONSTANT MaxFrames = 2
CONSTANT FaceSkip = 2
CONSTANT YoloSkip = 0
INVARIANT PeopleMatchPicture
PROPERTY NeverBack
PROPERTY UsesLatestWins
 
CONSTANT Watched = 1
