SPECIFICATION FairSpec
CONSTANTS
    Frame = 3
    Block = 2
    Capacity = 8
    MaxFrames = 6
    MaxBlocks = 11
INVARIANTS
    TypeOK
    AllOrNothing
    PlayedInOrder
    LostAtBlockEnd
PROPERTY OfferedIsTaken
