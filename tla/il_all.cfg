SPECIFICATION Spec
CONSTANTS
    Worlds <- AllWorlds
    MaxReplies = 1
INVARIANT LoneDeletionIsComplete
INVARIANT EntryIsWhole
PROPERTY StartsWithJar
PROPERTY CreatedArrives
