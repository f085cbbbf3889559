SPECIFICATION Spec
CONSTANTS
    Worlds <- HeartbeatsDuringDeletion
    MaxReplies = 1
INVARIANT DeletedIsGone
