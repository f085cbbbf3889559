SPECIFICATION FilesSpec
CONSTANTS
    Paths = {"a", "b"}
    Users = {1, 2}
    Contexts = {1, 2}
    MaxOps = 2
CHECK_DEADLOCK FALSE
INVARIANT AuthorIsWriter
