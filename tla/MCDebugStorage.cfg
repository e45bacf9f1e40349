CONSTANTS
    KeySpace = {0, 1, 2, 3}
    MaxResults = {1, 2, 3}
    None = None
SPECIFICATION Spec
INVARIANTS PagingComplete PagesDisjoint
PROPERTY PagingEnds
CHECK_DEADLOCK FALSE
