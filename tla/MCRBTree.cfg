SPECIFICATION FairSpec
CONSTANTS
    N = 6
    Objects <- MCObjects
    KeyOf <- MCKeyOf
    NIL = 0
INVARIANTS
    Linked
    TraverseSorted
    FindsStored
    RedBlack
PROPERTY
    Returns
