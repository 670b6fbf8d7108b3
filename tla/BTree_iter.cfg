CONSTANTS
    v1 = v1
    v2 = v2
    Vals = {v1}
    NoVal = NoVal
    Nil = Nil
    FreePage = FreePage
    HEADER = 0
    SLOT = 1
    BTREE_MAX_KEY_SIZE = 1
    ValLen <- ValByte
    KeyLen <- OneByte
    PAGE_SIZE = 8
    Keys = {1,2,3,4,5,6}
    MaxPages = 16
SPECIFICATION ISpec
VIEW IterView
INVARIANTS TypeOK BTreeShape PagesExact ReadAgrees PathConsistent
PROPERTIES DictRefinement IterSteps
CHECK_DEADLOCK FALSE
