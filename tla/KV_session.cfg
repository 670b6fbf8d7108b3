CONSTANTS
    v1 = v1
    v2 = v2
    NoVal = NoVal
    Nil = Nil
    PAGE_SIZE = 8
    HEADER = 0
    SLOT = 1
    KeyLen <- OneByte
    ValLen <- ValByte
    BTREE_MAX_KEY_SIZE = 1
    FREE_LIST_CAP = 2
    Keys = {1, 2, 3}
    Vals = {v1}
    MaxPtr = 13
    FreedOrders <- AnyOrder
SPECIFICATION SessionSpec
INVARIANTS MasterWithinFile 
 
CHECK_DEADLOCK FALSE
