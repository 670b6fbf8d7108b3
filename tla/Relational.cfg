CONSTANTS
    ServerTables <- MCServerTables
    PKeys <- MCPKeys
    Cells <- MCCells
    ModeZero = "upsert"
    IntBytes = 2
    TABLE_PREFIX_MIN = 1
SPECIFICATION Spec
INVARIANTS ReadYourWrites CodecRoundTrip KeyOrder
CHECK_DEADLOCK FALSE
