SPECIFICATION TableSpec
CONSTANTS
    Bits = 2
    LongBytes = 2
    IntBytes = 1
    Columns <- MCColumns
    MaxColumns = 3
    Strings <- MCStrings
    PageSize = 16
    HeaderSize = 2
    SlotSize = 1
    Bytes <- MCBytes
    Tuples <- MCTuples
    TableSchema <- MCSchema
    TableRows <- MCRows
    Empty = Empty
INVARIANTS
    Layout
    EmptyPageAccepts
    RowsRoundTrip
    SchemaRoundTrip
PROPERTIES
    ImplementsSlotMap
    CompactReclaims
