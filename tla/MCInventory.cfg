SPECIFICATION InventoryFairSpec
CONSTANTS
    Keys = {k1, k2}
    EntryNames = {a, b}
    NoEntry = NoEntry
    MaxChanges = 5
CHECK_DEADLOCK FALSE
PROPERTIES
    FileRespectsRetirement
    RowsSayWhatTheDocumentSaid
    ListedIsObserved
    DepartureIsRecorded
