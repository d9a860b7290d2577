\* One address and two blocks, in pages of two rows: two pages of a block, at
\* most five items of an address, counted up to four, and two pages under way.
SPECIFICATION Spec
CONSTANTS
    Address = {a1}
    Block = {b1, b2}
    None = None
    Limit = 2
    BlockSize = 3
    MaxScan = 4
    MaxItems = 5
    MaxRows = 5
    MaxFlights = 2
INVARIANTS
    RowsInOrder
    MoreIsTrue
    LoadingEnds
CHECK_DEADLOCK FALSE
