SPECIFICATION FairSpec
CONSTANTS
    None = None
    Asked = Asked
    Branch = {1, 2}
    MaxHeight = 3
    RibbonMax = 2
    FlashTime = 2
    FlightTime = 1
    MaxInbox = 1
    MaxFaults = 1
INVARIANTS
    LiveLayerSound
PROPERTIES
    NewestStays
    DashboardSettles
CHECK_DEADLOCK FALSE
