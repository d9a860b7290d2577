SPECIFICATION QueueSpec
CONSTANTS
    Tx = {t1, t2, t3, t4}
    Rate = {1, 2, 3, 8, 13, 20, 31}
    Size = {1, 2, 3}
    Unit = 2
    BandMins <- Bands
    VbytesPerBlock = 3
    Interval = 1500
INVARIANTS
    AdviceIsNextBlock
    PlacesAgree
SYMMETRY Symmetry
