SPECIFICATION FairSpec
CONSTANTS
    Bids = {b1, b2}
    Asks = {a1, a2}
    NoQuote = NoQuote
INVARIANTS TypeOK NoOverlap MemoryIsLive CycleInv
PROPERTIES SubmitsIntoEmptyBook DrainsOrWaits
