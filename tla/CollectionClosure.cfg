CONSTANTS
    Catalogue <- MCCatalogue
    Entries <- MCEntries
    Cores <- MCCores
    Order <- MCOrder
    Checkout <- MCCheckout
    NoName = NoName
    MaxEntries = 3
SPECIFICATION TreeSpec
INVARIANTS
    VerdictIsTheClosure
CHECK_DEADLOCK FALSE
