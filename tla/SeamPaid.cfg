SPECIFICATION HistorySpec
CONSTANTS
    e1 = e1  e2 = e2  e3 = e3  o1 = o1  o2 = o2  o3 = o3  d1 = d1  d2 = d2
    w1 = w1  w2 = w2  t1 = t1  t2 = t2
    Events = {e1}
    MultiSlots = {}
    seats_max <- TwoSeats
    Sales <- AlwaysOn
    Orders = {o1}
    FreeOrders = {}
    Specs <- Pair
    Deliveries <- AgainAndPaid
    Before <- PaidLast
    WalkIns = {w1}
    Txs = {t1, t2}
    NoId = NoId  NoOrder = NoOrder  Free = Free
SYMMETRY TxSymmetry
INVARIANTS IInv PaidNeverStrands MintsOnce
PROPERTIES ImplementsLedger EntryArmsMails
