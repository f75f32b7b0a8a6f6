SPECIFICATION HistoryFairSpec
CONSTANTS
    e1 = e1  e2 = e2  e3 = e3  o1 = o1  o2 = o2  o3 = o3  d1 = d1  d2 = d2
    w1 = w1  w2 = w2  t1 = t1  t2 = t2
    Events = {e1, e2, e3}
    MultiSlots = {e3}
    seats_max <- FirstCapped
    Sales <- Cancels
    Orders = {o1, o2, o3}
    FreeOrders = {o1, o2, o3}
    Specs <- Contested
    Deliveries <- Contest
    Before <- AnyOrder
    WalkIns = {w1}
    Txs = {t1, t2}
    NoId = NoId  NoOrder = NoOrder  Free = Free
INVARIANTS SeatsBeyondCapAreLifted
PROPERTIES ImplementsLedger EveryFactConsumed

\* Every fact may be consumed, and no one else is there to take a step.
CHECK_DEADLOCK FALSE
