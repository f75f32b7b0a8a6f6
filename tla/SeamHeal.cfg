SPECIFICATION HistorySpec
CONSTANTS
    e1 = e1  e2 = e2  e3 = e3  o1 = o1  o2 = o2  o3 = o3  d1 = d1  d2 = d2
    w1 = w1  w2 = w2  t1 = t1  t2 = t2
    Events = {e1}
    MultiSlots = {}
    seats_max <- OneSeat
    Sales <- AlwaysOn
    Orders = {o1}
    FreeOrders = {}
    Specs <- Single
    Deliveries <- Life
    Before <- AnyOrder
    WalkIns = {w1}
    Txs = {t1, t2}
    NoId = NoId  NoOrder = NoOrder  Free = Free
PROPERTIES SeatTakenWithinCap
