SPECIFICATION Spec
CONSTANTS
    s1 = s1  s2 = s2  b1 = b1  b2 = b2  k1 = k1  k2 = k2  k3 = k3  l1 = l1  l2 = l2
    Sessions = {s1, s2}
    Booths = {b1}
    EventOf <- EventOfBooth
    Bookings = {k1, k2, k3}
    Lines = {l1}
    NoLine = NoLine  NoBooth = NoBooth  NoBooking = NoBooking
SYMMETRY FreshSymmetry
INVARIANTS AvailableIsFree
