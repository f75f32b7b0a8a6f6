---------------------------- MODULE MCBoothBooking ----------------------------
(* Small instances of BoothBooking: two booths of two events.              *)
EXTENDS BoothBooking, TLC

CONSTANTS s1, s2, b1, b2, k1, k2, k3, l1, l2

EventOfBooth == [b \in Booths |-> b]

\* Requests, ids and booths with their events are interchangeable.
FreshSymmetry ==
    Permutations(Sessions) \cup Permutations(Bookings) \cup Permutations(Lines)
        \cup Permutations(Booths)
=============================================================================
