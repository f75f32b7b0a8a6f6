------------------------------ MODULE SeatBook ------------------------------
(***************************************************************************)
(* What the seat engine promises: a book of held seats, changed one entry  *)
(* at a time, in which counting a scope and taking a seat in it are one    *)
(* indivisible step (seat_repository.rs: "lock-first, count-then-insert").  *)
(***************************************************************************)
EXTENDS Naturals, FiniteSets

CONSTANTS Regs,    \* registrations that can hold a seat
          Seats,   \* the seats they can hold: records with an event and a slot
          NoSlot,  \* the slot of a seat that is not bound to one
          NoSeat

VARIABLES
    caps,  \* per event, the seat limit: seats_limited and seats_max
    book   \* the seat each registration holds, or NoSeat

bookVars == <<caps, book>>

\* Entries that compete for the seat: those of its slot, or of its event.
Rivals(seat) ==
    {r \in Regs : /\ book[r] # NoSeat /\ book[r].event = seat.event
                  /\ seat.slot = NoSlot \/ book[r].slot = seat.slot}

Room(seat) ==
    LET cap == caps[seat.event] IN
    cap.seats_limited /\ cap.seats_max > 0 => Cardinality(Rivals(seat)) < cap.seats_max

BookInit == book = [r \in Regs |-> NoSeat]

Take(r, seat) ==
    /\ book[r] = NoSeat /\ Room(seat)
    /\ book' = [book EXCEPT ![r] = seat]
    /\ UNCHANGED caps

Vacate(r) ==
    /\ book' = [book EXCEPT ![r] = NoSeat]
    /\ UNCHANGED caps

Reconfigure == UNCHANGED book

BookNext ==
    \/ \E r \in Regs : Vacate(r) \/ \E seat \in Seats : Take(r, seat)
    \/ Reconfigure

BookSpec == BookInit /\ [][BookNext]_bookVars
=============================================================================
