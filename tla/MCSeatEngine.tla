---------------------------- MODULE MCSeatEngine ----------------------------
(* Small instances of SeatEngine.                                          *)
EXTENDS SeatEngine, TLC

CONSTANTS e1, e2, s1, s2

Cap(multi, max) == [is_multi_slots |-> multi, seats_limited |-> TRUE, seats_max |-> max]

\* A single-slot event of one seat.
OnePatch == {Cap(FALSE, 1)}
TwoPatch == {Cap(FALSE, 2)}

\* An officer moves an event between one seat in all and two seats per slot,
\* so that a patch can land between a count and its commit and below the
\* seats already taken.
SlotPatches == {Cap(FALSE, 1), Cap(TRUE, 2)}

NoAxes == {}
EntryAxes == {"on_confirm", "on_done"}
DoneAxes == {"on_create", "on_done"}

NoSlots == [s \in {} |-> e1]
OwnSlots == [s \in {s1, s2} |-> e1]

Sym == Permutations(Regs) \cup Permutations(Txs) \cup Permutations(Slots)
=============================================================================
