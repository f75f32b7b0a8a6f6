----------------------------- MODULE MCSaleSeam -----------------------------
(* Small instances of SaleSeam, with its history.                          *)
EXTENDS SaleHistory, TLC

CONSTANTS e1, e2, e3, o1, o2, o3, d1, d2

Fact(verb, o) == [verb |-> verb, order |-> o, delivery_id |-> NoId]

OneSeat  == [e \in Events |-> 1]
TwoSeats == [e \in Events |-> 2]

Single == [o \in Orders |-> <<e1>>]
Pair   == [o \in Orders |-> <<e1, e1>>]

\* Two orders over the same two events, in opposite orders, the first with two
\* attendees of the event that has two seats.
\* The third order also asks for an event sold by slot.
Contested == (o1 :> <<e1, e1, e2>>) @@ (o2 :> <<e2, e1>>) @@ (o3 :> <<e2, e3>>)
FirstCapped == [e \in Events |-> IF e = e1 THEN 2 ELSE 0]

\* Every fact of one order.
Life == {Fact(v, o1) : v \in {"confirmed", "cancelled", "paid"}}

\* One order confirmed twice: a cancelled order re-confirmed.
First  == [Fact("confirmed", o1) EXCEPT !.delivery_id = d1]
Second == [Fact("confirmed", o1) EXCEPT !.delivery_id = d2]
Twice  == {First, Second}
Again  == Twice \cup {Fact("cancelled", o1)}

Contest == Again \cup {Fact("confirmed", o2), Fact("confirmed", o3)}
AgainAndPaid == Again \cup {Fact("paid", o1)}

\* The second fact of o1 heals its rows; its payment comes after both.
OneByOne == {<<First, Second>>}
AnyOrder == {}
PaidLast == OneByOne \cup {<<d, Fact("paid", o1)>> : d \in Twice}

\* What the host may set the sale of an event to.
AlwaysOn == {}
Cancels == {e2} \X {"on", "cancel"}

TxSymmetry == Permutations(Txs)
=============================================================================
