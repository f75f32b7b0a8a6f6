------------------------------ MODULE SaleLedger ------------------------------
(***************************************************************************)
(* What the sale seam promises (src/docs/spec-overlay.md, the sale seam):  *)
(* a ledger of rows in which each fact takes effect once and as a whole,   *)
(* in one indivisible step, whatever else runs beside it.                  *)
(*                                                                         *)
(* A row is held, or has a seat: one it booked, counted against the cap,   *)
(* or one a heal lifted it into, which nobody counted.                     *)
(***************************************************************************)
EXTENDS Naturals, FiniteSets

CONSTANTS Events, seats_max, Orders, FreeOrders, Specs, Deliveries, WalkIns, Regs,
          NoId, NoOrder

VARIABLES
    consumed,  \* keys of the facts that have taken effect
    row        \* of each registration: its place, event and order, and
               \* whether it is still to pay

ledgerVars == <<consumed, row>>

Attendees(d) == {<<d, i>> : i \in DOMAIN Specs[d.order]}
Key(d) == <<d.verb, IF d.delivery_id = NoId THEN d.order ELSE d.delivery_id>>

NewRow(place, e, o, owes) == [place |-> place, event |-> e, order |-> o, owes |-> owes]
NoRow == NewRow("none", CHOOSE e \in Events : TRUE, NoOrder, FALSE)

Rows(o) == {r \in Regs : row[r].place # "none" /\ row[r].order = o}
Active(o) == {r \in Rows(o) : row[r].place # "archived"}
Held(o) == {r \in Rows(o) : row[r].place = "held"}

Booked(e) == {r \in Regs : row[r].event = e /\ row[r].place = "booked"}
Seated(e) == {r \in Regs : row[r].event = e /\ row[r].place \in {"booked", "lifted"}}
Asked(d, e) == {i \in DOMAIN Specs[d.order] : Specs[d.order][i] = e}

Fits(e, taken, asked) == seats_max[e] > 0 => taken + asked <= seats_max[e]

\* A fact takes effect once.
Consume(d) == Key(d) \notin consumed /\ consumed' = consumed \cup {Key(d)}

-----------------------------------------------------------------------------
(* The facts                                                               *)

\* The first confirmation mints every attendee or, if one is refused, nothing;
\* the seats of a free order must be there.
Mint(d) ==
    LET o == d.order
        free == o \in FreeOrders
        Born(i) == NewRow(IF free THEN "booked" ELSE "held", Specs[o][i], o, ~free)
    IN
    /\ d.verb = "confirmed" /\ Consume(d)
    /\ \A r \in Attendees(d) : row[r].place = "none"
    /\ free => \A e \in Events : Fits(e, Cardinality(Booked(e)), Cardinality(Asked(d, e)))
    /\ row' = [r \in Regs |-> IF r \in Attendees(d) THEN Born(r[2]) ELSE row[r]]

\* A later one finds rows: those of a free order are lifted, those of another
\* are to pay again.
Heal(d) ==
    LET o == d.order IN
    /\ d.verb = "confirmed" /\ Consume(d)
    /\ Rows(o) # {}
    /\ \/ /\ o \in FreeOrders
          /\ row' = [r \in Regs |-> IF r \in Held(o)
                                    THEN [row[r] EXCEPT !.place = "lifted", !.owes = FALSE]
                                    ELSE row[r]]
       \/ /\ o \notin FreeOrders
          /\ row' = [r \in Regs |-> IF r \in Active(o) THEN [row[r] EXCEPT !.owes = TRUE]
                                                       ELSE row[r]]

\* A cancellation gives every seat of the order back.
CancelOrder(d) ==
    /\ d.verb = "cancelled" /\ Consume(d)
    /\ row' = [r \in Regs |-> IF r \in Active(d.order) THEN [row[r] EXCEPT !.place = "held"]
                                                       ELSE row[r]]

\* A payment settles the order, and lifts the held rows its first statement
\* found to pay: S, less than all of them if an officer held one meanwhile.
Pay(d) ==
    LET o == d.order IN
    /\ d.verb = "paid" /\ Consume(d)
    /\ \E S \in SUBSET {r \in Held(o) : row[r].owes} :
          row' = [r \in Regs |->
                     IF r \in S THEN [row[r] EXCEPT !.place = "lifted", !.owes = FALSE]
                     ELSE IF r \in Active(o) THEN [row[r] EXCEPT !.owes = FALSE]
                     ELSE row[r]]

-----------------------------------------------------------------------------
(* The officer and the counter, who count every seat                       *)

Take(r) ==
    /\ row[r].place = "held" /\ Fits(row[r].event, Cardinality(Seated(row[r].event)), 1)
    /\ row' = [row EXCEPT ![r].place = "booked"]
    /\ UNCHANGED consumed

GiveBack(r) ==
    /\ row[r].place \in {"booked", "lifted"}
    /\ row' = [row EXCEPT ![r].place = "held"]
    /\ UNCHANGED consumed

WalkIn(w, e) ==
    /\ row[w].place = "none" /\ Fits(e, Cardinality(Seated(e)), 1)
    /\ row' = [row EXCEPT ![w] = NewRow("booked", e, NoOrder, FALSE)]
    /\ UNCHANGED consumed

\* An archived row is out of the ledger but stays the order's.
PutAway(r) ==
    /\ row[r].place \in {"held", "booked", "lifted"}
    /\ row' = [row EXCEPT ![r].place = "archived", ![r].owes = FALSE]
    /\ UNCHANGED consumed

-----------------------------------------------------------------------------

LedgerInit == consumed = {} /\ row = [r \in Regs |-> NoRow]

LedgerNext ==
    \/ \E d \in Deliveries : \/ Mint(d) \/ Heal(d) \/ CancelOrder(d) \/ Pay(d)
    \/ \E r \in Regs : Take(r) \/ GiveBack(r) \/ PutAway(r)
    \/ \E w \in WalkIns, e \in Events : WalkIn(w, e)

LedgerSpec == LedgerInit /\ [][LedgerNext]_ledgerVars
=============================================================================
