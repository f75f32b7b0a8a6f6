----------------------------- MODULE SaleHistory -----------------------------
(***************************************************************************)
(* SaleSeam with a history: the rows whose seat a heal gave them.  The     *)
(* confirmed heal and the paid verb write 'open' over a held row without   *)
(* locking its event or counting, so such a seat may be beyond the cap;    *)
(* every other is counted behind the event lock.                           *)
(***************************************************************************)
EXTENDS SaleSeam

VARIABLE lifted

historyVars == <<vars, lifted>>

Seated == {r \in Regs : HoldsSeat(registrations[r])}

\* A heal of either verb ends; an abort seats nobody.
Heals == \E t \in Txs : pc[t] \in {"heal", "healed"} /\ pc'[t] = "idle"

\* A seat keeps the way it was taken as long as it is kept.
Remember == lifted' = {r \in Seated' : IF r \in Seated THEN r \in lifted ELSE Heals}

HistoryInit == Init /\ lifted = {}

HistorySpec == HistoryInit /\ [][Next /\ Remember]_historyVars

\* The facts and the counter, under SaleSeam's fairness.
HistoryFairSpec == HistoryInit /\ [][Facts /\ Remember]_historyVars /\ Fairness

-----------------------------------------------------------------------------
(* Properties                                                              *)

\* The seats somebody counted.
Booked(e) == Holding(e) \ lifted

\* seat_repository.rs: "There is no second seat-taking path", but for the heals:
\* in whatever order facts, officers and walk-ins run, the seats of a capped
\* event that no heal gave out are within its cap.
SeatsBeyondCapAreLifted ==
    \A e \in Events : seats_max[e] > 0 => Cardinality(Booked(e)) <= seats_max[e]

\* The place of a row in the ledger.
Place(r) ==
    LET x == registrations[r] IN
    IF x.state = "absent" THEN "none"
    ELSE IF ~x.active THEN "archived"
    ELSE IF x.state \notin SeatState THEN "held"
    ELSE IF r \in lifted THEN "lifted" ELSE "booked"

RowOf(r) ==
    [place |-> Place(r),
     event |-> registrations[r].event, order |-> registrations[r].order,
     owes |-> registrations[r].active /\ registrations[r].sale_status = "to_pay"]

\* Claims, reads, mints one attendee at a time, locks, refusals and commits
\* amount to a ledger in which a fact takes effect once, whole, in one step.
Ledger == INSTANCE SaleLedger WITH
    consumed <- inbox,
    row <- [r \in Regs |-> RowOf(r)]

ImplementsLedger == Ledger!LedgerSpec
=============================================================================
