------------------------------ MODULE SaleSeam ------------------------------
(***************************************************************************)
(* The sale seam: the three delivery-driven verbs of                       *)
(* src/src/infrastructure/persistence/sale_seam_repository.rs, run by      *)
(* concurrent sessions over the facts the selling side hands over, at      *)
(* least once and in any order, between the officer's own verbs.           *)
(*                                                                         *)
(* A delivery is one transaction: claim its key in the inbox, read or lock *)
(* rows, write, commit.  What it writes is seen by the others at the       *)
(* commit; a refusal leaves nothing behind, the claim included.  The       *)
(* officer's verbs and the walk-in register are the atomic steps that      *)
(* SeatEngine proves them to amount to.  A cancelled event, a shut sale    *)
(* window and the routing guard of the multi-slot events refuse a mint,    *)
(* and none of them a fact whose order owns rows, but for the guard.       *)
(***************************************************************************)
EXTENDS Naturals, Sequences, FiniteSets

CONSTANTS
    Events,
    MultiSlots,  \* those sold by slot, which the orders' specs do not name
    seats_max,   \* their caps, 0 for none
    Sales,       \* pairs of an event and what its sale may be set to
    Orders,
    FreeOrders,  \* the orders whose grand_total reads as zero
    Specs,       \* per order, the event of each attendee spec it carries
    Deliveries,  \* the facts: records with a verb, an order and a delivery_id
    Before,      \* pairs of facts the host hands over in this order only
    WalkIns,     \* ids of registrations made at the counter
    Txs,
    NoId, NoOrder, Free

ASSUME SaleSeamAssumption ==
    /\ seats_max \in [Events -> Nat] /\ Events # {} /\ MultiSlots \subseteq Events
    /\ Sales \subseteq Events \X {"on", "shut", "cancel"}
    /\ FreeOrders \subseteq Orders /\ NoOrder \notin Orders /\ Free \notin Txs
    /\ Specs \in [Orders -> Seq(Events) \ {<<>>}]
    /\ \A d \in Deliveries : d.verb \in {"confirmed", "cancelled", "paid"} /\ d.order \in Orders
    /\ Deliveries # {} /\ IsFiniteSet(Deliveries) /\ IsFiniteSet(WalkIns)

VARIABLES
    inbox,          \* keys of the deliveries consumed
    registrations,
    sale,           \* per event: "on", its tickets' sale "shut", or the event "cancel"
    mail_done,      \* per event: its after_sub schedulers are closed
    lead_done,      \* per event: no lead request is pending
    eventLock,      \* session holding an event row
    rowLock,        \* session holding a registration row it has healed
    pc, delivery, minted

rows == <<registrations, sale, mail_done, lead_done>>
locks == <<eventLock, rowLock>>
session == <<pc, delivery, minted>>
vars == <<inbox, rows, locks, session>>

-----------------------------------------------------------------------------
(* Rows                                                                    *)

RegState  == {"draft", "open", "done", "cancel"}
SeatState == {"open", "done"}

\* The attendees a confirmed fact would mint.
Attendees(d) == {<<d, i>> : i \in DOMAIN Specs[d.order]}
Regs == WalkIns \cup UNION {Attendees(d) : d \in {f \in Deliveries : f.verb = "confirmed"}}

Row == [state : RegState \cup {"absent"}, event : Events, order : Orders \cup {NoOrder},
        sale_order_state : {"none", "sale", "cancel"},
        sale_status : {"none", "free", "to_pay", "sold"}, active : BOOLEAN]

NewRow(e, o, state, sale_order_state, sale_status) ==
    [state |-> state, event |-> e, order |-> o, sale_order_state |-> sale_order_state,
     sale_status |-> sale_status, active |-> TRUE]

AbsentRow == [NewRow(CHOOSE e \in Events : TRUE, NoOrder, "absent", "none", "none")
                 EXCEPT !.active = FALSE]

NoDelivery == CHOOSE d \in Deliveries : TRUE

HoldsSeat(row) == row.state \in SeatState /\ row.active
Holding(e) == {r \in Regs : registrations[r].event = e /\ HoldsSeat(registrations[r])}

\* Linked rows, archived ones included.
Linked(o) == {r \in Regs : registrations[r].state # "absent" /\ registrations[r].order = o}
ActiveLinked(o) == {r \in Linked(o) : registrations[r].active}
Held(o) == {r \in ActiveLinked(o) : registrations[r].state \in {"draft", "cancel"}}
Unpaid(o) == {r \in ActiveLinked(o) : registrations[r].sale_status = "to_pay"}

\* The inbox key: the delivery id, or the order when the host supplies none.
Key(d) == <<d.verb, IF d.delivery_id = NoId THEN d.order ELSE d.delivery_id>>

\* The ids are uuids: a walk-in is nobody's attendee, and the host gives no two
\* orders the same delivery id.
ASSUME IdAssumption ==
    /\ \A d \in Deliveries : WalkIns \cap Attendees(d) = {}
    /\ \A c, d \in Deliveries : Key(c) = Key(d) => c.order = d.order

Confirms(d, o) == d.verb = "confirmed" /\ d.order = o

\* What a host may promise of the order of its facts: the confirmations of an
\* order come one after the other ...
ConfirmsInTurn ==
    \A c, d \in Deliveries : Confirms(c, d.order) /\ Confirms(d, d.order) /\ c # d =>
        <<c, d>> \in Before \/ <<d, c>> \in Before

\* ... and the payment of an order after all of them; ...
PaidComesLast ==
    \A c, d \in Deliveries : Confirms(c, d.order) /\ d.verb = "paid" => <<c, d>> \in Before

\* ... and every order's first confirmation before all that may lift a row.
FirstConfirm(d) ==
    d.verb = "confirmed" /\ \A c \in Deliveries : Confirms(c, d.order) => <<c, d>> \notin Before
MintsBeforeLifts ==
    /\ \A c, d \in Deliveries : FirstConfirm(c) /\ FirstConfirm(d) /\ c.order = d.order => c = d
    /\ \A c, d \in Deliveries : FirstConfirm(c) /\ ~FirstConfirm(d) /\ d.verb # "cancelled" =>
          <<c, d>> \in Before

-----------------------------------------------------------------------------
(* The transaction of a delivery                                           *)

Goto(t, label) == pc' = [pc EXCEPT ![t] = label]

EndSession(t) ==
    /\ eventLock' = [e \in Events |-> IF eventLock[e] = t THEN Free ELSE eventLock[e]]
    /\ rowLock' = [r \in Regs |-> IF rowLock[r] = t THEN Free ELSE rowLock[r]]
    /\ Goto(t, "idle")
    /\ minted' = [minted EXCEPT ![t] = 0]
    /\ delivery' = [delivery EXCEPT ![t] = NoDelivery]

Commit(t) == EndSession(t) /\ inbox' = inbox \cup {Key(delivery[t])}

\* A claim committed ahead of its effects.
Abort_Broken(t) ==
    /\ EndSession(t)
    /\ inbox' = inbox \cup {Key(delivery[t])}
    /\ UNCHANGED rows

\* A refusal that leaves the transaction open.
Abort_Leaks(t) ==
    /\ Goto(t, "idle")
    /\ minted' = [minted EXCEPT ![t] = 0]
    /\ delivery' = [delivery EXCEPT ![t] = NoDelivery]
    /\ UNCHANGED <<inbox, rows, locks>>

\* A refusal: the claim is rolled back with all that was staged.
Abort(t) == EndSession(t) /\ UNCHANGED <<inbox, rows>>

Unlocked(S) == \A r \in S : rowLock[r] = Free

\* No arm at all.
ArmMails_Broken(S) == UNCHANGED mail_done
ArmMails(S) == mail_done' = [e \in Events |-> mail_done[e] /\ e \notin S]
ArmLeads(S) == lead_done' = [e \in Events |-> lead_done[e] /\ e \notin S]

EventsOf(S) == {registrations[r].event : r \in S}

\* Every row of S changed the same way.
Update(S, Change(_)) ==
    registrations' = [r \in Regs |-> IF r \in S THEN Change(registrations[r])
                                               ELSE registrations[r]]

\* The guard of the confirmed fact, asked before the delivery's transaction
\* of a replay and a heal too: no attendee of an event sold by slot.
Routed(d) == d.verb = "confirmed" => \A i \in DOMAIN Specs[d.order] : Specs[d.order][i] \notin MultiSlots

\* A claim that does not wait for a delivery under the same key.
Claim_Broken(t, d) ==
    /\ pc[t] = "idle"
    /\ Key(d) \notin inbox /\ Routed(d)
    /\ \A p \in Before : p[2] = d => Key(p[1]) \in inbox
    /\ Goto(t, d.verb)
    /\ delivery' = [delivery EXCEPT ![t] = d]
    /\ UNCHANGED <<inbox, rows, locks, minted>>

\* A key another session has inserted and not committed is waited for; one
\* consumed makes the delivery a no-op.
Claim(t, d) ==
    /\ pc[t] = "idle"
    /\ Key(d) \notin inbox /\ Routed(d)
    /\ \A u \in Txs : pc[u] # "idle" => Key(delivery[u]) # Key(d)
    /\ \A p \in Before : p[2] = d => Key(p[1]) \in inbox
    /\ Goto(t, d.verb)
    /\ delivery' = [delivery EXCEPT ![t] = d]
    /\ UNCHANGED <<inbox, rows, locks, minted>>

-----------------------------------------------------------------------------
(* on_order_confirmed                                                      *)

\* The replay question asked of the active rows only.
ReadLinked_Broken(t) ==
    /\ pc[t] = "confirmed"
    /\ Goto(t, IF ActiveLinked(delivery[t].order) = {} THEN "mint" ELSE "heal")
    /\ UNCHANGED <<inbox, rows, locks, delivery, minted>>

\* The replay question: does the order own rows already, archived or not?
ReadLinked(t) ==
    /\ pc[t] = "confirmed"
    /\ Goto(t, IF Linked(delivery[t].order) = {} THEN "mint" ELSE "heal")
    /\ UNCHANGED <<inbox, rows, locks, delivery, minted>>

SpecEvent(t) == Specs[delivery[t].order][minted[t] + 1]
AllMinted(t) == minted[t] = Len(Specs[delivery[t].order])
BornState(o) == IF o \in FreeOrders THEN "open" ELSE "draft"

\* A count that misses the transaction's own inserts.
SeatsSeen_Broken(t, e) == Cardinality(Holding(e))

\* The seats of an event a session sees: the committed ones and its own.
SeatsSeen(t, e) ==
    Cardinality(Holding(e)) +
    (IF BornState(delivery[t].order) = "open"
     THEN Cardinality({i \in 1..minted[t] : Specs[delivery[t].order][i] = e})
     ELSE 0)

Exhausted(e, taken) == seats_max[e] > 0 /\ taken >= seats_max[e]

\* register_core for the next spec: lock the event, ask whether it sells,
\* count, insert.
MintSpec(t) ==
    LET e == SpecEvent(t) IN
    /\ pc[t] = "mint" /\ ~AllMinted(t)
    /\ eventLock[e] \in {Free, t}
    /\ sale[e] = "on" /\ ~Exhausted(e, SeatsSeen(t, e))
    /\ eventLock' = [eventLock EXCEPT ![e] = t]
    /\ minted' = [minted EXCEPT ![t] = @ + 1]
    /\ UNCHANGED <<inbox, rows, rowLock, pc, delivery>>

MintRefused(t) ==
    /\ pc[t] = "mint" /\ ~AllMinted(t)
    /\ eventLock[SpecEvent(t)] \in {Free, t}
    /\ sale[SpecEvent(t)] # "on" \/ Exhausted(SpecEvent(t), SeatsSeen(t, SpecEvent(t)))
    /\ Abort(t)

MintCommit(t) ==
    LET d == delivery[t]
        o == d.order
        status == IF o \in FreeOrders THEN "free" ELSE "to_pay"
        events == {Specs[o][i] : i \in DOMAIN Specs[o]}
    IN
    /\ pc[t] = "mint" /\ AllMinted(t)
    /\ registrations' = [r \in Regs |->
           IF r \in Attendees(d) THEN NewRow(Specs[o][r[2]], o, BornState(o), "sale", status)
                                 ELSE registrations[r]]
    /\ ArmMails(IF o \in FreeOrders THEN events ELSE {})
    /\ ArmLeads(events)
    /\ Commit(t)
    /\ UNCHANGED sale

\* A heal that writes the held state over what the row has.
HealConfirmed_Broken(t) ==
    LET o == delivery[t].order
        Lift(row) == [row EXCEPT !.state = BornState(o), !.sale_order_state = "sale",
                                 !.sale_status = IF o \in FreeOrders THEN "free" ELSE "to_pay"]
    IN
    /\ pc[t] = "heal" /\ Unlocked(ActiveLinked(o))
    /\ Update(ActiveLinked(o), Lift)
    /\ ArmMails(EventsOf(Linked(o)))
    /\ Commit(t)
    /\ UNCHANGED <<sale, lead_done>>

\* The order owns rows: a free one is lifted, a paid one is held.
HealConfirmed(t) ==
    LET o == delivery[t].order
        Lift(row) == [row EXCEPT !.state = "open", !.sale_order_state = "sale",
                                 !.sale_status = "free"]
        Hold(row) == [row EXCEPT !.sale_order_state = "sale", !.sale_status = "to_pay"]
    IN
    /\ pc[t] = "heal"
    /\ \/ /\ o \in FreeOrders /\ Unlocked(Held(o))
          /\ Update(Held(o), Lift)
          /\ ArmMails(EventsOf(Linked(o)))
       \/ /\ o \notin FreeOrders /\ Unlocked(ActiveLinked(o))
          /\ Update(ActiveLinked(o), Hold)
          /\ UNCHANGED mail_done
    /\ Commit(t)
    /\ UNCHANGED <<sale, lead_done>>

-----------------------------------------------------------------------------
(* on_order_cancelled and on_order_paid                                    *)

\* The cascade: the whole group; what was paid stays on record.
CancelCascade(t) ==
    LET o == delivery[t].order
        Mirror(row) == [row EXCEPT !.state = "cancel", !.sale_order_state = "cancel"]
    IN
    /\ pc[t] = "cancelled" /\ Unlocked(ActiveLinked(o))
    /\ Update(ActiveLinked(o), Mirror)
    /\ Commit(t)
    /\ UNCHANGED <<sale, mail_done, lead_done>>

\* The first update of the paid verb locks the held rows it lifts ...
PaidHeal(t) ==
    LET lifted == Held(delivery[t].order) \cap Unpaid(delivery[t].order) IN
    /\ pc[t] = "paid" /\ Unlocked(lifted)
    /\ rowLock' = [r \in Regs |-> IF r \in lifted THEN t ELSE rowLock[r]]
    /\ Goto(t, "healed")
    /\ UNCHANGED <<inbox, rows, eventLock, delivery, minted>>

\* A paid verb that leaves the rows it did not lift to pay.
PaidCommit_Broken(t) ==
    LET lifted == {r \in Regs : rowLock[r] = t}
        Lift(row) == [row EXCEPT !.state = "open", !.sale_order_state = "sale",
                                 !.sale_status = "sold"]
    IN
    /\ pc[t] = "healed"
    /\ Update(lifted, Lift)
    /\ ArmMails(EventsOf(Linked(delivery[t].order)))
    /\ Commit(t)
    /\ UNCHANGED <<sale, lead_done>>

\* ... and the second marks what is still to pay, as it finds it.
PaidCommit(t) ==
    LET o == delivery[t].order
        lifted == {r \in Regs : rowLock[r] = t}
        Sell(row) == [row EXCEPT !.sale_status = "sold"]
        Lift(row) == [row EXCEPT !.state = "open", !.sale_order_state = "sale",
                                 !.sale_status = "sold"]
    IN
    /\ pc[t] = "healed" /\ \A r \in Unpaid(o) : rowLock[r] \in {Free, t}
    /\ registrations' = [r \in Regs |-> CASE r \in lifted -> Lift(registrations[r])
                                          [] r \in Unpaid(o) \ lifted -> Sell(registrations[r])
                                          [] OTHER -> registrations[r]]
    /\ ArmMails(EventsOf(Linked(o)))
    /\ Commit(t)
    /\ UNCHANGED <<sale, lead_done>>

\* The sessions a session waits for; the database aborts one of a cycle.
Blockers(t) ==
    LET o == delivery[t].order
        holders == CASE pc[t] = "mint" /\ ~AllMinted(t) -> {eventLock[SpecEvent(t)]}
                     [] pc[t] = "paid" -> {rowLock[r] : r \in Held(o) \cap Unpaid(o)}
                     [] pc[t] = "healed" -> {rowLock[r] : r \in Unpaid(o)}
                     [] OTHER -> {}
    IN holders \ {Free, t}

DeadlockVictim(t) ==
    /\ \E u \in Blockers(t) : t \in Blockers(u)
    /\ Abort(t)

-----------------------------------------------------------------------------
(* The officer, the counter, the background passes                         *)

\* The transition verb: any state to any state, a seat only with room.
Transition(r, to) ==
    LET row == registrations[r]
        e == row.event
        enters == row.active /\ row.state \in {"draft", "cancel"}
    IN
    /\ row.state # "absent" /\ rowLock[r] = Free
    /\ enters /\ to \in SeatState => eventLock[e] = Free /\ ~Exhausted(e, Cardinality(Holding(e)))
    /\ registrations' = [registrations EXCEPT ![r].state = to]
    /\ ArmMails(IF enters /\ to = "open" THEN {e} ELSE {})
    /\ ArmLeads(IF row.active /\ to \in SeatState /\ to # row.state THEN {e} ELSE {})
    /\ UNCHANGED <<inbox, sale, locks, session>>

\* A registration at the counter, which may name no ticket.  Those of an event
\* sold by slot are SeatEngine's.
WalkIn(w, e) ==
    /\ registrations[w].state = "absent" /\ e \notin MultiSlots /\ sale[e] # "cancel"
    /\ eventLock[e] = Free /\ ~Exhausted(e, Cardinality(Holding(e)))
    /\ registrations' = [registrations EXCEPT ![w] = NewRow(e, NoOrder, "open", "none", "none")]
    /\ ArmMails({e}) /\ ArmLeads({e})
    /\ UNCHANGED <<inbox, sale, locks, session>>

\* The host archives a row; a pass closes the schedulers, a walk the request.
Archive(r) ==
    /\ registrations[r].active /\ rowLock[r] = Free
    /\ registrations' = [registrations EXCEPT ![r].active = FALSE]
    /\ UNCHANGED <<inbox, sale, mail_done, lead_done, locks, session>>

\* The host cancels an event or takes it up again, which waits for the event
\* row; or the sale window of its tickets opens and shuts.
SetSale(e, to) ==
    /\ sale[e] # to
    /\ "cancel" \in {sale[e], to} => eventLock[e] = Free
    /\ sale' = [sale EXCEPT ![e] = to]
    /\ UNCHANGED <<inbox, registrations, mail_done, lead_done, locks, session>>

CloseMails(e) ==
    /\ mail_done' = [mail_done EXCEPT ![e] = TRUE]
    /\ UNCHANGED <<inbox, registrations, sale, lead_done, locks, session>>

CloseLeads(e) ==
    /\ lead_done' = [lead_done EXCEPT ![e] = TRUE]
    /\ UNCHANGED <<inbox, registrations, sale, mail_done, locks, session>>

-----------------------------------------------------------------------------

Init ==
    /\ inbox = {}
    /\ registrations = [r \in Regs |-> AbsentRow]
    /\ sale = [e \in Events |-> "on"]
    /\ mail_done = [e \in Events |-> FALSE]
    /\ lead_done = [e \in Events |-> TRUE]
    /\ eventLock = [e \in Events |-> Free]
    /\ rowLock = [r \in Regs |-> Free]
    /\ pc = [t \in Txs |-> "idle"]
    /\ delivery = [t \in Txs |-> NoDelivery]
    /\ minted = [t \in Txs |-> 0]

Seam(t) ==
    \/ \E d \in Deliveries : Claim(t, d)
    \/ ReadLinked(t)
    \/ MintSpec(t) \/ MintRefused(t) \/ MintCommit(t)
    \/ HealConfirmed(t)
    \/ CancelCascade(t)
    \/ PaidHeal(t) \/ PaidCommit(t)
    \/ DeadlockVictim(t)

Counter == \E w \in WalkIns, e \in Events : WalkIn(w, e)

Officer == Counter \/ \E r \in Regs : Archive(r) \/ \E to \in RegState : Transition(r, to)

Selling == \E p \in Sales : SetSale(p[1], p[2])

Others == Selling \/ \E e \in Events : CloseMails(e) \/ CloseLeads(e)

Next == (\E t \in Txs : Seam(t)) \/ Officer \/ Others

Spec == Init /\ [][Next]_vars

\* The facts, the counter and the sale, without officer and passes.
Facts == (\E t \in Txs : Seam(t)) \/ Counter \/ Selling

\* The host redelivers what was not consumed, each fact again and again; a
\* freed row goes to a session that queues for it, however far it has come.
Fairness ==
    /\ \A d \in Deliveries : SF_vars(\E t \in Txs : Claim(t, d))
    /\ \A t \in Txs :
          /\ SF_vars(Seam(t) /\ pc[t] # "idle")
          /\ \A i \in UNION {DOMAIN Specs[o] : o \in Orders} \ {1} :
                SF_vars(MintSpec(t) /\ minted[t] = i - 1)

-----------------------------------------------------------------------------
(* Types and the inductive invariant                                       *)

\* Every variable has its type.
TypeOK ==
    /\ inbox \subseteq {Key(d) : d \in Deliveries}
    /\ registrations \in [Regs -> Row]
    /\ sale \in [Events -> {"on", "shut", "cancel"}]
    /\ mail_done \in [Events -> BOOLEAN] /\ lead_done \in [Events -> BOOLEAN]
    /\ eventLock \in [Events -> Txs \cup {Free}]
    /\ rowLock \in [Regs -> Txs \cup {Free}]
    /\ pc \in [Txs -> {"idle", "confirmed", "mint", "heal", "cancelled", "paid", "healed"}]
    /\ delivery \in [Txs -> Deliveries]
    /\ minted \in [Txs -> Nat]

\* A key is claimed by one session at a time, and never again once consumed.
ClaimsExclusive ==
    \A t \in Txs : pc[t] # "idle" =>
        /\ Key(delivery[t]) \notin inbox
        /\ \A u \in Txs \ {t} : pc[u] # "idle" => Key(delivery[u]) # Key(delivery[t])

\* A session holds the events it has minted into and the rows it has healed,
\* and finds them as it left them.
LocksHeld ==
    \A t \in Txs :
        /\ \A e \in Events : eventLock[e] = t =>
              pc[t] = "mint" /\ \E i \in 1..minted[t] : Specs[delivery[t].order][i] = e
        /\ pc[t] = "mint" => \A i \in 1..minted[t] :
              eventLock[Specs[delivery[t].order][i]] = t
        /\ \A r \in Regs : rowLock[r] = t =>
              pc[t] = "healed" /\ r \in Held(delivery[t].order) \cap Unpaid(delivery[t].order)

\* A session runs the verb of its fact, and no further than its specs go.
SessionOK ==
    \A t \in Txs :
        /\ pc[t] \in {"confirmed", "mint", "heal"} => delivery[t].verb = "confirmed"
        /\ pc[t] = "cancelled" => delivery[t].verb = "cancelled"
        /\ pc[t] \in {"paid", "healed"} => delivery[t].verb = "paid"
        /\ minted[t] <= IF pc[t] = "mint" THEN Len(Specs[delivery[t].order]) ELSE 0

\* An attendee is there only if the fact that minted it is consumed, so a mint
\* writes over nobody.
MintedIsConsumed ==
    \A d \in Deliveries : d.verb = "confirmed" =>
        \A r \in Attendees(d) : registrations[r].state # "absent" => Key(d) \in inbox

\* What the sessions rely on, and what any further invariant rests on.
IInv == TypeOK /\ ClaimsExclusive /\ LocksHeld /\ SessionOK /\ MintedIsConsumed

-----------------------------------------------------------------------------
(* Properties                                                              *)

\* A delivery is all or nothing: a fact in the inbox has minted every one of
\* its attendees or found the order owning rows, and a refused one has left
\* neither a row nor its claim.
MintIsWhole ==
    \A d \in Deliveries : d.verb = "confirmed" =>
        /\ \/ \A r \in Attendees(d) : registrations[r].state # "absent"
           \/ \A r \in Attendees(d) : registrations[r].state = "absent"
        /\ Attendees(d) \cap Linked(d.order) # {} => Key(d) \in inbox
        /\ Key(d) \in inbox => Linked(d.order) # {}

\* However often the confirmed fact of an order is delivered, it owns one row
\* per attendee spec.
MintsOnce == \A o \in Orders : Cardinality(Linked(o)) <= Len(Specs[o])

Enters(r) == HoldsSeat(registrations[r])' /\ ~HoldsSeat(registrations[r])
EntersOpen(r) == Enters(r) /\ registrations'[r].state = "open"

WithinCap(e) == seats_max[e] > 0 => Cardinality(Holding(e)) <= seats_max[e]

\* A minted order fits in every one of its events, several attendees of one
\* event counted one after the other in one transaction.
MintWithinCap ==
    [][\A r \in Regs : Enters(r) /\ registrations[r].state = "absent" =>
          WithinCap(registrations[r].event)']_vars

\* No seam commit other than the cancel cascade takes a held seat away, not
\* even under a concurrent cancel, paid fact or officer's verb.
SeamNeverDemotes ==
    [][\A t \in Txs : pc[t] \in {"mint", "heal", "healed"} /\ pc'[t] = "idle" =>
          \A r \in Regs : HoldsSeat(registrations[r]) => HoldsSeat(registrations'[r])]_vars

\* Any entry to 'open', of a mint, a heal or a verb, re-opens the schedulers.
EntryArmsMails == [][\A r \in Regs : EntersOpen(r) => ~mail_done'[registrations'[r].event]]_vars

\* spec-overlay.md: "the recompute never strands a paid attendee".
PaidNeverStrands ==
    \A d \in Deliveries :
        /\ d.verb = "paid" /\ Key(d) \in inbox
        /\ \A t \in Txs : pc[t] # "idle" => delivery[t].order # d.order
        => Held(d.order) \cap Unpaid(d.order) = {}

\* The seats a confirmed fact asks of an event are there.
Fits(d) ==
    \A e \in Events : seats_max[e] > 0 =>
        Cardinality(Holding(e)) + Cardinality({i \in DOMAIN Specs[d.order] : Specs[d.order][i] = e})
            <= seats_max[e]

\* What refuses a fact each time it is delivered, as long as it lasts: the
\* guard; and, of an order that owns no rows, seats wanting or no sale.
Refused(d) ==
    /\ d.verb = "confirmed"
    /\ \/ ~Routed(d)
       \/ Linked(d.order) = {} /\ ~Fits(d)
       \/ Linked(d.order) = {} /\ \E i \in DOMAIN Specs[d.order] : sale[Specs[d.order][i]] # "on"

\* The host keeps delivering, and a fact is consumed in the end unless it is
\* refused for good, or again and again: redeliveries, an event cancelled and
\* taken up again, and two orders that mint into the same events in opposite
\* orders do not lose it, and a cancellation or a payment is never refused.
EveryFactConsumed == \A d \in Deliveries : []<>(Key(d) \in inbox \/ Refused(d))

\* seat_repository.rs: "There is no second seat-taking path".
SeatTakenWithinCap ==
    [][\A r \in Regs : Enters(r) => WithinCap(registrations[r].event)']_vars

\* sale_seam_service.rs: "draft rows are not eligible until the paid heal,
\* and that heal re-arms on its own", said of the lead queue.
PaidHealArmsLeads ==
    [][\A t \in Txs : pc[t] = "healed" /\ pc'[t] = "idle" =>
          \A r \in Regs : EntersOpen(r) => ~lead_done'[registrations'[r].event]]_vars

\* spec.md: "Re-confirming an already-open row never re-triggers".
SchedulersReopenOnEntryOnly ==
    [][\A e \in Events : mail_done[e] /\ ~mail_done'[e] =>
          \E r \in Regs : EntersOpen(r) /\ registrations'[r].event = e]_vars

=============================================================================
