--------------------------- MODULE SaleSeamProofs ---------------------------
(***************************************************************************)
(* The deliveries of the sale seam are exclusive and whole, take no seat    *)
(* away and arm what they open, for any number of sessions, orders, specs  *)
(* and facts; what the order of the facts adds to that; which seats may    *)
(* be beyond the cap; and the ledger the sessions implement.               *)
(***************************************************************************)
EXTENDS SaleHistory, FiniteSetTheorems, TLAPS

\* An attendee belongs to the fact that mints it and is no walk-in.
LEMMA AttendeeOf ==
    ASSUME NEW d \in Deliveries, d.verb = "confirmed", NEW r \in Attendees(d)
    PROVE  /\ r \in Regs /\ r \notin WalkIns
           /\ r[2] \in DOMAIN Specs[d.order]
           /\ \A c \in Deliveries : r \in Attendees(c) => c = d
<1>1. r \in Regs
  BY DEF Regs
<1>2. r \notin WalkIns
  BY IdAssumption
<1>3. QED
  BY <1>1, <1>2 DEF Attendees

\* The events of an order's specs.
LEMMA SpecsType ==
    ASSUME NEW o \in Orders
    PROVE  /\ Len(Specs[o]) \in Nat \ {0} /\ DOMAIN Specs[o] = 1..Len(Specs[o])
           /\ \A i \in 1..Len(Specs[o]) : Specs[o][i] \in Events
<1>1. Specs[o] \in Seq(Events) /\ Specs[o] # <<>>
  BY SaleSeamAssumption
<1>2. QED
  BY <1>1

LEMMA NoDeliveryType == NoDelivery \in Deliveries
  BY SaleSeamAssumption DEF NoDelivery

LEMMA AbsentRowType == AbsentRow \in Row /\ AbsentRow.state = "absent"
<1>1. (CHOOSE e \in Events : TRUE) \in Events
  BY SaleSeamAssumption
<1>2. QED
  BY <1>1 DEF AbsentRow, NewRow, Row

\* The end of a transaction gives up the locks of its session and touches no
\* other session.
LEMMA EndSessionDoes ==
    ASSUME TypeOK, NEW t \in Txs, EndSession(t)
    PROVE  /\ eventLock' \in [Events -> Txs \cup {Free}]
           /\ rowLock' \in [Regs -> Txs \cup {Free}]
           /\ pc' \in [Txs -> {"idle", "confirmed", "mint", "heal", "cancelled", "paid", "healed"}]
           /\ delivery' \in [Txs -> Deliveries] /\ minted' \in [Txs -> Nat]
           /\ pc'[t] = "idle" /\ minted'[t] = 0
           /\ \A u \in Txs \ {t} :
                 /\ pc'[u] = pc[u] /\ delivery'[u] = delivery[u] /\ minted'[u] = minted[u]
                 /\ \A e \in Events : eventLock'[e] = u <=> eventLock[e] = u
                 /\ \A r \in Regs : rowLock'[r] = u <=> rowLock[r] = u
           /\ \A e \in Events : eventLock'[e] # t
           /\ \A r \in Regs : rowLock'[r] # t
  BY SaleSeamAssumption, NoDeliveryType DEF TypeOK, EndSession, Goto

\* A row that a session has healed is linked, active, held and unpaid.
LEMMA LockedRow ==
    ASSUME IInv, NEW u \in Txs, NEW r \in Regs, rowLock[r] = u
    PROVE  /\ pc[u] = "healed" /\ registrations[r].order = delivery[u].order
           /\ registrations[r].state \in {"draft", "cancel"} /\ registrations[r].active
           /\ registrations[r].sale_status = "to_pay"
  BY DEF IInv, LocksHeld, Held, Unpaid, ActiveLinked, Linked

\* The specs a session has minted are specs of its order.
LEMMA MintedSpec ==
    ASSUME IInv, NEW t \in Txs, pc[t] = "mint", NEW i \in 1..minted[t]
    PROVE  /\ delivery[t] \in Deliveries /\ delivery[t].order \in Orders
           /\ i \in 1..Len(Specs[delivery[t].order])
           /\ Specs[delivery[t].order][i] \in Events
<1>1. delivery[t] \in Deliveries /\ delivery[t].order \in Orders
  BY SaleSeamAssumption DEF IInv, TypeOK
<1>2. minted[t] \in Nat /\ minted[t] <= Len(Specs[delivery[t].order])
  BY DEF IInv, TypeOK, SessionOK
<1>3. i \in 1..Len(Specs[delivery[t].order])
  BY <1>1, <1>2, SpecsType
<1>4. QED
  BY <1>1, <1>3, SpecsType

\* What becomes of the invariant when one session ends and the rows that others
\* have locked stay as they are.
LEMMA EndKeeps ==
    ASSUME IInv, NEW t \in Txs, EndSession(t), pc[t] # "idle", UNCHANGED sale,
           inbox' \in {inbox, inbox \cup {Key(delivery[t])}},
           registrations' \in [Regs -> Row],
           mail_done' \in [Events -> BOOLEAN], lead_done' \in [Events -> BOOLEAN],
           \A r \in Regs : rowLock[r] \in Txs \ {t} => registrations'[r] = registrations[r],
           \A d \in Deliveries : d.verb = "confirmed" =>
               \A r \in Attendees(d) : registrations'[r].state # "absent" =>
                   registrations[r].state # "absent" \/ Key(d) \in inbox'
    PROVE  IInv'
<1> USE DEF IInv
<1>1. TypeOK'
  BY EndSessionDoes DEF TypeOK
<1>2. ClaimsExclusive'
  BY EndSessionDoes DEF ClaimsExclusive
<1>3. LocksHeld'
  <2> SUFFICES ASSUME NEW u \in Txs
               PROVE  LocksHeld!(u)'
    BY DEF LocksHeld
  <2>1. CASE u = t
    BY <2>1, EndSessionDoes
  <2>2. CASE u # t
    <3>1. /\ pc'[u] = pc[u] /\ delivery'[u] = delivery[u] /\ minted'[u] = minted[u]
          /\ \A e \in Events : eventLock'[e] = u <=> eventLock[e] = u
          /\ \A r \in Regs : rowLock'[r] = u <=> rowLock[r] = u
      BY <2>2, EndSessionDoes
    <3>2. \A e \in Events : eventLock'[e] = u =>
              pc'[u] = "mint" /\ \E i \in 1..minted'[u] : Specs[delivery'[u].order][i] = e
      BY <3>1 DEF LocksHeld
    <3>3. ASSUME pc'[u] = "mint", NEW i \in 1..minted'[u]
          PROVE  eventLock'[Specs[delivery'[u].order][i]] = u
      <4>1. pc[u] = "mint" /\ i \in 1..minted[u]
        BY <3>1, <3>3
      <4>2. Specs[delivery[u].order][i] \in Events
        BY <4>1, MintedSpec
      <4>3. eventLock[Specs[delivery[u].order][i]] = u
        BY <4>1 DEF LocksHeld
      <4>4. QED
        BY <3>1, <4>2, <4>3
    <3>4. ASSUME NEW r \in Regs, rowLock'[r] = u
          PROVE  pc'[u] = "healed"
                 /\ r \in (Held(delivery[u].order) \cap Unpaid(delivery[u].order))'
      <4>1. registrations'[r] = registrations[r]
        BY <2>2, <3>1, <3>4
      <4>2. QED
        BY <3>1, <3>4, <4>1 DEF LocksHeld, Held, Unpaid, ActiveLinked, Linked
    <3>5. QED
      BY <3>1, <3>2, <3>3, <3>4
  <2>3. QED
    BY <2>1, <2>2
<1>4. SessionOK'
  <2>1. \A u \in Txs : u # t => SessionOK!(u)'
    BY EndSessionDoes DEF SessionOK
  <2>2. QED
    BY <2>1, EndSessionDoes DEF SessionOK
<1>5. MintedIsConsumed'
  BY DEF MintedIsConsumed
<1>6. QED
  BY <1>1, <1>2, <1>3, <1>4, <1>5

\* A step of the officer, the counter or the others keeps the invariant if it
\* leaves the locked rows alone and makes nobody an attendee.
LEMMA OtherKeeps ==
    ASSUME IInv, UNCHANGED <<inbox, locks, session>>,
           registrations' \in [Regs -> Row], sale' \in [Events -> {"on", "shut", "cancel"}],
           mail_done' \in [Events -> BOOLEAN], lead_done' \in [Events -> BOOLEAN],
           \A r \in Regs : rowLock[r] # Free => registrations'[r] = registrations[r],
           \A d \in Deliveries : d.verb = "confirmed" =>
               \A r \in Attendees(d) : registrations'[r].state # "absent" =>
                   registrations[r].state # "absent"
    PROVE  IInv'
<1> USE DEF IInv, locks, session
<1>1. TypeOK' /\ ClaimsExclusive' /\ SessionOK' /\ MintedIsConsumed'
  BY DEF TypeOK, ClaimsExclusive, SessionOK, MintedIsConsumed
<1>2. LocksHeld'
  <2>1. ASSUME NEW u \in Txs, NEW r \in Regs, rowLock[r] = u
        PROVE  pc[u] = "healed"
               /\ r \in (Held(delivery[u].order) \cap Unpaid(delivery[u].order))'
    <3>1. registrations'[r] = registrations[r]
      BY <2>1, SaleSeamAssumption
    <3>2. QED
      BY <2>1, <3>1 DEF LocksHeld, Held, Unpaid, ActiveLinked, Linked
  <2>2. QED
    BY <2>1 DEF LocksHeld
<1>3. QED
  BY <1>1, <1>2

\* Deliveries and their orders.
LEMMA DeliveryType ==
    ASSUME IInv, NEW t \in Txs
    PROVE  /\ delivery[t] \in Deliveries /\ delivery[t].order \in Orders
           /\ Specs[delivery[t].order] \in Seq(Events)
  BY SaleSeamAssumption DEF IInv, TypeOK

LEMMA ArmTypes ==
    ASSUME TypeOK, NEW S
    PROVE  /\ ArmMails(S) => mail_done' \in [Events -> BOOLEAN]
           /\ ArmLeads(S) => lead_done' \in [Events -> BOOLEAN]
  BY DEF TypeOK, ArmMails, ArmLeads

LEMMA ClaimKeeps ==
    ASSUME IInv, NEW t \in Txs, NEW d \in Deliveries, Claim(t, d)
    PROVE  IInv'
<1> USE DEF IInv
<1>1. /\ pc[t] = "idle" /\ pc' = [pc EXCEPT ![t] = d.verb]
      /\ delivery' = [delivery EXCEPT ![t] = d]
      /\ UNCHANGED <<inbox, registrations, sale, mail_done, lead_done, eventLock, rowLock, minted>>
  BY DEF Claim, Goto, rows, locks
<1>2. d.verb \in {"confirmed", "cancelled", "paid"}
  BY SaleSeamAssumption
<1>3. /\ pc'[t] = d.verb /\ delivery'[t] = d
      /\ \A u \in Txs \ {t} : pc'[u] = pc[u] /\ delivery'[u] = delivery[u]
  BY <1>1 DEF TypeOK
<1>4. TypeOK'
  BY <1>1, <1>2 DEF TypeOK
<1>5. ClaimsExclusive'
  BY <1>1, <1>3 DEF ClaimsExclusive, Claim
<1>6. LocksHeld'
  <2>1. \A e \in Events : eventLock[e] # t
    BY <1>1 DEF LocksHeld
  <2>2. \A r \in Regs : rowLock[r] # t
    BY <1>1 DEF LocksHeld
  <2>3. \A u \in Txs \ {t} : LocksHeld!(u)'
    BY <1>1, <1>3 DEF LocksHeld, Held, Unpaid, ActiveLinked, Linked
  <2>4. LocksHeld!(t)'
    BY <1>1, <1>2, <1>3, <2>1, <2>2
  <2>5. QED
    BY <2>3, <2>4 DEF LocksHeld
<1>7. SessionOK'
  <2>1. \A u \in Txs \ {t} : SessionOK!(u)'
    BY <1>1, <1>3 DEF SessionOK
  <2>2. minted[t] <= 0
    BY <1>1 DEF SessionOK
  <2>3. SessionOK!(t)'
    BY <1>1, <1>2, <1>3, <2>2
  <2>4. QED
    BY <2>1, <2>3 DEF SessionOK
<1>8. MintedIsConsumed'
  BY <1>1 DEF MintedIsConsumed
<1>9. QED
  BY <1>4, <1>5, <1>6, <1>7, <1>8

LEMMA ReadLinkedKeeps ==
    ASSUME IInv, NEW t \in Txs, ReadLinked(t)
    PROVE  IInv'
<1> USE DEF IInv
<1>1. /\ pc[t] = "confirmed" /\ pc'[t] \in {"mint", "heal"}
      /\ \A u \in Txs \ {t} : pc'[u] = pc[u]
      /\ pc' \in [Txs -> {"idle", "confirmed", "mint", "heal", "cancelled", "paid", "healed"}]
      /\ UNCHANGED <<inbox, registrations, sale, mail_done, lead_done, eventLock, rowLock,
                    delivery, minted>>
  BY DEF ReadLinked, Goto, rows, locks, TypeOK
<1>2. TypeOK' /\ MintedIsConsumed'
  BY <1>1 DEF TypeOK, MintedIsConsumed
<1>3. ClaimsExclusive'
  BY <1>1 DEF ClaimsExclusive
<1>4. minted[t] = 0
  <2>1. minted[t] \in Nat /\ minted[t] <= 0
    BY <1>1 DEF SessionOK, TypeOK
  <2>2. QED
    BY <2>1
<1>5. LocksHeld'
  <2>1. \A u \in Txs \ {t} : LocksHeld!(u)'
    BY <1>1 DEF LocksHeld, Held, Unpaid, ActiveLinked, Linked
  <2>2. (\A e \in Events : eventLock[e] # t) /\ (\A r \in Regs : rowLock[r] # t)
    BY <1>1 DEF LocksHeld
  <2>3. LocksHeld!(t)'
    BY <1>1, <1>4, <2>2
  <2>4. QED
    BY <2>1, <2>3 DEF LocksHeld
<1>6. SessionOK'
  <2>1. \A u \in Txs \ {t} : SessionOK!(u)'
    BY <1>1 DEF SessionOK
  <2>2. Len(Specs[delivery[t].order]) \in Nat
    BY DeliveryType
  <2>3. SessionOK!(t)'
    BY <1>1, <1>4, <2>2 DEF SessionOK
  <2>4. QED
    BY <2>1, <2>3 DEF SessionOK
<1>7. QED
  BY <1>2, <1>3, <1>5, <1>6

\* A mint locks the event of its next spec, which no other session holds.
LEMMA MintSpecKeeps ==
    ASSUME IInv, NEW t \in Txs, MintSpec(t)
    PROVE  IInv'
<1> DEFINE o == delivery[t].order
           e == SpecEvent(t)
           n == minted[t] + 1
<1> USE DEF IInv
<1>1. /\ pc[t] = "mint" /\ eventLock[e] \in {Free, t}
      /\ eventLock' = [eventLock EXCEPT ![e] = t]
      /\ minted' = [minted EXCEPT ![t] = n]
      /\ UNCHANGED <<inbox, registrations, sale, mail_done, lead_done, rowLock, pc, delivery>>
  BY DEF MintSpec, rows
<1>2. o \in Orders /\ Len(Specs[o]) \in Nat
  BY DeliveryType
<1>3. minted[t] \in Nat /\ minted[t] <= Len(Specs[o]) /\ minted[t] # Len(Specs[o])
  BY <1>1 DEF MintSpec, SessionOK, TypeOK, AllMinted
<1>4. n \in 1..Len(Specs[o]) /\ n \in Nat
  BY <1>2, <1>3
<1>5. e \in Events /\ e = Specs[o][n]
  BY <1>2, <1>4, SpecsType DEF SpecEvent
<1>6. /\ minted'[t] = n /\ \A u \in Txs \ {t} : minted'[u] = minted[u]
      /\ eventLock'[e] = t /\ \A f \in Events \ {e} : eventLock'[f] = eventLock[f]
  BY <1>1, <1>5 DEF TypeOK
<1>7. TypeOK' /\ MintedIsConsumed' /\ ClaimsExclusive'
  BY <1>1, <1>4, <1>5 DEF TypeOK, MintedIsConsumed, ClaimsExclusive
<1>8. LocksHeld'
  <2>1. ASSUME NEW u \in Txs \ {t}
        PROVE  LocksHeld!(u)'
    <3>1. \A f \in Events : eventLock'[f] = u <=> eventLock[f] = u
      BY <1>1, <1>6, <2>1, SaleSeamAssumption
    <3>2. ASSUME pc[u] = "mint", NEW i \in 1..minted[u]
          PROVE  eventLock'[Specs[delivery[u].order][i]] = u
      <4>1. Specs[delivery[u].order][i] \in Events
        BY <3>2, MintedSpec
      <4>2. QED
        BY <3>1, <3>2, <4>1 DEF LocksHeld
    <3>3. QED
      BY <1>1, <1>6, <3>1, <3>2 DEF LocksHeld, Held, Unpaid, ActiveLinked, Linked
  <2>2. ASSUME NEW f \in Events, eventLock'[f] = t
        PROVE  \E i \in 1..n : Specs[o][i] = f
    <3>1. CASE f = e
      BY <3>1, <1>3, <1>5
    <3>2. CASE f # e
      <4>1. \E i \in 1..minted[t] : Specs[o][i] = f
        BY <3>2, <1>6, <2>2 DEF LocksHeld
      <4>2. QED
        BY <4>1, <1>3
    <3>3. QED
      BY <3>1, <3>2
  <2>3. ASSUME NEW i \in 1..n
        PROVE  eventLock'[Specs[o][i]] = t
    <3>1. CASE i = n
      BY <3>1, <1>5, <1>6
    <3>2. CASE i # n
      <4>1. i \in 1..minted[t]
        BY <3>2, <1>3
      <4>2. Specs[o][i] \in Events /\ eventLock[Specs[o][i]] = t
        BY <1>1, <4>1, MintedSpec DEF LocksHeld
      <4>3. QED
        BY <4>2, <1>6
    <3>3. QED
      BY <3>1, <3>2
  <2>4. LocksHeld!(t)'
    BY <1>1, <1>6, <2>2, <2>3 DEF LocksHeld
  <2>5. QED
    BY <2>1, <2>4 DEF LocksHeld
<1>9. SessionOK'
  <2>1. \A u \in Txs \ {t} : SessionOK!(u)'
    BY <1>1, <1>6 DEF SessionOK
  <2>2. SessionOK!(t)'
    BY <1>1, <1>4, <1>6 DEF SessionOK
  <2>3. QED
    BY <2>1, <2>2 DEF SessionOK
<1>10. QED
  BY <1>7, <1>8, <1>9

\* The paid verb locks held rows that nobody has locked.
LEMMA PaidHealKeeps ==
    ASSUME IInv, NEW t \in Txs, PaidHeal(t)
    PROVE  IInv'
<1> DEFINE o == delivery[t].order
           found == Held(o) \cap Unpaid(o)
<1> USE DEF IInv
<1>1. /\ pc[t] = "paid" /\ \A r \in found : rowLock[r] = Free
      /\ rowLock' = [r \in Regs |-> IF r \in found THEN t ELSE rowLock[r]]
      /\ pc' = [pc EXCEPT ![t] = "healed"]
      /\ UNCHANGED <<inbox, registrations, sale, mail_done, lead_done, eventLock, delivery, minted>>
  BY DEF PaidHeal, Unlocked, Goto, rows
<1>2. pc'[t] = "healed" /\ \A u \in Txs \ {t} : pc'[u] = pc[u]
  BY <1>1 DEF TypeOK
<1>3. TypeOK' /\ MintedIsConsumed'
  BY <1>1 DEF TypeOK, MintedIsConsumed
<1>4. ClaimsExclusive'
  BY <1>1, <1>2 DEF ClaimsExclusive
<1>5. LocksHeld'
  <2>1. ASSUME NEW u \in Txs \ {t}
        PROVE  LocksHeld!(u)'
    <3>1. \A r \in Regs : rowLock'[r] = u => rowLock[r] = u
      BY <1>1, <2>1
    <3>2. QED
      BY <1>1, <1>2, <3>1 DEF LocksHeld, Held, Unpaid, ActiveLinked, Linked
  <2>2. \A r \in Regs : rowLock'[r] = t => r \in found
    BY <1>1 DEF LocksHeld
  <2>3. \A e \in Events : eventLock[e] # t
    BY <1>1 DEF LocksHeld
  <2>4. found = found'
    BY <1>1 DEF Held, Unpaid, ActiveLinked, Linked
  <2>5. LocksHeld!(t)'
    BY <1>1, <1>2, <2>2, <2>3, <2>4
  <2>6. QED
    BY <2>1, <2>5 DEF LocksHeld
<1>6. SessionOK'
  <2>1. \A u \in Txs \ {t} : SessionOK!(u)'
    BY <1>1, <1>2 DEF SessionOK
  <2>2. SessionOK!(t)'
    BY <1>1, <1>2 DEF SessionOK
  <2>3. QED
    BY <2>1, <2>2 DEF SessionOK
<1>7. QED
  BY <1>3, <1>4, <1>5, <1>6

\* A mint writes its attendees, none of whom was there.
LEMMA MintCommitDoes ==
    ASSUME IInv, NEW t \in Txs, MintCommit(t)
    PROVE  LET d == delivery[t]
               o == d.order
           IN  /\ d \in Deliveries /\ d.verb = "confirmed" /\ pc[t] = "mint"
               /\ minted[t] = Len(Specs[o])
               /\ registrations' \in [Regs -> Row]
               /\ \A r \in Attendees(d) :
                     /\ r \in Regs /\ registrations[r].state = "absent"
                     /\ r[2] \in 1..Len(Specs[o]) /\ Specs[o][r[2]] \in Events
                     /\ registrations'[r] = NewRow(Specs[o][r[2]], o, BornState(o), "sale",
                                                   IF o \in FreeOrders THEN "free" ELSE "to_pay")
               /\ \A r \in Regs \ Attendees(d) : registrations'[r] = registrations[r]
<1> DEFINE d == delivery[t]
           o == d.order
           status == IF o \in FreeOrders THEN "free" ELSE "to_pay"
           born(r) == NewRow(Specs[o][r[2]], o, BornState(o), "sale", status)
<1>1. d \in Deliveries /\ o \in Orders /\ pc[t] = "mint" /\ minted[t] = Len(Specs[o])
  BY DeliveryType DEF MintCommit, AllMinted
<1>2. d.verb = "confirmed" /\ Key(d) \notin inbox
  BY <1>1 DEF IInv, SessionOK, ClaimsExclusive
<1>3. registrations' = [r \in Regs |-> IF r \in Attendees(d) THEN born(r) ELSE registrations[r]]
  BY DEF MintCommit
<1>4. ASSUME NEW r \in Attendees(d)
      PROVE  /\ r \in Regs /\ registrations[r].state = "absent"
             /\ r[2] \in 1..Len(Specs[o]) /\ Specs[o][r[2]] \in Events
  BY <1>1, <1>2, AttendeeOf, SpecsType DEF IInv, MintedIsConsumed
<1>5. \A r \in Attendees(d) : born(r) \in Row
  BY <1>1, <1>4 DEF NewRow, Row, BornState, RegState
<1>6. registrations' \in [Regs -> Row]
  BY <1>3, <1>5 DEF IInv, TypeOK
<1>7. QED
  BY <1>1, <1>2, <1>3, <1>4, <1>6

\* What a heal, a cascade and a paid verb may do to a row: nothing, or change
\* the state and the sale columns of an active row of their order that no other
\* session has locked.
Rewrites(t, r) ==
    /\ r \in ActiveLinked(delivery[t].order) /\ rowLock[r] \in {Free, t}
    /\ \E state \in RegState, sos \in {"none", "sale", "cancel"},
          status \in {"none", "free", "to_pay", "sold"} :
          registrations'[r] = [registrations[r] EXCEPT !.state = state,
                                  !.sale_order_state = sos, !.sale_status = status]

\* A row rewritten is a row of the same order and event, and active.
LEMMA RewrittenRow ==
    ASSUME IInv, NEW t \in Txs, NEW r \in Regs, Rewrites(t, r)
    PROVE  /\ registrations'[r] \in Row /\ registrations[r].state # "absent"
           /\ registrations'[r].state # "absent"
           /\ registrations'[r].event = registrations[r].event
           /\ registrations'[r].order = registrations[r].order
           /\ registrations'[r].active /\ registrations[r].active
           /\ registrations[r].order = delivery[t].order
<1>1. /\ registrations[r] \in Row /\ registrations[r].state # "absent"
      /\ registrations[r].active /\ registrations[r].order = delivery[t].order
  BY DEF Rewrites, IInv, TypeOK, ActiveLinked, Linked
<1>2. PICK state \in RegState, sos \in {"none", "sale", "cancel"},
           status \in {"none", "free", "to_pay", "sold"} :
         registrations'[r] = [registrations[r] EXCEPT !.state = state,
                                 !.sale_order_state = sos, !.sale_status = status]
  BY DEF Rewrites
<1>3. QED
  BY <1>1, <1>2 DEF Row, RegState

\* The rows under a free order's heal.
LEMMA HealConfirmedDoes ==
    ASSUME IInv, NEW t \in Txs, HealConfirmed(t)
    PROVE  /\ registrations' = [r \in Regs |-> registrations'[r]]
           /\ \A r \in Regs : registrations'[r] = registrations[r] \/ Rewrites(t, r)
           /\ delivery[t].order \in FreeOrders =>
                 \A r \in Regs :
                    \/ registrations'[r] = registrations[r]
                    \/ /\ r \in Held(delivery[t].order) /\ registrations'[r].state = "open"
                       /\ registrations'[r].sale_status = "free"
           /\ delivery[t].order \notin FreeOrders =>
                 \A r \in Regs : registrations'[r].state = registrations[r].state
<1> DEFINE o == delivery[t].order
           lift(row) == [row EXCEPT !.state = "open", !.sale_order_state = "sale",
                                    !.sale_status = "free"]
           hold(row) == [row EXCEPT !.sale_order_state = "sale", !.sale_status = "to_pay"]
<1> USE DEF IInv
<1>1. CASE o \in FreeOrders
  <2>1. /\ \A r \in Held(o) : rowLock[r] = Free
        /\ registrations' = [r \in Regs |-> IF r \in Held(o) THEN lift(registrations[r])
                                                               ELSE registrations[r]]
    BY <1>1 DEF HealConfirmed, Unlocked, Update
  <2>2. ASSUME NEW r \in Held(o)
        PROVE  Rewrites(t, r) /\ registrations'[r] = lift(registrations[r])
    <3>1. r \in Regs /\ r \in ActiveLinked(o)
      BY DEF Held, ActiveLinked, Linked
    <3>2. registrations'[r] = lift(registrations[r])
      BY <2>1, <3>1
    <3>3. QED
      BY <2>1, <3>1, <3>2 DEF Rewrites, RegState
  <2>3. \A r \in Held(o) : registrations[r] \in Row /\ lift(registrations[r]).state = "open"
                            /\ lift(registrations[r]).sale_status = "free"
    BY DEF TypeOK, Row, Held, ActiveLinked, Linked
  <2>4. QED
    BY <1>1, <2>1, <2>2, <2>3
<1>2. CASE o \notin FreeOrders
  <2>1. /\ \A r \in ActiveLinked(o) : rowLock[r] = Free
        /\ registrations' = [r \in Regs |-> IF r \in ActiveLinked(o) THEN hold(registrations[r])
                                                                       ELSE registrations[r]]
    BY <1>2 DEF HealConfirmed, Unlocked, Update
  <2>2. ASSUME NEW r \in ActiveLinked(o)
        PROVE  Rewrites(t, r) /\ registrations'[r].state = registrations[r].state
    <3>1. r \in Regs /\ registrations[r] \in Row /\ registrations[r].state \in RegState
      BY DEF ActiveLinked, Linked, TypeOK, Row
    <3>2. registrations'[r] = [registrations[r] EXCEPT !.state = registrations[r].state,
                                !.sale_order_state = "sale", !.sale_status = "to_pay"]
      BY <2>1, <3>1 DEF Row
    <3>3. QED
      BY <2>1, <3>1, <3>2 DEF Rewrites, Row
  <2>3. QED
    BY <1>2, <2>1, <2>2
<1>3. QED
  BY <1>1, <1>2

LEMMA CancelCascadeDoes ==
    ASSUME IInv, NEW t \in Txs, CancelCascade(t)
    PROVE  /\ registrations' = [r \in Regs |-> registrations'[r]]
           /\ \A r \in Regs :
                 \/ registrations'[r] = registrations[r]
                 \/ /\ Rewrites(t, r) /\ registrations'[r].state = "cancel"
                    /\ registrations'[r].sale_status = registrations[r].sale_status
<1> DEFINE o == delivery[t].order
           mirror(row) == [row EXCEPT !.state = "cancel", !.sale_order_state = "cancel"]
<1>1. /\ \A r \in ActiveLinked(o) : rowLock[r] = Free
      /\ registrations' = [r \in Regs |-> IF r \in ActiveLinked(o) THEN mirror(registrations[r])
                                                                     ELSE registrations[r]]
  BY DEF CancelCascade, Unlocked, Update
<1>2. ASSUME NEW r \in ActiveLinked(o)
      PROVE  /\ Rewrites(t, r) /\ registrations'[r].state = "cancel"
             /\ registrations'[r].sale_status = registrations[r].sale_status
  <2>1. /\ r \in Regs /\ registrations[r] \in Row
        /\ registrations[r].sale_status \in {"none", "free", "to_pay", "sold"}
    BY DEF ActiveLinked, Linked, IInv, TypeOK, Row
  <2>2. registrations'[r] = [registrations[r] EXCEPT !.state = "cancel",
              !.sale_order_state = "cancel", !.sale_status = registrations[r].sale_status]
    BY <1>1, <2>1 DEF Row
  <2>3. QED
    BY <1>1, <2>1, <2>2 DEF Rewrites, Row, RegState
<1>3. QED
  BY <1>1, <1>2

\* A paid verb lifts the rows it has locked and marks the others sold.
LEMMA PaidCommitDoes ==
    ASSUME IInv, NEW t \in Txs, PaidCommit(t)
    PROVE  /\ registrations' = [r \in Regs |-> registrations'[r]]
           /\ \A r \in Regs :
                 \/ registrations'[r] = registrations[r] /\ r \notin Unpaid(delivery[t].order)
                 \/ /\ Rewrites(t, r) /\ r \in Unpaid(delivery[t].order)
                    /\ registrations'[r].sale_status = "sold"
                    /\ registrations'[r].state \in {"open", registrations[r].state}
<1> DEFINE o == delivery[t].order
           healed == {r \in Regs : rowLock[r] = t}
           sell(row) == [row EXCEPT !.sale_status = "sold"]
           lift(row) == [row EXCEPT !.state = "open", !.sale_order_state = "sale",
                                    !.sale_status = "sold"]
<1>1. /\ \A r \in Unpaid(o) : rowLock[r] \in {Free, t}
      /\ registrations' = [r \in Regs |-> CASE r \in healed -> lift(registrations[r])
                                             [] r \in Unpaid(o) \ healed -> sell(registrations[r])
                                             [] OTHER -> registrations[r]]
  BY DEF PaidCommit
<1>2. \A r \in healed : r \in Unpaid(o)
  BY DEF IInv, LocksHeld
<1>3. ASSUME NEW r \in Unpaid(o)
      PROVE  /\ r \in Regs /\ registrations[r] \in Row /\ registrations[r].state \in RegState
             /\ r \in ActiveLinked(o)
  BY DEF Unpaid, ActiveLinked, Linked, IInv, TypeOK, Row
<1>4. ASSUME NEW r \in healed
      PROVE  /\ Rewrites(t, r) /\ registrations'[r].state = "open"
             /\ registrations'[r].sale_status = "sold"
  <2>1. r \in Unpaid(o) /\ registrations'[r] = lift(registrations[r])
    BY <1>1, <1>2
  <2>2. QED
    BY <1>1, <1>3, <2>1 DEF Rewrites, Row, RegState
<1>5. ASSUME NEW r \in Unpaid(o) \ healed
      PROVE  /\ Rewrites(t, r) /\ registrations'[r].state = registrations[r].state
             /\ registrations'[r].sale_status = "sold"
  <2>1. /\ r \in Regs /\ registrations[r] \in Row /\ registrations[r].state \in RegState
        /\ registrations[r].sale_order_state \in {"none", "sale", "cancel"}
    BY <1>3 DEF Row
  <2>2. registrations'[r] = sell(registrations[r])
    BY <1>1, <2>1
  <2>3. registrations'[r] = [registrations[r] EXCEPT !.state = registrations[r].state,
              !.sale_order_state = registrations[r].sale_order_state, !.sale_status = "sold"]
    BY <2>1, <2>2 DEF Row
  <2>4. Rewrites(t, r)
    <3>1. r \in ActiveLinked(o) /\ rowLock[r] \in {Free, t}
      BY <1>1, <1>3
    <3>2. \E state \in RegState, sos \in {"none", "sale", "cancel"},
             status \in {"none", "free", "to_pay", "sold"} :
             registrations'[r] = [registrations[r] EXCEPT !.state = state,
                                     !.sale_order_state = sos, !.sale_status = status]
      BY <2>1, <2>3, Zenon
    <3>3. QED
      BY <3>1, <3>2 DEF Rewrites
  <2>5. QED
    BY <2>1, <2>2, <2>4 DEF Row
<1>6. ASSUME NEW r \in Regs
      PROVE  \/ registrations'[r] = registrations[r] /\ r \notin Unpaid(o)
             \/ /\ Rewrites(t, r) /\ r \in Unpaid(o)
                /\ registrations'[r].sale_status = "sold"
                /\ registrations'[r].state \in {"open", registrations[r].state}
  BY <1>1, <1>2, <1>4, <1>5
<1>7. QED
  BY <1>1, <1>6

\* A commit that rewrites rows keeps the invariant: it takes no row from under
\* another session and makes no attendee.
LEMMA RewriteKeeps ==
    ASSUME IInv, NEW t \in Txs, Commit(t), pc[t] # "idle", UNCHANGED sale,
           registrations' = [r \in Regs |-> registrations'[r]],
           \A r \in Regs : registrations'[r] = registrations[r] \/ Rewrites(t, r),
           mail_done' \in [Events -> BOOLEAN], lead_done' \in [Events -> BOOLEAN]
    PROVE  IInv'
<1>1. registrations' \in [Regs -> Row]
  BY RewrittenRow DEF IInv, TypeOK
<1>2. \A r \in Regs : rowLock[r] \in Txs \ {t} => registrations'[r] = registrations[r]
  BY SaleSeamAssumption DEF Rewrites
<1>3. ASSUME NEW d \in Deliveries, d.verb = "confirmed", NEW r \in Attendees(d),
             registrations'[r].state # "absent"
      PROVE  registrations[r].state # "absent"
  <2>1. r \in Regs
    BY <1>3, AttendeeOf
  <2>2. QED
    BY <1>3, <2>1, RewrittenRow
<1>4. EndSession(t) /\ inbox' = inbox \cup {Key(delivery[t])}
  BY DEF Commit
<1>5. QED
  BY <1>1, <1>2, <1>3, <1>4, EndKeeps

LEMMA AbortKeeps ==
    ASSUME IInv, NEW t \in Txs, Abort(t), pc[t] # "idle"
    PROVE  IInv'
  BY EndKeeps DEF Abort, rows, IInv, TypeOK

LEMMA MintCommitKeeps ==
    ASSUME IInv, NEW t \in Txs, MintCommit(t)
    PROVE  IInv'
<1> DEFINE d == delivery[t]
<1>1. /\ EndSession(t) /\ inbox' = inbox \cup {Key(d)} /\ pc[t] # "idle" /\ UNCHANGED sale
      /\ mail_done' \in [Events -> BOOLEAN] /\ lead_done' \in [Events -> BOOLEAN]
  BY ArmTypes DEF MintCommit, Commit, IInv
<1>2. \A r \in Regs : rowLock[r] \in Txs \ {t} => registrations'[r] = registrations[r]
  BY MintCommitDoes, LockedRow
<1>3. ASSUME NEW c \in Deliveries, c.verb = "confirmed", NEW r \in Attendees(c),
             registrations'[r].state # "absent"
      PROVE  registrations[r].state # "absent" \/ Key(c) \in inbox'
  <2>1. CASE r \in Attendees(d)
    BY <1>1, <1>3, <2>1, AttendeeOf, MintCommitDoes
  <2>2. CASE r \notin Attendees(d)
    BY <1>3, <2>2, AttendeeOf, MintCommitDoes
  <2>3. QED
    BY <2>1, <2>2
<1>4. registrations' \in [Regs -> Row]
  BY MintCommitDoes
<1>5. QED
  BY <1>1, <1>2, <1>3, <1>4, EndKeeps

\* The verbs of the officer.
LEMMA TransitionDoes ==
    ASSUME IInv, NEW r \in Regs, NEW to \in RegState, Transition(r, to)
    PROVE  /\ registrations[r].state # "absent" /\ rowLock[r] = Free
           /\ registrations'[r] = [registrations[r] EXCEPT !.state = to]
           /\ registrations'[r] \in Row
           /\ \A s \in Regs \ {r} : registrations'[s] = registrations[s]
           /\ registrations' \in [Regs -> Row]
  BY DEF Transition, IInv, TypeOK, Row, RegState

LEMMA WalkInDoes ==
    ASSUME IInv, NEW w \in WalkIns, NEW e \in Events, WalkIn(w, e)
    PROVE  /\ w \in Regs /\ registrations[w].state = "absent"
           /\ registrations'[w] = NewRow(e, NoOrder, "open", "none", "none")
           /\ \A s \in Regs \ {w} : registrations'[s] = registrations[s]
           /\ registrations' \in [Regs -> Row]
<1>1. w \in Regs
  BY DEF Regs
<1>2. QED
  BY <1>1 DEF WalkIn, IInv, TypeOK, NewRow, Row, RegState

LEMMA ArchiveDoes ==
    ASSUME IInv, NEW r \in Regs, Archive(r)
    PROVE  /\ registrations[r].active /\ rowLock[r] = Free
           /\ registrations'[r] = [registrations[r] EXCEPT !.active = FALSE]
           /\ \A s \in Regs \ {r} : registrations'[s] = registrations[s]
           /\ registrations' \in [Regs -> Row]
<1>1. registrations[r] \in Row
  BY DEF IInv, TypeOK
<1>2. [registrations[r] EXCEPT !.active = FALSE] \in Row
  BY <1>1 DEF Row
<1>3. QED
  BY <1>2 DEF Archive, IInv, TypeOK

LEMMA OfficerKeeps ==
    ASSUME IInv, Officer
    PROVE  IInv'
<1>1. ASSUME NEW w \in WalkIns, NEW e \in Events, WalkIn(w, e)
      PROVE  IInv'
  <2>1. UNCHANGED <<inbox, locks, session>> /\ rowLock[w] = Free
    <3>1. UNCHANGED <<inbox, locks, session>>
      BY <1>1 DEF WalkIn
    <3>2. rowLock[w] \in Txs \cup {Free}
      BY <1>1, WalkInDoes DEF IInv, TypeOK
    <3>3. rowLock[w] \notin Txs
      BY <1>1, WalkInDoes, LockedRow
    <3>4. QED
      BY <3>1, <3>2, <3>3
  <2>2. /\ sale' \in [Events -> {"on", "shut", "cancel"}]
        /\ mail_done' \in [Events -> BOOLEAN] /\ lead_done' \in [Events -> BOOLEAN]
    BY <1>1, ArmTypes DEF WalkIn, IInv, TypeOK
  <2>3. ASSUME NEW d \in Deliveries, d.verb = "confirmed", NEW r \in Attendees(d),
               registrations'[r].state # "absent"
        PROVE  registrations[r].state # "absent"
    BY <1>1, <2>3, AttendeeOf, WalkInDoes
  <2>4. QED
    BY <1>1, <2>1, <2>2, <2>3, WalkInDoes, OtherKeeps
<1>2. ASSUME NEW r \in Regs, Archive(r)
      PROVE  IInv'
  <2>1. /\ UNCHANGED <<inbox, locks, session>> /\ sale' \in [Events -> {"on", "shut", "cancel"}]
        /\ mail_done' \in [Events -> BOOLEAN] /\ lead_done' \in [Events -> BOOLEAN]
    BY <1>2 DEF Archive, IInv, TypeOK
  <2>2. ASSUME NEW d \in Deliveries, d.verb = "confirmed", NEW s \in Attendees(d),
               registrations'[s].state # "absent"
        PROVE  registrations[s].state # "absent"
    <3>1. s \in Regs
      BY <2>2, AttendeeOf
    <3>2. registrations[s] \in Row
      BY <3>1 DEF IInv, TypeOK
    <3>3. QED
      BY <1>2, <2>2, <3>1, <3>2, ArchiveDoes DEF Row
  <2>3. QED
    BY <1>2, <2>1, <2>2, ArchiveDoes, OtherKeeps
<1>3. ASSUME NEW r \in Regs, NEW to \in RegState, Transition(r, to)
      PROVE  IInv'
  <2>1. /\ UNCHANGED <<inbox, locks, session>> /\ sale' \in [Events -> {"on", "shut", "cancel"}]
        /\ mail_done' \in [Events -> BOOLEAN] /\ lead_done' \in [Events -> BOOLEAN]
    BY <1>3, ArmTypes DEF Transition, IInv, TypeOK
  <2>2. ASSUME NEW d \in Deliveries, d.verb = "confirmed", NEW s \in Attendees(d),
               registrations'[s].state # "absent"
        PROVE  registrations[s].state # "absent"
    BY <1>3, <2>2, AttendeeOf, TransitionDoes
  <2>3. QED
    BY <1>3, <2>1, <2>2, TransitionDoes, OtherKeeps
<1>4. QED
  BY <1>1, <1>2, <1>3 DEF Officer, Counter

LEMMA OthersKeep ==
    ASSUME IInv, Others
    PROVE  IInv'
<1>1. CASE Selling
  <2>1. PICK p \in Sales : SetSale(p[1], p[2])
    BY <1>1 DEF Selling
  <2>2. p[1] \in Events /\ p[2] \in {"on", "shut", "cancel"}
    BY SaleSeamAssumption
  <2>3. QED
    BY <2>1, <2>2, OtherKeeps DEF SetSale, IInv, TypeOK
<1>2. CASE \E e \in Events : CloseMails(e) \/ CloseLeads(e)
  BY <1>2, OtherKeeps DEF CloseMails, CloseLeads, IInv, TypeOK
<1>3. QED
  BY <1>1, <1>2 DEF Others

LEMMA SeamKeeps ==
    ASSUME IInv, NEW t \in Txs, Seam(t)
    PROVE  IInv'
<1>1. ASSUME NEW d \in Deliveries, Claim(t, d) PROVE IInv'
  BY <1>1, ClaimKeeps
<1>2. CASE ReadLinked(t)
  BY <1>2, ReadLinkedKeeps
<1>3. CASE MintSpec(t)
  BY <1>3, MintSpecKeeps
<1>4. CASE MintRefused(t)
  BY <1>4, AbortKeeps DEF MintRefused
<1>5. CASE MintCommit(t)
  BY <1>5, MintCommitKeeps
<1>6. CASE HealConfirmed(t)
  <2>1. /\ Commit(t) /\ pc[t] # "idle" /\ UNCHANGED sale /\ lead_done' \in [Events -> BOOLEAN]
        /\ mail_done' \in [Events -> BOOLEAN]
    BY <1>6, ArmTypes DEF HealConfirmed, IInv, TypeOK
  <2>2. QED
    BY <1>6, <2>1, HealConfirmedDoes, RewriteKeeps
<1>7. CASE CancelCascade(t)
  <2>1. /\ Commit(t) /\ pc[t] # "idle" /\ UNCHANGED sale /\ lead_done' \in [Events -> BOOLEAN]
        /\ mail_done' \in [Events -> BOOLEAN]
    BY <1>7 DEF CancelCascade, IInv, TypeOK
  <2>2. QED
    BY <1>7, <2>1, CancelCascadeDoes, RewriteKeeps
<1>8. CASE PaidHeal(t)
  BY <1>8, PaidHealKeeps
<1>9. CASE PaidCommit(t)
  <2>1. /\ Commit(t) /\ pc[t] # "idle" /\ UNCHANGED sale /\ lead_done' \in [Events -> BOOLEAN]
        /\ mail_done' \in [Events -> BOOLEAN]
    BY <1>9, ArmTypes DEF PaidCommit, IInv, TypeOK
  <2>2. QED
    BY <1>9, <2>1, PaidCommitDoes, RewriteKeeps
<1>10. CASE DeadlockVictim(t)
  <2>1. pc[t] # "idle"
    BY <1>10 DEF DeadlockVictim, Blockers
  <2>2. QED
    BY <1>10, <2>1, AbortKeeps DEF DeadlockVictim
<1>11. QED
  BY <1>1, <1>2, <1>3, <1>4, <1>5, <1>6, <1>7, <1>8, <1>9, <1>10 DEF Seam

LEMMA InitIInv == Init => IInv
<1> SUFFICES ASSUME Init PROVE IInv
  OBVIOUS
<1>1. TypeOK
  BY SaleSeamAssumption, NoDeliveryType, AbsentRowType DEF Init, TypeOK
<1>2. ClaimsExclusive /\ SessionOK
  BY DEF Init, ClaimsExclusive, SessionOK
<1>3. LocksHeld
  BY SaleSeamAssumption DEF Init, LocksHeld
<1>4. MintedIsConsumed
  BY AttendeeOf, AbsentRowType DEF Init, MintedIsConsumed
<1>5. QED
  BY <1>1, <1>2, <1>3, <1>4 DEF IInv

LEMMA NextIInv == IInv /\ [Next]_vars => IInv'
<1> SUFFICES ASSUME IInv, [Next]_vars PROVE IInv'
  OBVIOUS
<1>1. CASE UNCHANGED vars
  BY <1>1, OtherKeeps DEF vars, rows, locks, session, IInv, TypeOK
<1>2. CASE Next
  BY <1>2, SeamKeeps, OfficerKeeps, OthersKeep DEF Next
<1>3. QED
  BY <1>1, <1>2

\* For any constants, a key has one session, a session keeps what it locked as
\* it left it, and a mint finds none of its attendees there: claim, register
\* and the heals of sale_seam_repository.rs.
THEOREM SaleSeamSafety == Spec => []IInv
  BY InitIInv, NextIInv, PTL DEF Spec

-----------------------------------------------------------------------------
(* What a step may do                                                      *)

\* A session ends by a step of its own.
LEMMA EndsItself ==
    ASSUME IInv, [Next]_vars, NEW t \in Txs, pc[t] # "idle", pc'[t] = "idle"
    PROVE  \/ Abort(t) \/ MintCommit(t) \/ HealConfirmed(t) \/ CancelCascade(t) \/ PaidCommit(t)
<1>1. ASSUME NEW u \in Txs, Seam(u)
      PROVE  \/ Abort(t) \/ MintCommit(t) \/ HealConfirmed(t) \/ CancelCascade(t) \/ PaidCommit(t)
  <2>1. CASE \E d \in Deliveries : Claim(u, d)
    BY <2>1, SaleSeamAssumption DEF Claim, Goto, IInv, TypeOK
  <2>2. CASE ReadLinked(u)
    BY <2>2 DEF ReadLinked, Goto, IInv, TypeOK
  <2>3. CASE MintSpec(u)
    BY <2>3 DEF MintSpec
  <2>4. CASE PaidHeal(u)
    BY <2>4 DEF PaidHeal, Goto, IInv, TypeOK
  <2>5. CASE \/ MintRefused(u) \/ MintCommit(u) \/ HealConfirmed(u) \/ CancelCascade(u)
             \/ PaidCommit(u) \/ DeadlockVictim(u)
    <3>1. EndSession(u)
      BY <2>5 DEF MintRefused, MintCommit, HealConfirmed, CancelCascade, PaidCommit,
                  DeadlockVictim, Abort, Commit
    <3>2. u = t
      BY <3>1, EndSessionDoes DEF IInv
    <3>3. QED
      BY <2>5, <3>2 DEF MintRefused, DeadlockVictim
  <2>6. QED
    BY <1>1, <2>1, <2>2, <2>3, <2>4, <2>5 DEF Seam
<1>2. CASE Officer
  BY <1>2 DEF Officer, Counter, WalkIn, Archive, Transition, session
<1>3. CASE Others
  BY <1>3 DEF Others, Selling, SetSale, CloseMails, CloseLeads, session
<1>4. CASE UNCHANGED vars
  BY <1>4 DEF vars, session
<1>5. QED
  BY <1>1, <1>2, <1>3, <1>4 DEF Next

LEMMA NeverDemotesStep ==
    ASSUME IInv, [Next]_vars, NEW t \in Txs, pc[t] \in {"mint", "heal", "healed"},
           pc'[t] = "idle", NEW r \in Regs, HoldsSeat(registrations[r])
    PROVE  HoldsSeat(registrations'[r])
<1> USE DEF HoldsSeat
<1>1. registrations[r].state # "absent"
  BY DEF SeatState
<1>2. CASE Abort(t)
  BY <1>2 DEF Abort, rows
<1>3. CASE MintCommit(t)
  BY <1>1, <1>3, MintCommitDoes
<1>4. CASE HealConfirmed(t)
  <2>1. registrations'[r] = registrations[r] \/ (Rewrites(t, r) /\ registrations'[r].active)
    BY <1>4, HealConfirmedDoes, RewrittenRow
  <2>2. registrations'[r].state \in {"open", registrations[r].state}
    BY <1>4, HealConfirmedDoes
  <2>3. QED
    BY <2>1, <2>2 DEF SeatState
<1>5. CASE CancelCascade(t)
  BY <1>5 DEF CancelCascade
<1>6. CASE PaidCommit(t)
  <2>1. registrations'[r] = registrations[r] \/ (Rewrites(t, r) /\ registrations'[r].active)
    BY <1>6, PaidCommitDoes, RewrittenRow
  <2>2. registrations'[r].state \in {"open", registrations[r].state}
    BY <1>6, PaidCommitDoes
  <2>3. QED
    BY <2>1, <2>2 DEF SeatState
<1>7. QED
  BY <1>2, <1>3, <1>4, <1>5, <1>6, EndsItself

\* For any constants, a mint, a heal and a paid fact take no seat away, whatever
\* ran between their first statement and their commit.
THEOREM SeamKeepsSeats == Spec => SeamNeverDemotes
<1>1. IInv /\ [Next]_vars =>
        \A t \in Txs : pc[t] \in {"mint", "heal", "healed"} /\ pc'[t] = "idle" =>
          \A r \in Regs : HoldsSeat(registrations[r]) => HoldsSeat(registrations'[r])
  BY NeverDemotesStep
<1>2. QED
  BY <1>1, SaleSeamSafety, PTL DEF Spec, SeamNeverDemotes

\* A row that becomes an open seat has its event's schedulers re-opened.
LEMMA EntryArmsStep ==
    ASSUME IInv, [Next]_vars, NEW r \in Regs, EntersOpen(r)
    PROVE  ~mail_done'[registrations'[r].event]
<1>1. /\ registrations'[r].state = "open" /\ registrations'[r].active
      /\ ~(registrations[r].state \in SeatState /\ registrations[r].active)
  BY DEF EntersOpen, Enters, HoldsSeat
<1>2. registrations'[r] # registrations[r]
  BY <1>1 DEF SeatState
<1>3. registrations[r] \in Row /\ registrations'[r] \in Row
  BY NextIInv DEF IInv, TypeOK
<1>4. \A S : ArmMails(S) /\ registrations'[r].event \in S => ~mail_done'[registrations'[r].event]
  BY <1>3 DEF ArmMails, Row
<1>5. ASSUME NEW t \in Txs, Seam(t)
      PROVE  ~mail_done'[registrations'[r].event]
  <2> DEFINE o == delivery[t].order
  <2>1. CASE MintCommit(t)
    <3>1. r \in Attendees(delivery[t])
      BY <1>2, <2>1, MintCommitDoes
    <3>2. /\ r[2] \in 1..Len(Specs[o])
          /\ registrations'[r] = NewRow(Specs[o][r[2]], o, BornState(o), "sale",
                                        IF o \in FreeOrders THEN "free" ELSE "to_pay")
      BY <2>1, <3>1, MintCommitDoes
    <3>3. registrations'[r].event = Specs[o][r[2]] /\ BornState(o) = "open"
      BY <1>1, <3>2 DEF NewRow
    <3>4. o \in FreeOrders /\ r[2] \in DOMAIN Specs[o]
      BY <3>2, <3>3, DeliveryType, SpecsType DEF BornState
    <3>5. ArmMails({Specs[o][i] : i \in DOMAIN Specs[o]})
      BY <2>1, <3>4 DEF MintCommit
    <3>6. QED
      BY <1>4, <3>3, <3>4, <3>5
  <2>2. CASE HealConfirmed(t) \/ PaidCommit(t)
    <3>1. Rewrites(t, r)
      BY <1>2, <2>2, HealConfirmedDoes, PaidCommitDoes
    <3>2. /\ registrations'[r].event = registrations[r].event
          /\ registrations[r].active /\ registrations[r].state # "absent"
          /\ registrations[r].order = o
      BY <3>1, RewrittenRow
    <3>3. registrations[r].state # "open"
      BY <1>1, <3>2 DEF SeatState
    <3>4. HealConfirmed(t) => o \in FreeOrders
      BY <1>1, <3>3, HealConfirmedDoes
    <3>5. ArmMails(EventsOf(Linked(o)))
      BY <2>2, <3>4 DEF HealConfirmed, PaidCommit
    <3>6. registrations'[r].event \in EventsOf(Linked(o))
      BY <3>2 DEF EventsOf, Linked
    <3>7. QED
      BY <1>4, <3>5, <3>6
  <2>3. CASE CancelCascade(t)
    BY <1>1, <1>2, <2>3, CancelCascadeDoes
  <2>4. CASE \/ (\E d \in Deliveries : Claim(t, d)) \/ ReadLinked(t) \/ MintSpec(t)
             \/ MintRefused(t) \/ PaidHeal(t) \/ DeadlockVictim(t)
    BY <1>2, <2>4 DEF Claim, ReadLinked, MintSpec, MintRefused, PaidHeal, DeadlockVictim,
                      Abort, rows
  <2>5. QED
    BY <1>5, <2>1, <2>2, <2>3, <2>4 DEF Seam
<1>6. CASE Officer
  <2>1. ASSUME NEW w \in WalkIns, NEW e \in Events, WalkIn(w, e)
        PROVE  ~mail_done'[registrations'[r].event]
    <3>1. registrations'[r].event = e
      <4>1. r = w
        BY <1>2, <2>1, WalkInDoes
      <4>2. registrations'[r] = NewRow(e, NoOrder, "open", "none", "none")
        BY <2>1, <4>1, WalkInDoes
      <4>3. QED
        BY <4>2 DEF NewRow
    <3>2. QED
      BY <1>4, <2>1, <3>1 DEF WalkIn
  <2>2. ASSUME NEW s \in Regs, Archive(s)
        PROVE  ~mail_done'[registrations'[r].event]
    BY <1>1, <1>2, <1>3, <2>2, ArchiveDoes DEF Row
  <2>3. ASSUME NEW s \in Regs, NEW to \in RegState, Transition(s, to)
        PROVE  ~mail_done'[registrations'[r].event]
    <3>1. /\ r = s /\ registrations'[r] = [registrations[r] EXCEPT !.state = to]
          /\ registrations[r].state # "absent"
      BY <1>2, <2>3, TransitionDoes
    <3>2. /\ to = "open" /\ registrations'[r].event = registrations[r].event
          /\ registrations'[r].active = registrations[r].active
      BY <1>1, <1>3, <3>1 DEF Row
    <3>3. registrations[r].active /\ registrations[r].state \in {"draft", "cancel"}
      BY <1>1, <1>3, <3>1, <3>2 DEF Row, RegState, SeatState
    <3>4. ArmMails({registrations[r].event})
      BY <2>3, <3>1, <3>2, <3>3 DEF Transition
    <3>5. QED
      BY <1>4, <3>2, <3>4
  <2>4. QED
    BY <1>6, <2>1, <2>2, <2>3 DEF Officer, Counter
<1>7. CASE Others
  BY <1>2, <1>7 DEF Others, Selling, SetSale, CloseMails, CloseLeads
<1>8. CASE UNCHANGED vars
  BY <1>2, <1>8 DEF vars, rows
<1>9. QED
  BY <1>5, <1>6, <1>7, <1>8 DEF Next

\* For any constants, every entry to 'open' re-opens the schedulers of its event
\* in the same commit: the mint, both heals, the officer and the counter.
THEOREM SeamArmsMails == Spec => EntryArmsMails
<1>1. IInv /\ [Next]_vars =>
        \A r \in Regs : EntersOpen(r) => ~mail_done'[registrations'[r].event]
  BY EntryArmsStep
<1>2. QED
  BY <1>1, SaleSeamSafety, PTL DEF Spec, EntryArmsMails

-----------------------------------------------------------------------------
(* What the order of the facts adds                                        *)

\* Every row that is there names the order of the fact that minted it, or none.
RowsNameOrders ==
    \A r \in Regs : registrations[r].state # "absent" =>
        /\ r \in WalkIns => registrations[r].order = NoOrder
        /\ \A d \in Deliveries : d.verb = "confirmed" /\ r \in Attendees(d) =>
              registrations[r].order = d.order

\* A heal works on an order that owns rows.
HealFindsRows == \A t \in Txs : pc[t] = "heal" => Linked(delivery[t].order) # {}

\* MintIsWhole with what it rests on.
WholeInv == MintIsWhole /\ RowsNameOrders /\ HealFindsRows

\* No step loses a row or changes its order or event.
LEMMA RowsStay ==
    ASSUME IInv, [Next]_vars, NEW r \in Regs, registrations[r].state # "absent"
    PROVE  /\ registrations'[r].state # "absent"
           /\ registrations'[r].order = registrations[r].order
           /\ registrations'[r].event = registrations[r].event
           /\ registrations[r].active \/ ~registrations'[r].active
<1>1. registrations[r] \in Row
  BY DEF IInv, TypeOK
<1>2. ASSUME NEW t \in Txs, Seam(t)
      PROVE  \/ registrations'[r] = registrations[r]
             \/ Rewrites(t, r)
  <2>1. CASE MintCommit(t)
    BY <2>1, MintCommitDoes
  <2>2. CASE HealConfirmed(t) \/ PaidCommit(t) \/ CancelCascade(t)
    BY <2>2, HealConfirmedDoes, PaidCommitDoes, CancelCascadeDoes
  <2>3. CASE \/ (\E d \in Deliveries : Claim(t, d)) \/ ReadLinked(t) \/ MintSpec(t)
             \/ MintRefused(t) \/ PaidHeal(t) \/ DeadlockVictim(t)
    BY <2>3 DEF Claim, ReadLinked, MintSpec, MintRefused, PaidHeal, DeadlockVictim, Abort, rows
  <2>4. QED
    BY <1>2, <2>1, <2>2, <2>3 DEF Seam
<1>3. ASSUME NEW w \in WalkIns, NEW e \in Events, WalkIn(w, e)
      PROVE  registrations'[r] = registrations[r]
  BY <1>3, WalkInDoes
<1>4. ASSUME NEW s \in Regs, Archive(s)
      PROVE  \/ registrations'[r] = registrations[r]
             \/ registrations'[r] = [registrations[r] EXCEPT !.active = FALSE]
  BY <1>4, ArchiveDoes
<1>5. ASSUME NEW s \in Regs, NEW to \in RegState, Transition(s, to)
      PROVE  \/ registrations'[r] = registrations[r]
             \/ registrations'[r] = [registrations[r] EXCEPT !.state = to]
  BY <1>5, TransitionDoes
<1>6. CASE Others \/ UNCHANGED vars
  BY <1>6 DEF Others, Selling, SetSale, CloseMails, CloseLeads, vars, rows
<1>7. CASE \E t \in Txs : Seam(t)
  BY <1>2, <1>7, RewrittenRow
<1>8. CASE Officer
  <2>1. \/ registrations'[r] = registrations[r]
        \/ registrations'[r] = [registrations[r] EXCEPT !.active = FALSE]
        \/ \E to \in RegState : registrations'[r] = [registrations[r] EXCEPT !.state = to]
    BY <1>3, <1>4, <1>5, <1>8 DEF Officer, Counter
  <2>2. QED
    BY <1>1, <2>1 DEF Row, RegState
<1>9. QED
  BY <1>6, <1>7, <1>8 DEF Next

\* A row that appears is a walk-in, or an attendee of a mint that commits; an
\* absent one can only lose its flag.
LEMMA NewRows ==
    ASSUME IInv, [Next]_vars, NEW r \in Regs,
           registrations[r].state = "absent", registrations'[r] # registrations[r]
    PROVE  \/ /\ r \in WalkIns /\ registrations'[r].order = NoOrder
              /\ registrations'[r].state # "absent"
           \/ registrations'[r].state = "absent" /\ ~registrations'[r].active
           \/ \E t \in Txs : MintCommit(t) /\ r \in Attendees(delivery[t])
<1>1. registrations[r] \in Row
  BY DEF IInv, TypeOK
<1>2. ASSUME NEW t \in Txs, Seam(t), ~MintCommit(t)
      PROVE  registrations'[r] = registrations[r]
  <2>1. CASE HealConfirmed(t) \/ PaidCommit(t) \/ CancelCascade(t)
    BY <2>1, HealConfirmedDoes, PaidCommitDoes, CancelCascadeDoes, RewrittenRow
  <2>2. CASE \/ (\E d \in Deliveries : Claim(t, d)) \/ ReadLinked(t) \/ MintSpec(t)
             \/ MintRefused(t) \/ PaidHeal(t) \/ DeadlockVictim(t)
    BY <2>2 DEF Claim, ReadLinked, MintSpec, MintRefused, PaidHeal, DeadlockVictim, Abort, rows
  <2>3. QED
    BY <1>2, <2>1, <2>2 DEF Seam
<1>3. ASSUME NEW t \in Txs, MintCommit(t)
      PROVE  r \in Attendees(delivery[t])
  BY <1>3, MintCommitDoes
<1>4. ASSUME NEW w \in WalkIns, NEW e \in Events, WalkIn(w, e)
      PROVE  /\ r \in WalkIns /\ registrations'[r].order = NoOrder
             /\ registrations'[r].state # "absent"
  <2>1. r = w /\ registrations'[w] = NewRow(e, NoOrder, "open", "none", "none")
    BY <1>4, WalkInDoes
  <2>2. QED
    BY <2>1 DEF NewRow
<1>5. ASSUME NEW s \in Regs, Archive(s)
      PROVE  registrations'[r].state = "absent" /\ ~registrations'[r].active
  BY <1>1, <1>5, ArchiveDoes DEF Row
<1>6. ASSUME NEW s \in Regs, NEW to \in RegState, Transition(s, to)
      PROVE  FALSE
  BY <1>6, TransitionDoes
<1>7. CASE Others \/ UNCHANGED vars
  BY <1>7 DEF Others, Selling, SetSale, CloseMails, CloseLeads, vars, rows
<1>8. QED
  BY <1>2, <1>3, <1>4, <1>5, <1>6, <1>7 DEF Next, Officer, Counter

\* The rows of an order stay its rows.
LEMMA LinkedStays ==
    ASSUME IInv, [Next]_vars, NEW o
    PROVE  Linked(o) \subseteq Linked(o)'
  BY RowsStay DEF Linked

\* How a session comes to where it is.
LEMMA SessionStep ==
    ASSUME IInv, [Next]_vars, NEW t \in Txs
    PROVE  \/ pc'[t] = pc[t] /\ delivery'[t] = delivery[t] /\ minted'[t] = minted[t]
           \/ \E d \in Deliveries : Claim(t, d) /\ pc'[t] = d.verb /\ delivery'[t] = d
           \/ /\ ReadLinked(t) /\ delivery'[t] = delivery[t]
              /\ pc'[t] = IF Linked(delivery[t].order) = {} THEN "mint" ELSE "heal"
           \/ MintSpec(t) /\ pc'[t] = "mint" /\ delivery'[t] = delivery[t]
           \/ PaidHeal(t) /\ pc'[t] = "healed" /\ delivery'[t] = delivery[t]
           \/ pc'[t] = "idle"
<1> DEFINE Same == pc'[t] = pc[t] /\ delivery'[t] = delivery[t] /\ minted'[t] = minted[t]
<1>1. ASSUME NEW u \in Txs \ {t}, Seam(u)
      PROVE  Same
  <2>1. CASE EndSession(u)
    BY <2>1, EndSessionDoes DEF IInv
  <2>2. CASE \/ (\E d \in Deliveries : Claim(u, d)) \/ ReadLinked(u) \/ MintSpec(u) \/ PaidHeal(u)
    BY <2>2 DEF Claim, ReadLinked, MintSpec, PaidHeal, Goto, IInv, TypeOK
  <2>3. QED
    BY <1>1, <2>1, <2>2 DEF Seam, MintRefused, MintCommit, HealConfirmed, CancelCascade,
                            PaidCommit, DeadlockVictim, Abort, Commit
<1>2. CASE EndSession(t)
  BY <1>2, EndSessionDoes DEF IInv
<1>3. ASSUME NEW d \in Deliveries, Claim(t, d)
      PROVE  pc'[t] = d.verb /\ delivery'[t] = d
  BY <1>3 DEF Claim, Goto, IInv, TypeOK
<1>4. CASE ReadLinked(t)
  BY <1>4 DEF ReadLinked, Goto, IInv, TypeOK
<1>5. CASE MintSpec(t)
  BY <1>5 DEF MintSpec
<1>6. CASE PaidHeal(t)
  BY <1>6 DEF PaidHeal, Goto, IInv, TypeOK
<1>7. CASE Seam(t)
  BY <1>2, <1>3, <1>4, <1>5, <1>6, <1>7 DEF Seam, MintRefused, MintCommit, HealConfirmed,
       CancelCascade, PaidCommit, DeadlockVictim, Abort, Commit
<1>8. CASE Officer \/ Others \/ UNCHANGED vars
  BY <1>8 DEF Officer, Counter, WalkIn, Archive, Transition, Others, Selling, SetSale,
                 CloseMails, CloseLeads, vars, session
<1>9. QED
  BY <1>1, <1>7, <1>8 DEF Next

\* A key enters the inbox with the commit of its fact, and stays.
LEMMA Consumes ==
    ASSUME IInv, [Next]_vars
    PROVE  /\ inbox \subseteq inbox'
           /\ \A k \in inbox' \ inbox : \E t \in Txs :
                 /\ k = Key(delivery[t])
                 /\ MintCommit(t) \/ HealConfirmed(t) \/ CancelCascade(t) \/ PaidCommit(t)
<1>1. ASSUME NEW t \in Txs, Seam(t)
      PROVE  \/ inbox' = inbox
             \/ /\ inbox' = inbox \cup {Key(delivery[t])}
                /\ MintCommit(t) \/ HealConfirmed(t) \/ CancelCascade(t) \/ PaidCommit(t)
  BY <1>1 DEF Seam, Claim, ReadLinked, MintSpec, MintRefused, PaidHeal, DeadlockVictim, Abort,
              MintCommit, HealConfirmed, CancelCascade, PaidCommit, Commit
<1>2. CASE Officer \/ Others \/ UNCHANGED vars
  BY <1>2 DEF Officer, Counter, WalkIn, Archive, Transition, Others, Selling, SetSale,
                 CloseMails, CloseLeads, vars
<1>3. CASE \E t \in Txs : Seam(t)
  BY <1>1, <1>3
<1>4. QED
  BY <1>2, <1>3 DEF Next

\* Equal keys are keys of one verb and one order.
LEMMA SameKey ==
    ASSUME NEW c \in Deliveries, NEW d \in Deliveries, Key(c) = Key(d)
    PROVE  c.verb = d.verb /\ c.order = d.order
  BY IdAssumption DEF Key

\* After its commit a mint's order owns its attendees.
LEMMA MintLinks ==
    ASSUME IInv, NEW t \in Txs, MintCommit(t), NEW o, delivery[t].order = o
    PROVE  /\ \A r \in Attendees(delivery[t]) : r \in Linked(o)'
           /\ Attendees(delivery[t]) # {}
<1> DEFINE d == delivery[t]
<1>1. ASSUME NEW r \in Attendees(d)
      PROVE  r \in Regs /\ registrations'[r].state # "absent" /\ registrations'[r].order = o
  <2>1. r \in Regs /\ registrations'[r] = NewRow(Specs[o][r[2]], o, BornState(o), "sale",
                                  IF o \in FreeOrders THEN "free" ELSE "to_pay")
    BY MintCommitDoes
  <2>2. QED
    BY <2>1 DEF NewRow, BornState
<1>2. <<d, 1>> \in Attendees(d)
  <2>1. 1 \in DOMAIN Specs[o]
    BY DeliveryType, SpecsType
  <2>2. QED
    BY <2>1 DEF Attendees
<1>3. \A r \in Attendees(d) :
         r \in {s \in Regs : registrations'[s].state # "absent" /\ registrations'[s].order = o}
  BY <1>1
<1>4. QED
  BY <1>2, <1>3 DEF Linked

LEMMA NamesOrdersStep ==
    ASSUME IInv, [Next]_vars, RowsNameOrders
    PROVE  RowsNameOrders'
<1> SUFFICES ASSUME NEW r \in Regs, registrations'[r].state # "absent"
             PROVE  RowsNameOrders!(r)!2'
  BY DEF RowsNameOrders
<1>1. CASE registrations[r].state # "absent"
  BY <1>1, RowsStay DEF RowsNameOrders
<1>2. CASE registrations[r].state = "absent"
  <2>1. registrations'[r] # registrations[r]
    BY <1>2
  <2>2. CASE r \in WalkIns /\ registrations'[r].order = NoOrder
    BY <2>2, AttendeeOf
  <2>3. ASSUME NEW t \in Txs, MintCommit(t), r \in Attendees(delivery[t])
        PROVE  RowsNameOrders!(r)!2'
    <3>1. delivery[t] \in Deliveries /\ delivery[t].verb = "confirmed"
      BY <2>3, MintCommitDoes
    <3>2. registrations'[r].order = delivery[t].order
      <4>1. \A o : o = delivery[t].order => r \in Linked(o)'
        BY <2>3, MintLinks
      <4>2. QED
        BY <4>1 DEF Linked
    <3>3. QED
      BY <2>3, <3>1, <3>2, AttendeeOf
  <2>4. QED
    BY <1>2, <2>1, <2>2, <2>3, NewRows
<1>3. QED
  BY <1>1, <1>2

LEMMA HealFindsStep ==
    ASSUME IInv, [Next]_vars, HealFindsRows
    PROVE  HealFindsRows'
<1> SUFFICES ASSUME NEW t \in Txs, pc'[t] = "heal"
             PROVE  Linked(delivery[t].order)' # {}
  BY DEF HealFindsRows
<1>1. Linked(delivery[t].order) # {} /\ delivery'[t] = delivery[t]
  BY SessionStep, SaleSeamAssumption DEF HealFindsRows
<1>2. \A o : Linked(o) \subseteq Linked(o)'
  BY LinkedStays
<1>3. QED
  BY <1>1, <1>2 DEF Linked

LEMMA WholeStep ==
    ASSUME IInv, [Next]_vars, WholeInv
    PROVE  WholeInv'
<1>1. RowsNameOrders' /\ HealFindsRows'
  BY NamesOrdersStep, HealFindsStep DEF WholeInv
<1>2. IInv'
  BY NextIInv
<1>3. ASSUME NEW d \in Deliveries, d.verb = "confirmed"
      PROVE  MintIsWhole!(d)!2'
  <2>1. \/ \A r \in Attendees(d) : registrations'[r].state # "absent"
        \/ \A r \in Attendees(d) : registrations'[r].state = "absent"
    <3>1. CASE \A r \in Attendees(d) : registrations[r].state # "absent"
      BY <1>3, <3>1, RowsStay, AttendeeOf
    <3>2. CASE \A r \in Attendees(d) : registrations[r].state = "absent"
      <4>1. ASSUME NEW r \in Attendees(d), registrations'[r].state # "absent"
            PROVE  \A s \in Attendees(d) : registrations'[s].state # "absent"
        <5>1. r \in Regs /\ r \notin WalkIns /\ registrations'[r] # registrations[r]
          BY <1>3, <3>2, <4>1, AttendeeOf
        <5>2. PICK t \in Txs : MintCommit(t) /\ r \in Attendees(delivery[t])
          BY <3>2, <4>1, <5>1, NewRows
        <5>3. delivery[t] = d
          BY <1>3, <5>2, AttendeeOf, MintCommitDoes
        <5>4. QED
          BY <5>2, <5>3, MintLinks DEF Linked
      <4>2. QED
        BY <4>1
    <3>3. QED
      BY <1>3, <3>1, <3>2 DEF WholeInv, MintIsWhole
  <2>2. (Attendees(d) \cap Linked(d.order))' # {} => Key(d) \in inbox'
    BY <1>2, <1>3 DEF IInv, MintedIsConsumed, Linked
  <2>3. ASSUME Key(d) \in inbox'
        PROVE  Linked(d.order)' # {}
    <3>1. CASE Key(d) \in inbox
      <4>1. Linked(d.order) # {}
        BY <1>3, <3>1 DEF WholeInv, MintIsWhole
      <4>2. QED
        BY <4>1, LinkedStays
    <3>2. CASE Key(d) \notin inbox
      <4>1. PICK t \in Txs :
              /\ Key(d) = Key(delivery[t])
              /\ MintCommit(t) \/ HealConfirmed(t) \/ CancelCascade(t) \/ PaidCommit(t)
        BY <2>3, <3>2, Consumes
      <4>2. delivery[t] \in Deliveries
        BY DeliveryType
      <4>3. delivery[t].verb = "confirmed" /\ delivery[t].order = d.order
        BY <1>3, <4>1, <4>2, SameKey
      <4>4. CASE MintCommit(t)
        BY <4>3, <4>4, MintLinks
      <4>5. CASE HealConfirmed(t)
        <5>1. Linked(d.order) # {}
          BY <4>3, <4>5 DEF HealConfirmed, WholeInv, HealFindsRows
        <5>2. QED
          BY <5>1, LinkedStays
      <4>6. ~CancelCascade(t) /\ ~PaidCommit(t)
        BY <4>3 DEF CancelCascade, PaidCommit, IInv, SessionOK
      <4>7. QED
        BY <4>1, <4>4, <4>5, <4>6
    <3>3. QED
      BY <3>1, <3>2
  <2>4. QED
    BY <2>1, <2>2, <2>3
<1>4. MintIsWhole'
  BY <1>3 DEF MintIsWhole
<1>5. QED
  BY <1>1, <1>4 DEF WholeInv

LEMMA InitWhole == Init => WholeInv
<1> SUFFICES ASSUME Init PROVE WholeInv
  OBVIOUS
<1>1. \A r \in Regs : registrations[r].state = "absent"
  BY AbsentRowType DEF Init
<1>2. MintIsWhole
  BY <1>1, AttendeeOf DEF Init, MintIsWhole, Linked
<1>3. QED
  BY <1>1, <1>2 DEF Init, WholeInv, RowsNameOrders, HealFindsRows

LEMMA WholeAlways == Spec => []WholeInv
<1>1. IInv /\ WholeInv /\ [Next]_vars => WholeInv'
  BY WholeStep
<1>2. QED
  BY <1>1, InitWhole, SaleSeamSafety, PTL DEF Spec

\* For any constants, in whatever order the facts arrive, a consumed confirmation
\* leaves its order with rows, all the attendees of a mint or none of them are
\* there, and a refusal gives the key back.
THEOREM MintsWhole == Spec => []MintIsWhole
  BY WholeAlways, PTL DEF WholeInv

\* The host keeps its order: a fact in hand has its predecessors consumed.
HandedInOrder ==
    \A t \in Txs : pc[t] # "idle" =>
        \A c \in Deliveries : <<c, delivery[t]>> \in Before => Key(c) \in inbox

LEMMA HandedStep ==
    ASSUME IInv, [Next]_vars, HandedInOrder
    PROVE  HandedInOrder'
<1> SUFFICES ASSUME NEW t \in Txs, pc'[t] # "idle", NEW c \in Deliveries,
                    <<c, delivery'[t]>> \in Before
             PROVE  Key(c) \in inbox'
  BY DEF HandedInOrder
<1>1. CASE \E d \in Deliveries : Claim(t, d) /\ pc'[t] = d.verb /\ delivery'[t] = d
  <2>1. PICK d \in Deliveries : Claim(t, d) /\ delivery'[t] = d
    BY <1>1
  <2>2. Key(c) \in inbox
    <3>1. \A p \in Before : p[2] = d => Key(p[1]) \in inbox
      BY <2>1 DEF Claim
    <3>2. <<c, d>> \in Before
      BY <2>1
    <3>3. QED
      BY <3>1, <3>2
  <2>3. QED
    BY <2>2, Consumes
<1>2. CASE delivery'[t] = delivery[t] /\ pc[t] # "idle"
  BY <1>2, Consumes DEF HandedInOrder
<1>3. QED
  BY <1>1, <1>2, SessionStep DEF ReadLinked, MintSpec, PaidHeal

\* Of two facts in hand none is the other's predecessor, and they are not one.
LEMMA InHand ==
    ASSUME IInv, HandedInOrder, NEW t \in Txs, NEW u \in Txs \ {t},
           pc[t] # "idle", pc[u] # "idle"
    PROVE  /\ delivery[t] # delivery[u]
           /\ <<delivery[t], delivery[u]>> \notin Before
           /\ <<delivery[u], delivery[t]>> \notin Before
  BY DeliveryType DEF IInv, ClaimsExclusive, HandedInOrder

\* A mint still finds its order without rows.
MintFindsNone == \A t \in Txs : pc[t] = "mint" => Linked(delivery[t].order) = {}

\* The attendees of an order that are there were minted by one fact.
OneMint ==
    \A c, d \in Deliveries : Confirms(c, d.order) /\ Confirms(d, d.order) =>
        \A r \in Attendees(c), s \in Attendees(d) :
            registrations[r].state # "absent" /\ registrations[s].state # "absent" => c = d

OnceInv == HandedInOrder /\ MintFindsNone /\ OneMint

LEMMA FindsNoneStep ==
    ASSUME ConfirmsInTurn, IInv, OnceInv, [Next]_vars
    PROVE  MintFindsNone'
<1> SUFFICES ASSUME NEW t \in Txs, pc'[t] = "mint", NEW r \in Regs,
                    registrations'[r].state # "absent",
                    registrations'[r].order = delivery'[t].order
             PROVE  FALSE
  BY DEF MintFindsNone, Linked
<1>1. CASE ReadLinked(t)
  <2>1. UNCHANGED registrations /\ delivery' = delivery
    BY <1>1 DEF ReadLinked, rows
  <2>2. Linked(delivery[t].order) = {}
    BY <1>1 DEF ReadLinked, Goto, IInv, TypeOK
  <2>3. QED
    BY <2>1, <2>2 DEF Linked
<1>2. CASE pc[t] = "mint" /\ delivery'[t] = delivery[t]
  <2> DEFINE o == delivery[t].order
  <2>1. registrations[r].state = "absent"
    BY <1>2, RowsStay DEF OnceInv, MintFindsNone, Linked
  <2>2. o \in Orders /\ o # NoOrder
    BY DeliveryType, SaleSeamAssumption
  <2>3. registrations'[r] # registrations[r] /\ registrations'[r].order # NoOrder
    BY <1>2, <2>1, <2>2
  <2>4. PICK u \in Txs : MintCommit(u) /\ r \in Attendees(delivery[u])
    BY <2>1, <2>3, NewRows
  <2>5. pc[u] = "mint" /\ delivery[u] \in Deliveries /\ delivery[u].verb = "confirmed" /\ EndSession(u)
    BY <2>4, MintCommitDoes DEF MintCommit, Commit
  <2>6. delivery[u].order = o
    <3>1. \A p : p = delivery[u].order => r \in Linked(p)'
      BY <2>4, MintLinks
    <3>2. QED
      BY <1>2, <3>1 DEF Linked
  <2>7. u # t
    BY <2>5, EndSessionDoes DEF IInv
  <2>8. delivery[t] \in Deliveries /\ delivery[t].verb = "confirmed"
    BY <1>2, DeliveryType DEF IInv, SessionOK
  <2>9. QED
    BY <1>2, <2>5, <2>6, <2>7, <2>8, InHand DEF ConfirmsInTurn, Confirms, OnceInv
<1>3. QED
  BY <1>1, <1>2, SessionStep, SaleSeamAssumption DEF MintSpec

LEMMA OneMintStep ==
    ASSUME IInv, OnceInv, RowsNameOrders, [Next]_vars
    PROVE  OneMint'
<1>1. ASSUME NEW c \in Deliveries, NEW d \in Deliveries, Confirms(c, d.order), Confirms(d, d.order),
             NEW r \in Attendees(c), NEW s \in Attendees(d),
             registrations'[r].state # "absent", registrations'[s].state # "absent",
             registrations[r].state = "absent"
      PROVE  c = d
  <2>1. r \in Regs /\ s \in Regs /\ r \notin WalkIns /\ s \notin WalkIns
    BY <1>1, AttendeeOf DEF Confirms
  <2>2. registrations'[r] # registrations[r]
    BY <1>1
  <2>3. PICK t \in Txs : MintCommit(t) /\ r \in Attendees(delivery[t])
    BY <1>1, <2>1, <2>2, NewRows
  <2>4. delivery[t] = c /\ pc[t] = "mint"
    BY <1>1, <2>3, AttendeeOf, MintCommitDoes DEF Confirms
  <2>5. Linked(d.order) = {}
    BY <1>1, <2>4 DEF OnceInv, MintFindsNone, Confirms
  <2>6. registrations[s].state = "absent"
    BY <1>1, <2>1, <2>5 DEF RowsNameOrders, Linked, Confirms
  <2>7. s \in Attendees(delivery[t])
    BY <1>1, <2>1, <2>3, <2>6, MintCommitDoes
  <2>8. QED
    BY <1>1, <2>4, <2>7, AttendeeOf DEF Confirms
<1>2. ASSUME NEW c \in Deliveries, NEW d \in Deliveries, Confirms(c, d.order), Confirms(d, d.order),
             NEW r \in Attendees(c), NEW s \in Attendees(d),
             registrations'[r].state # "absent", registrations'[s].state # "absent"
      PROVE  c = d
  <2>1. CASE registrations[r].state = "absent"
    BY <1>1, <1>2, <2>1
  <2>2. CASE registrations[s].state = "absent"
    <3>1. c.order = d.order
      BY <1>2 DEF Confirms
    <3>2. Confirms(d, c.order) /\ Confirms(c, c.order)
      BY <1>2, <3>1
    <3>3. QED
      BY <1>1, <1>2, <2>2, <3>2
  <2>3. CASE registrations[r].state # "absent" /\ registrations[s].state # "absent"
    BY <1>2, <2>3 DEF OnceInv, OneMint
  <2>4. QED
    BY <2>1, <2>2, <2>3
<1>3. QED
  BY <1>2 DEF OneMint

\* A fact mints as many attendees as it has specs, at the most; those of an
\* event are as many as the specs that name it.
LEMMA AttendeesCount ==
    ASSUME NEW d \in Deliveries, NEW S \in SUBSET DOMAIN Specs[d.order]
    PROVE  LET A == {<<d, i>> : i \in S}
           IN  /\ IsFiniteSet(A) /\ IsFiniteSet(S)
               /\ Cardinality(A) \in Nat /\ Cardinality(S) \in Nat
               /\ Cardinality(A) <= Cardinality(S) /\ Cardinality(S) <= Len(Specs[d.order])
<1> DEFINE n == Len(Specs[d.order])
           A == {<<d, i>> : i \in S}
           f == [i \in S |-> <<d, i>>]
<1>1. n \in Nat /\ DOMAIN Specs[d.order] = 1..n
  BY SaleSeamAssumption, SpecsType
<1>2. IsFiniteSet(1..n) /\ Cardinality(1..n) = n
  BY <1>1, FS_Interval
<1>3. IsFiniteSet(S) /\ Cardinality(S) <= n
  BY <1>1, <1>2, FS_Subset
<1>4. f \in Surjection(S, A)
  BY DEF Surjection
<1>5. IsFiniteSet(A) /\ Cardinality(A) <= Cardinality(S)
  BY <1>3, <1>4, FS_Surjection
<1>6. QED
  BY <1>3, <1>5, FS_CardinalityType

LEMMA OnceImpliesMintsOnce ==
    ASSUME IInv, RowsNameOrders, OneMint
    PROVE  MintsOnce
<1> SUFFICES ASSUME NEW o \in Orders PROVE Cardinality(Linked(o)) <= Len(Specs[o])
  BY DEF MintsOnce
<1>1. Len(Specs[o]) \in Nat
  BY SpecsType
<1>2. CASE Linked(o) = {}
  BY <1>1, <1>2, FS_EmptySet
<1>3. CASE Linked(o) # {}
  <2>1. ASSUME NEW r \in Linked(o)
        PROVE  \E d \in Deliveries : Confirms(d, o) /\ r \in Attendees(d)
    <3>1. r \in Regs /\ registrations[r].state # "absent" /\ registrations[r].order = o
      BY DEF Linked
    <3>2. r \notin WalkIns
      BY <3>1, SaleSeamAssumption DEF RowsNameOrders
    <3>3. PICK d \in Deliveries : d.verb = "confirmed" /\ r \in Attendees(d)
      BY <3>1, <3>2 DEF Regs
    <3>4. QED
      BY <3>1, <3>3 DEF RowsNameOrders, Confirms
  <2>2. PICK r \in Linked(o) : TRUE
    BY <1>3
  <2>3. PICK d \in Deliveries : Confirms(d, o) /\ r \in Attendees(d)
    BY <2>1
  <2>4. ASSUME NEW s \in Linked(o)
        PROVE  s \in Attendees(d)
    <3>1. PICK c \in Deliveries : Confirms(c, o) /\ s \in Attendees(c)
      BY <2>1
    <3>2. c = d
      BY <2>3, <3>1 DEF OneMint, Confirms, Linked
    <3>3. QED
      BY <3>1, <3>2
  <2>5. IsFiniteSet(Attendees(d)) /\ Cardinality(Attendees(d)) <= Len(Specs[o])
        /\ Cardinality(Attendees(d)) \in Nat
    <3>1. d.order = o
      BY <2>3 DEF Confirms
    <3>2. LET S == DOMAIN Specs[d.order]
          IN  /\ IsFiniteSet(Attendees(d))
              /\ Cardinality(Attendees(d)) \in Nat /\ Cardinality(S) \in Nat
              /\ Cardinality(Attendees(d)) <= Cardinality(S)
              /\ Cardinality(S) <= Len(Specs[d.order])
      BY AttendeesCount DEF Attendees
    <3>3. QED
      BY <1>1, <3>1, <3>2
  <2>6. Linked(o) \subseteq Attendees(d)
    BY <2>4
  <2>7. /\ IsFiniteSet(Linked(o)) /\ Cardinality(Linked(o)) <= Cardinality(Attendees(d))
        /\ Cardinality(Linked(o)) \in Nat
    BY <2>5, <2>6, FS_Subset, FS_CardinalityType
  <2>8. QED
    BY <1>1, <2>5, <2>7
<1>4. QED
  BY <1>2, <1>3

\* With a host that hands over an order's confirmations one after the other, and
\* redelivers as it likes, an order never owns more rows than attendee specs.
\* Without that promise two of them both read 'no rows' and both mint.
THEOREM OrderMintsOnce == ConfirmsInTurn => (Spec => []MintsOnce)
<1> SUFFICES ASSUME ConfirmsInTurn PROVE Spec => []MintsOnce
  OBVIOUS
<1>1. Init => OnceInv
  BY AttendeeOf, AbsentRowType
     DEF Init, OnceInv, HandedInOrder, MintFindsNone, OneMint, Confirms
<1>2. IInv /\ WholeInv /\ OnceInv /\ [Next]_vars => OnceInv'
  BY HandedStep, FindsNoneStep, OneMintStep DEF WholeInv, OnceInv
<1>3. IInv /\ WholeInv /\ OnceInv => MintsOnce
  BY OnceImpliesMintsOnce DEF WholeInv, OnceInv
<1>4. QED
  BY <1>1, <1>2, <1>3, SaleSeamSafety, WholeAlways, PTL DEF Spec

\* A consumed payment leaves nothing to pay, and no confirmation to come.
PaidInv ==
    /\ HandedInOrder
    /\ \A d \in Deliveries : d.verb = "paid" /\ Key(d) \in inbox =>
          /\ Unpaid(d.order) = {}
          /\ \A c \in Deliveries : Confirms(c, d.order) => Key(c) \in inbox

LEMMA PaidStep ==
    ASSUME PaidComesLast, IInv, PaidInv, [Next]_vars
    PROVE  PaidInv'
<1>1. HandedInOrder'
  BY HandedStep DEF PaidInv
<1>2. ASSUME NEW d \in Deliveries, d.verb = "paid", Key(d) \in inbox'
      PROVE  /\ \A c \in Deliveries : Confirms(c, d.order) => Key(c) \in inbox
             /\ Unpaid(d.order) = {} \/ \E t \in Txs : PaidCommit(t) /\ delivery[t].order = d.order
  <2>1. CASE Key(d) \in inbox
    BY <1>2, <2>1 DEF PaidInv
  <2>2. CASE Key(d) \notin inbox
    <3>1. PICK t \in Txs :
            /\ Key(d) = Key(delivery[t])
            /\ MintCommit(t) \/ HealConfirmed(t) \/ CancelCascade(t) \/ PaidCommit(t)
      BY <1>2, <2>2, Consumes
    <3>2. delivery[t] \in Deliveries /\ delivery[t].verb = "paid" /\ delivery[t].order = d.order
      BY <1>2, <3>1, DeliveryType, SameKey
    <3>3. PaidCommit(t) /\ pc[t] = "healed"
      BY <3>1, <3>2 DEF MintCommit, HealConfirmed, CancelCascade, PaidCommit, IInv, SessionOK
    <3>4. \A c \in Deliveries : Confirms(c, d.order) => <<c, delivery[t]>> \in Before
      BY <3>2 DEF PaidComesLast
    <3>5. \A c \in Deliveries : Confirms(c, d.order) => Key(c) \in inbox
      BY <3>3, <3>4 DEF PaidInv, HandedInOrder
    <3>6. QED
      BY <3>2, <3>3, <3>5
  <2>3. QED
    BY <2>1, <2>2
<1>3. ASSUME NEW d \in Deliveries, d.verb = "paid", Key(d) \in inbox', NEW r \in Regs,
             r \in Unpaid(d.order)'
      PROVE  FALSE
  <2> DEFINE o == d.order
  <2>1. /\ registrations'[r].state # "absent" /\ registrations'[r].order = o
        /\ registrations'[r].active /\ registrations'[r].sale_status = "to_pay"
    BY <1>3 DEF Unpaid, ActiveLinked, Linked
  <2>2. ASSUME NEW t \in Txs, pc[t] \in {"confirmed", "mint", "heal"}
        PROVE  delivery[t].order # o
    BY <1>2, <1>3, <2>2, DeliveryType DEF Confirms, IInv, SessionOK, ClaimsExclusive
  <2>3. o \in Orders /\ o # NoOrder
    BY SaleSeamAssumption
  <2>4. registrations[r].state # "absent"
    <3>1. SUFFICES ASSUME registrations[r].state = "absent" PROVE FALSE
      OBVIOUS
    <3>2. PICK t \in Txs : MintCommit(t) /\ r \in Attendees(delivery[t])
      BY <2>1, <2>3, <3>1, NewRows
    <3>3. \A p : p = delivery[t].order => r \in Linked(p)'
      BY <3>2, MintLinks
    <3>4. QED
      BY <2>1, <2>2, <3>2, <3>3 DEF Linked, MintCommit
  <2>5. registrations[r].order = o /\ registrations[r].active /\ registrations[r] \in Row
    BY <2>1, <2>4, RowsStay DEF IInv, TypeOK
  <2>6. ASSUME NEW t \in Txs, Seam(t)
        PROVE  registrations[r].sale_status = "to_pay" /\ ~(PaidCommit(t) /\ delivery[t].order = o)
    <3>1. CASE MintCommit(t)
      BY <2>1, <2>4, <3>1, MintCommitDoes DEF PaidCommit
    <3>2. CASE HealConfirmed(t)
      <4>1. ~Rewrites(t, r)
        BY <2>2, <2>5, <3>2, RewrittenRow DEF HealConfirmed
      <4>2. QED
        BY <2>1, <3>2, <4>1, HealConfirmedDoes DEF HealConfirmed, PaidCommit
    <3>3. CASE CancelCascade(t)
      BY <2>1, <3>3, CancelCascadeDoes DEF CancelCascade, PaidCommit
    <3>4. CASE PaidCommit(t)
      <4>1. registrations'[r] = registrations[r] /\ r \notin Unpaid(delivery[t].order)
        BY <2>1, <3>4, PaidCommitDoes
      <4>2. QED
        BY <2>1, <2>4, <2>5, <4>1 DEF Unpaid, ActiveLinked, Linked
    <3>5. CASE \/ (\E c \in Deliveries : Claim(t, c)) \/ ReadLinked(t) \/ MintSpec(t)
               \/ MintRefused(t) \/ PaidHeal(t) \/ DeadlockVictim(t)
      <4>1. UNCHANGED registrations
        BY <3>5 DEF Claim, ReadLinked, MintSpec, MintRefused, PaidHeal, DeadlockVictim, Abort, rows
      <4>2. ~PaidCommit(t)
        <5>1. inbox' = inbox
          BY <3>5 DEF Claim, ReadLinked, MintSpec, MintRefused, PaidHeal, DeadlockVictim, Abort
        <5>2. pc[t] = "healed" => Key(delivery[t]) \notin inbox
          BY DEF IInv, ClaimsExclusive
        <5>3. QED
          BY <5>1, <5>2 DEF PaidCommit, Commit
      <4>3. QED
        BY <2>1, <4>1, <4>2
    <3>6. QED
      BY <2>6, <3>1, <3>2, <3>3, <3>4, <3>5 DEF Seam
  <2>7. ASSUME ~(\E t \in Txs : Seam(t))
        PROVE  registrations[r].sale_status = "to_pay"
    <3>1. ASSUME NEW w \in WalkIns, NEW e \in Events, WalkIn(w, e)
          PROVE  registrations'[r] = registrations[r]
      BY <2>4, <3>1, WalkInDoes
    <3>2. ASSUME NEW q \in Regs, Archive(q)
          PROVE  registrations'[r].sale_status = registrations[r].sale_status
      BY <2>5, <3>2, ArchiveDoes DEF Row
    <3>3. ASSUME NEW q \in Regs, NEW to \in RegState, Transition(q, to)
          PROVE  registrations'[r].sale_status = registrations[r].sale_status
      <4>1. \/ registrations'[r] = registrations[r]
            \/ registrations'[r] = [registrations[r] EXCEPT !.state = to]
        BY <3>3, TransitionDoes
      <4>2. QED
        BY <2>5, <4>1 DEF Row
    <3>4. CASE Others \/ UNCHANGED vars
      BY <2>1, <3>4 DEF Others, Selling, SetSale, CloseMails, CloseLeads, vars, rows
    <3>5. QED
      BY <2>1, <2>7, <3>1, <3>2, <3>3, <3>4 DEF Next, Officer, Counter
  <2>8. r \in Unpaid(o)
    BY <2>4, <2>5, <2>6, <2>7 DEF Unpaid, ActiveLinked, Linked
  <2>9. PICK t \in Txs : PaidCommit(t) /\ delivery[t].order = o
    BY <1>2, <1>3, <2>8
  <2>10. Seam(t)
    BY <2>9 DEF Seam
  <2>11. QED
    BY <2>6, <2>9, <2>10
<1>4. \A d \in Deliveries : Unpaid(d.order)' \subseteq Regs
  BY DEF Unpaid, ActiveLinked, Linked
<1>5. QED
  BY <1>1, <1>2, <1>3, <1>4, Consumes DEF PaidInv

\* With a host that hands over the payment after the confirmations, nobody who
\* paid stays held once the payment is consumed, whatever cancels, officers and
\* walk-ins run beside it.  Without that promise a late heal holds a paid row.
THEOREM PaidStrandsNobody == PaidComesLast => (Spec => []PaidNeverStrands)
<1> SUFFICES ASSUME PaidComesLast PROVE Spec => []PaidNeverStrands
  OBVIOUS
<1>1. Init => PaidInv
  BY DEF Init, PaidInv, HandedInOrder
<1>2. IInv /\ PaidInv /\ [Next]_vars => PaidInv'
  BY PaidStep
<1>3. PaidInv => PaidNeverStrands
  BY DEF PaidInv, PaidNeverStrands
<1>4. QED
  BY <1>1, <1>2, <1>3, SaleSeamSafety, PTL DEF Spec

-----------------------------------------------------------------------------
(* The seats of a mint                                                     *)

LEMMA RegsFinite == IsFiniteSet(Regs)
<1> DEFINE C == {d \in Deliveries : d.verb = "confirmed"}
           f == [d \in C |-> Attendees(d)]
           U == {Attendees(d) : d \in C}
<1>1. IsFiniteSet(C)
  BY SaleSeamAssumption, FS_Subset
<1>2. f \in Surjection(C, U)
  BY DEF Surjection
<1>3. IsFiniteSet(U)
  BY <1>1, <1>2, FS_Surjection
<1>4. \A T \in U : IsFiniteSet(T)
  <2>1. \A d \in C : IsFiniteSet(Attendees(d))
    BY AttendeesCount DEF Attendees
  <2>2. QED
    BY <2>1
<1>5. IsFiniteSet(UNION U)
  BY <1>3, <1>4, FS_UNION
<1>6. QED
  BY <1>5, SaleSeamAssumption, FS_Union DEF Regs

LEMMA HoldingCount ==
    ASSUME NEW S \in SUBSET Regs
    PROVE  /\ IsFiniteSet(S) /\ Cardinality(S) \in Nat
           /\ \A T \in SUBSET S : Cardinality(T) \in Nat /\ Cardinality(T) <= Cardinality(S)
<1>1. IsFiniteSet(S)
  BY RegsFinite, FS_Subset
<1>2. QED
  BY <1>1, FS_Subset, FS_CardinalityType

\* The specs of an event that a session has minted.
Own(t, e) == {i \in 1..minted[t] : Specs[delivery[t].order][i] = e}

\* A mint has counted the seats of the events it holds, its own among them, and
\* they are still there.
RoomKept ==
    \A t \in Txs, e \in Events : eventLock[e] = t /\ seats_max[e] > 0 =>
        SeatsSeen(t, e) <= seats_max[e]

\* With MintsBeforeLifts: who mints holds a first confirmation, who lifts does
\* not, and only first confirmations have minted.
FirstsMint ==
    /\ \A t \in Txs :
          /\ pc[t] = "mint" => FirstConfirm(delivery[t])
          /\ pc[t] \in {"heal", "paid", "healed"} => ~FirstConfirm(delivery[t])
    /\ \A d \in Deliveries : d.verb = "confirmed" =>
          \A r \in Attendees(d) : registrations[r].state # "absent" => FirstConfirm(d)

FitsInv == HandedInOrder /\ FirstsMint

LEMMA FirstsStep ==
    ASSUME MintsBeforeLifts, IInv, WholeInv, FitsInv, [Next]_vars
    PROVE  FirstsMint'
<1>1. ASSUME NEW t \in Txs, ReadLinked(t)
      PROVE  (pc'[t] = "mint" <=> FirstConfirm(delivery[t])) /\ delivery'[t] = delivery[t]
  <2> DEFINE d == delivery[t]
  <2>1. /\ d \in Deliveries /\ d.verb = "confirmed" /\ Key(d) \notin inbox /\ pc[t] # "idle"
        /\ pc'[t] = IF Linked(d.order) = {} THEN "mint" ELSE "heal"
        /\ delivery'[t] = delivery[t]
    BY <1>1, DeliveryType DEF ReadLinked, Goto, IInv, TypeOK, SessionOK, ClaimsExclusive
  <2>2. ASSUME ~FirstConfirm(d) PROVE Linked(d.order) # {}
    <3>1. PICK c \in Deliveries : Confirms(c, d.order) /\ <<c, d>> \in Before
      BY <2>1, <2>2 DEF FirstConfirm
    <3>2. Key(c) \in inbox
      BY <2>1, <3>1 DEF FitsInv, HandedInOrder
    <3>3. QED
      BY <3>1, <3>2 DEF WholeInv, MintIsWhole, Confirms
  <2>3. ASSUME FirstConfirm(d), NEW r \in Linked(d.order) PROVE FALSE
    <3>1. r \in Regs /\ registrations[r].state # "absent" /\ registrations[r].order = d.order
      BY DEF Linked
    <3>2. d.order \in Orders /\ d.order # NoOrder
      BY <2>1, SaleSeamAssumption
    <3>3. PICK c \in Deliveries : c.verb = "confirmed" /\ r \in Attendees(c)
      BY <3>1, <3>2 DEF Regs, WholeInv, RowsNameOrders
    <3>4. c.order = d.order /\ FirstConfirm(c) /\ Key(c) \in inbox
      BY <3>1, <3>3 DEF WholeInv, RowsNameOrders, FitsInv, FirstsMint, IInv, MintedIsConsumed
    <3>5. c = d
      BY <2>1, <2>3, <3>3, <3>4 DEF MintsBeforeLifts
    <3>6. QED
      BY <2>1, <3>4, <3>5
  <2>4. QED
    BY <2>1, <2>2, <2>3
<1>2. ASSUME NEW t \in Txs
      PROVE  /\ pc'[t] = "mint" => FirstConfirm(delivery'[t])
             /\ pc'[t] \in {"heal", "paid", "healed"} => ~FirstConfirm(delivery'[t])
  <2>1. CASE ReadLinked(t)
    <3>1. pc'[t] \in {"mint", "heal"}
      BY <2>1 DEF ReadLinked, Goto, IInv, TypeOK
    <3>2. QED
      BY <1>1, <2>1, <3>1
  <2>2. CASE \E d \in Deliveries : Claim(t, d) /\ pc'[t] = d.verb /\ delivery'[t] = d
    BY <2>2, SaleSeamAssumption DEF FirstConfirm
  <2>3. QED
    BY <2>1, <2>2, SessionStep DEF FitsInv, FirstsMint, MintSpec, PaidHeal
<1>3. ASSUME NEW d \in Deliveries, d.verb = "confirmed", NEW r \in Attendees(d),
             registrations'[r].state # "absent"
      PROVE  FirstConfirm(d)
  <2>1. CASE registrations[r].state # "absent"
    BY <1>3, <2>1 DEF FitsInv, FirstsMint
  <2>2. CASE registrations[r].state = "absent"
    <3>1. r \in Regs /\ r \notin WalkIns /\ registrations'[r] # registrations[r]
      BY <1>3, <2>2, AttendeeOf
    <3>2. PICK t \in Txs : MintCommit(t) /\ r \in Attendees(delivery[t])
      BY <1>3, <2>2, <3>1, NewRows
    <3>3. delivery[t] = d /\ pc[t] = "mint"
      BY <1>3, <3>2, AttendeeOf, MintCommitDoes
    <3>4. QED
      BY <3>3 DEF FitsInv, FirstsMint
  <2>3. QED
    BY <2>1, <2>2
<1>4. FirstsMint!1'
  BY <1>2
<1>5. FirstsMint!2'
  BY <1>3
<1>6. QED
  BY <1>4, <1>5 DEF FirstsMint

\* Beside a mint no fact lifts a row.
LEMMA NoLiftBesideMint ==
    ASSUME MintsBeforeLifts, IInv, FitsInv, NEW t \in Txs, NEW u \in Txs,
           pc[t] = "mint", pc[u] \in {"heal", "paid", "healed"}
    PROVE  FALSE
<1>1. /\ delivery[t] \in Deliveries /\ FirstConfirm(delivery[t]) /\ Key(delivery[t]) \notin inbox
      /\ delivery[u] \in Deliveries /\ ~FirstConfirm(delivery[u])
      /\ delivery[u].verb # "cancelled"
  BY DeliveryType DEF IInv, ClaimsExclusive, SessionOK, FitsInv, FirstsMint
<1>2. <<delivery[t], delivery[u]>> \in Before
  BY <1>1 DEF MintsBeforeLifts
<1>3. QED
  BY <1>1, <1>2 DEF FitsInv, HandedInOrder

\* While a mint holds an event, nobody else adds a seat there.
LEMMA HeldEventGrowsByItsMint ==
    ASSUME MintsBeforeLifts, IInv, FitsInv, [Next]_vars, NEW t \in Txs, NEW e \in Events,
           eventLock[e] = t, NEW r \in Regs, r \in Holding(e)', r \notin Holding(e)
    PROVE  MintCommit(t)
<1>1. /\ registrations'[r].event = e /\ registrations'[r].active
      /\ registrations'[r].state \in SeatState
      /\ ~(registrations[r].event = e /\ registrations[r].state \in SeatState
             /\ registrations[r].active)
  BY DEF Holding, HoldsSeat
<1>2. registrations[r] \in Row /\ registrations'[r] # registrations[r]
  BY <1>1 DEF IInv, TypeOK
<1>3. pc[t] = "mint" /\ eventLock[e] # Free
  BY SaleSeamAssumption DEF IInv, LocksHeld
<1>4. ASSUME NEW u \in Txs, Seam(u)
      PROVE  MintCommit(t)
  <2>1. CASE MintCommit(u)
    <3> DEFINE o == delivery[u].order
    <3>1. r \in Attendees(delivery[u])
      BY <1>2, <2>1, MintCommitDoes
    <3>2. /\ r[2] \in 1..Len(Specs[o]) /\ minted[u] = Len(Specs[o]) /\ pc[u] = "mint"
          /\ registrations'[r] = NewRow(Specs[o][r[2]], o, BornState(o), "sale",
                                        IF o \in FreeOrders THEN "free" ELSE "to_pay")
      BY <2>1, <3>1, MintCommitDoes
    <3>3. Specs[o][r[2]] = e
      BY <1>1, <3>2 DEF NewRow
    <3>4. eventLock[e] = u
      BY <3>2, <3>3 DEF IInv, LocksHeld
    <3>5. QED
      BY <2>1, <3>4
  <2>2. CASE HealConfirmed(u) \/ PaidCommit(u)
    BY <1>3, <2>2, NoLiftBesideMint DEF HealConfirmed, PaidCommit
  <2>3. CASE CancelCascade(u)
    BY <1>1, <1>2, <2>3, CancelCascadeDoes DEF SeatState
  <2>4. CASE \/ (\E d \in Deliveries : Claim(u, d)) \/ ReadLinked(u) \/ MintSpec(u)
             \/ MintRefused(u) \/ PaidHeal(u) \/ DeadlockVictim(u)
    BY <1>2, <2>4 DEF Claim, ReadLinked, MintSpec, MintRefused, PaidHeal, DeadlockVictim,
                      Abort, rows
  <2>5. QED
    BY <1>4, <2>1, <2>2, <2>3, <2>4 DEF Seam
<1>5. ASSUME NEW w \in WalkIns, NEW f \in Events, WalkIn(w, f)
      PROVE  FALSE
  <2>1. r = w
    BY <1>2, <1>5, WalkInDoes
  <2>2. registrations'[r] = NewRow(f, NoOrder, "open", "none", "none")
    BY <1>5, <2>1, WalkInDoes
  <2>3. f = e
    BY <1>1, <2>2 DEF NewRow
  <2>4. QED
    BY <1>3, <1>5, <2>3 DEF WalkIn
<1>6. ASSUME NEW s \in Regs, Archive(s)
      PROVE  FALSE
  <2>1. registrations'[r] = [registrations[r] EXCEPT !.active = FALSE]
    BY <1>2, <1>6, ArchiveDoes
  <2>2. QED
    BY <1>1, <1>2, <2>1 DEF Row
<1>7. ASSUME NEW s \in Regs, NEW to \in RegState, Transition(s, to)
      PROVE  FALSE
  <2>1. /\ s = r /\ registrations'[r] = [registrations[r] EXCEPT !.state = to]
        /\ registrations[r].state # "absent"
    BY <1>2, <1>7, TransitionDoes
  <2>2. /\ registrations[r].event = e /\ to \in SeatState
        /\ registrations[r].active
    BY <1>1, <1>2, <2>1 DEF Row
  <2>3. registrations[r].state \in {"draft", "cancel"}
    BY <1>1, <1>2, <2>1, <2>2 DEF Row, RegState, SeatState
  <2>4. eventLock[e] = Free
    BY <1>7, <2>1, <2>2, <2>3 DEF Transition
  <2>5. QED
    BY <1>3, <2>4
<1>8. CASE Others \/ UNCHANGED vars
  BY <1>2, <1>8 DEF Others, Selling, SetSale, CloseMails, CloseLeads, vars, rows
<1>9. QED
  BY <1>4, <1>5, <1>6, <1>7, <1>8 DEF Next, Officer, Counter

\* What a session counts of its own.
LEMMA OwnCount ==
    ASSUME IInv, NEW t \in Txs, NEW e \in Events
    PROVE  /\ IsFiniteSet(Own(t, e)) /\ Cardinality(Own(t, e)) \in Nat
           /\ Cardinality(Holding(e)) \in Nat /\ SeatsSeen(t, e) \in Nat
           /\ Cardinality(Holding(e)) <= SeatsSeen(t, e)
           /\ SeatsSeen(t, e) = Cardinality(Holding(e)) +
                 (IF BornState(delivery[t].order) = "open" THEN Cardinality(Own(t, e)) ELSE 0)
<1>1. minted[t] \in Nat
  BY DEF IInv, TypeOK
<1>2. IsFiniteSet(1..minted[t])
  BY <1>1, FS_Interval
<1>3. IsFiniteSet(Own(t, e)) /\ Cardinality(Own(t, e)) \in Nat
  BY <1>2, FS_Subset, FS_CardinalityType DEF Own
<1>4. Cardinality(Holding(e)) \in Nat
  BY HoldingCount DEF Holding
<1>5. SeatsSeen(t, e) = Cardinality(Holding(e)) +
         (IF BornState(delivery[t].order) = "open" THEN Cardinality(Own(t, e)) ELSE 0)
  BY DEF SeatsSeen, Own
<1>6. QED
  BY <1>3, <1>4, <1>5

LEMMA RoomStep ==
    ASSUME MintsBeforeLifts, IInv, FitsInv, RoomKept, [Next]_vars
    PROVE  RoomKept'
<1> SUFFICES ASSUME NEW t \in Txs, NEW e \in Events, eventLock'[e] = t, seats_max[e] > 0
             PROVE  SeatsSeen(t, e)' <= seats_max[e]
  BY DEF RoomKept
<1>1. IInv' /\ seats_max[e] \in Nat
  BY NextIInv, SaleSeamAssumption
<1>2. pc'[t] = "mint" /\ \E i \in 1..minted'[t] : Specs[delivery'[t].order][i] = e
  BY <1>1 DEF IInv, LocksHeld
<1>3. CASE ReadLinked(t)
  <2>1. pc[t] = "confirmed" /\ minted' = minted
    BY <1>3 DEF ReadLinked
  <2>2. minted[t] \in Nat /\ minted[t] <= 0
    BY <2>1 DEF IInv, TypeOK, SessionOK
  <2>3. QED
    BY <1>2, <2>1, <2>2
<1>4. CASE MintSpec(t)
  <2> DEFINE o == delivery[t].order
             n == minted[t] + 1
  <2>1. /\ pc[t] = "mint" /\ eventLock' = [eventLock EXCEPT ![SpecEvent(t)] = t]
        /\ ~Exhausted(SpecEvent(t), SeatsSeen(t, SpecEvent(t)))
        /\ minted' = [minted EXCEPT ![t] = n] /\ UNCHANGED <<registrations, delivery>>
    BY <1>4 DEF MintSpec, rows
  <2>2. minted[t] \in Nat /\ minted'[t] = n /\ SpecEvent(t) = Specs[o][n]
    BY <2>1 DEF IInv, TypeOK, SpecEvent
  <2>3. Holding(e)' = Holding(e) /\ delivery'[t] = delivery[t]
    BY <2>1 DEF Holding
  <2>4. Own(t, e)' = {i \in 1..n : Specs[o][i] = e}
    BY <2>2, <2>3 DEF Own
  <2>5. SeatsSeen(t, e)' = Cardinality(Holding(e)) +
           (IF BornState(o) = "open" THEN Cardinality(Own(t, e)') ELSE 0)
    <3>1. SeatsSeen(t, e)' = Cardinality(Holding(e)') +
             (IF BornState(delivery'[t].order) = "open" THEN Cardinality(Own(t, e)') ELSE 0)
      BY DEF SeatsSeen, Own, BornState
    <3>2. QED
      BY <2>3, <3>1
  <2>6. CASE e = SpecEvent(t)
    <3>1. SeatsSeen(t, e) < seats_max[e]
      <4>1. ~Exhausted(e, SeatsSeen(t, e))
        BY <2>1, <2>6
      <4>2. SeatsSeen(t, e) \in Nat
        BY OwnCount
      <4>3. QED
        BY <1>1, <4>1, <4>2 DEF Exhausted
    <3>2. Own(t, e)' = Own(t, e) \cup {n} /\ n \notin Own(t, e)
      BY <2>2, <2>4, <2>6 DEF Own
    <3>3. Cardinality(Own(t, e)') = Cardinality(Own(t, e)) + 1
      <4>1. Cardinality(Own(t, e) \cup {n}) =
              IF n \in Own(t, e) THEN Cardinality(Own(t, e)) ELSE Cardinality(Own(t, e)) + 1
        BY OwnCount, FS_AddElement
      <4>2. QED
        BY <3>2, <4>1
    <3>4. QED
      BY <1>1, <2>5, <3>1, <3>3, OwnCount
  <2>7. CASE e # SpecEvent(t)
    <3>1. eventLock[e] = t
      BY <2>1, <2>7 DEF IInv, TypeOK
    <3>2. Own(t, e)' = Own(t, e)
      BY <2>2, <2>4, <2>7 DEF Own
    <3>3. SeatsSeen(t, e) <= seats_max[e]
      BY <3>1 DEF RoomKept
    <3>4. QED
      BY <2>5, <3>2, <3>3, OwnCount
  <2>8. QED
    BY <2>6, <2>7
<1>5. CASE /\ pc[t] = "mint" /\ delivery'[t] = delivery[t] /\ minted'[t] = minted[t]
           /\ ~MintSpec(t)
  <2>1. eventLock[e] = t
    <3>1. PICK i \in 1..minted'[t] : Specs[delivery'[t].order][i] = e
      BY <1>2
    <3>2. QED
      BY <1>5, <3>1 DEF IInv, LocksHeld
  <2>2. ~MintCommit(t)
    <3>1. MintCommit(t) => EndSession(t)
      BY DEF MintCommit, Commit
    <3>2. QED
      BY <1>2, <3>1, EndSessionDoes DEF IInv
  <2>3. Holding(e)' \subseteq Holding(e)
    BY <2>1, <2>2, HeldEventGrowsByItsMint DEF Holding
  <2>4. /\ Cardinality(Holding(e)) \in Nat /\ Cardinality(Holding(e)') \in Nat
        /\ Cardinality(Holding(e)') <= Cardinality(Holding(e))
    BY <2>3, HoldingCount DEF Holding
  <2>5. Own(t, e)' = Own(t, e)
    BY <1>5 DEF Own
  <2>6. SeatsSeen(t, e)' = Cardinality(Holding(e)') +
           (IF BornState(delivery[t].order) = "open" THEN Cardinality(Own(t, e)) ELSE 0)
    <3>1. SeatsSeen(t, e)' = Cardinality(Holding(e)') +
             (IF BornState(delivery'[t].order) = "open" THEN Cardinality(Own(t, e)') ELSE 0)
      BY DEF SeatsSeen, Own, BornState
    <3>2. QED
      BY <1>5, <2>5, <3>1
  <2>7. SeatsSeen(t, e) <= seats_max[e]
    BY <2>1 DEF RoomKept
  <2>8. QED
    BY <1>1, <2>4, <2>6, <2>7, OwnCount
<1>6. QED
  BY <1>2, <1>3, <1>4, <1>5, SessionStep, SaleSeamAssumption

\* A mint that commits leaves every event it enters within its cap.
LEMMA MintFits ==
    ASSUME IInv, RoomKept, NEW t \in Txs, MintCommit(t), NEW e \in Events, seats_max[e] > 0,
           eventLock[e] = t, BornState(delivery[t].order) = "open"
    PROVE  Cardinality(Holding(e)') <= seats_max[e]
<1> DEFINE d == delivery[t]
           o == d.order
           S == {i \in DOMAIN Specs[o] : Specs[o][i] = e}
           A == {<<d, i>> : i \in S}
<1>1. d \in Deliveries /\ minted[t] = Len(Specs[o]) /\ DOMAIN Specs[o] = 1..Len(Specs[o])
  BY MintCommitDoes, DeliveryType, SpecsType
<1>2. S = Own(t, e) /\ seats_max[e] \in Nat
  BY <1>1, SaleSeamAssumption DEF Own
<1>3. ASSUME NEW r \in Holding(e)'
      PROVE  r \in Holding(e) \cup A
  <2>1. r \in Regs /\ registrations'[r].event = e /\ HoldsSeat(registrations'[r])
    BY DEF Holding
  <2>2. CASE r \in Attendees(d)
    <3>1. PICK i \in DOMAIN Specs[o] : r = <<d, i>>
      BY <2>2 DEF Attendees
    <3>2. registrations'[r] = NewRow(Specs[o][r[2]], o, BornState(o), "sale",
                                    IF o \in FreeOrders THEN "free" ELSE "to_pay")
      BY <2>2, MintCommitDoes
    <3>3. Specs[o][i] = e
      BY <2>1, <3>1, <3>2 DEF NewRow
    <3>4. QED
      BY <3>1, <3>3
  <2>3. CASE r \notin Attendees(d)
    BY <2>1, <2>3, MintCommitDoes DEF Holding
  <2>4. QED
    BY <2>2, <2>3
<1>4. /\ IsFiniteSet(A) /\ Cardinality(A) \in Nat /\ Cardinality(A) <= Cardinality(S)
      /\ Cardinality(S) \in Nat
  BY <1>1, AttendeesCount
<1>5. IsFiniteSet(Holding(e)) /\ Cardinality(Holding(e)) \in Nat
  BY HoldingCount DEF Holding
<1>6. /\ IsFiniteSet(Holding(e) \cup A)
      /\ Cardinality(Holding(e) \cup A) <= Cardinality(Holding(e)) + Cardinality(A)
      /\ Cardinality(Holding(e) \cup A) \in Nat
  <2>1. /\ IsFiniteSet(Holding(e) \cup A)
        /\ Cardinality(Holding(e) \cup A) = Cardinality(Holding(e)) + Cardinality(A)
                                               - Cardinality(Holding(e) \cap A)
    BY <1>4, <1>5, FS_Union
  <2>2. Cardinality(Holding(e) \cap A) \in Nat /\ Cardinality(Holding(e) \cup A) \in Nat
    BY <1>5, <2>1, FS_Intersection, FS_CardinalityType
  <2>3. QED
    BY <1>4, <1>5, <2>1, <2>2
<1>7. /\ Cardinality(Holding(e)') <= Cardinality(Holding(e) \cup A)
      /\ Cardinality(Holding(e)') \in Nat
  <2>1. Holding(e)' \subseteq Holding(e) \cup A
    BY <1>3
  <2>2. QED
    BY <1>6, <2>1, FS_Subset, FS_CardinalityType
<1>8. Cardinality(Holding(e)) + Cardinality(S) <= seats_max[e]
  BY <1>2, OwnCount DEF RoomKept
<1>9. QED
  BY <1>2, <1>4, <1>5, <1>6, <1>7, <1>8

\* A walk-in leaves its event within its cap.
LEMMA WalkInFits ==
    ASSUME IInv, NEW w \in WalkIns, NEW e \in Events, WalkIn(w, e), seats_max[e] > 0
    PROVE  Cardinality(Holding(e)') <= seats_max[e]
<1>1. IsFiniteSet(Holding(e)) /\ Cardinality(Holding(e)) \in Nat /\ seats_max[e] \in Nat
  BY HoldingCount, SaleSeamAssumption DEF Holding
<1>2. Cardinality(Holding(e)) + 1 <= seats_max[e]
  BY <1>1 DEF WalkIn, Exhausted
<1>3. Holding(e)' \subseteq Holding(e) \cup {w}
  BY WalkInDoes DEF Holding
<1>4. /\ IsFiniteSet(Holding(e) \cup {w}) /\ Cardinality(Holding(e) \cup {w}) \in Nat
      /\ Cardinality(Holding(e) \cup {w}) <= Cardinality(Holding(e)) + 1
  <2>1. /\ IsFiniteSet(Holding(e) \cup {w})
        /\ Cardinality(Holding(e) \cup {w}) =
             IF w \in Holding(e) THEN Cardinality(Holding(e)) ELSE Cardinality(Holding(e)) + 1
    BY <1>1, FS_AddElement
  <2>2. QED
    BY <1>1, <2>1
<1>5. Cardinality(Holding(e)') <= Cardinality(Holding(e) \cup {w}) /\ Cardinality(Holding(e)') \in Nat
  BY <1>3, <1>4, FS_Subset, FS_CardinalityType
<1>6. QED
  BY <1>1, <1>2, <1>4, <1>5

LEMMA MintWithinCapStep ==
    ASSUME IInv, RoomKept, [Next]_vars, NEW r \in Regs, Enters(r),
           registrations[r].state = "absent"
    PROVE  WithinCap(registrations[r].event)'
<1>1. /\ registrations'[r].state \in SeatState
      /\ registrations'[r] # registrations[r] /\ registrations'[r].state # "absent"
  BY DEF Enters, HoldsSeat, SeatState
<1>2. PICK e \in Events : e = registrations'[r].event
  BY NextIInv DEF IInv, TypeOK, Row
<1>3. SUFFICES ASSUME seats_max[e] > 0 PROVE Cardinality(Holding(e)') <= seats_max[e]
  BY <1>2 DEF WithinCap, Holding
<1>4. ASSUME NEW t \in Txs, MintCommit(t)
      PROVE  Cardinality(Holding(e)') <= seats_max[e]
  <2> DEFINE o == delivery[t].order
  <2>1. r \in Attendees(delivery[t])
    BY <1>1, <1>4, MintCommitDoes
  <2>2. /\ r[2] \in 1..Len(Specs[o]) /\ minted[t] = Len(Specs[o]) /\ pc[t] = "mint"
        /\ registrations'[r] = NewRow(Specs[o][r[2]], o, BornState(o), "sale",
                                      IF o \in FreeOrders THEN "free" ELSE "to_pay")
    BY <1>4, <2>1, MintCommitDoes
  <2>3. Specs[o][r[2]] = e /\ BornState(o) = "open"
    BY <1>1, <1>2, <2>2 DEF NewRow, BornState, SeatState
  <2>4. eventLock[e] = t
    BY <2>2, <2>3 DEF IInv, LocksHeld
  <2>5. QED
    BY <1>2, <1>3, <1>4, <2>3, <2>4, MintFits
<1>5. ASSUME NEW w \in WalkIns, NEW f \in Events, WalkIn(w, f)
      PROVE  Cardinality(Holding(e)') <= seats_max[e]
  <2>1. r = w
    BY <1>1, <1>5, WalkInDoes
  <2>2. registrations'[r] = NewRow(f, NoOrder, "open", "none", "none")
    BY <1>5, <2>1, WalkInDoes
  <2>3. f = e
    BY <1>2, <2>2 DEF NewRow
  <2>4. QED
    BY <1>3, <1>5, <2>3, WalkInFits
<1>6. (\E t \in Txs : MintCommit(t)) \/ (\E w \in WalkIns, f \in Events : WalkIn(w, f))
  <2>1. CASE \E t \in Txs : Seam(t)
    <3>1. PICK t \in Txs : Seam(t)
      BY <2>1
    <3>2. CASE HealConfirmed(t) \/ PaidCommit(t) \/ CancelCascade(t)
      BY <1>1, <3>2, HealConfirmedDoes, PaidCommitDoes, CancelCascadeDoes, RewrittenRow
    <3>3. CASE \/ (\E d \in Deliveries : Claim(t, d)) \/ ReadLinked(t) \/ MintSpec(t)
               \/ MintRefused(t) \/ PaidHeal(t) \/ DeadlockVictim(t)
      BY <1>1, <3>3 DEF Claim, ReadLinked, MintSpec, MintRefused, PaidHeal, DeadlockVictim,
                        Abort, rows
    <3>4. QED
      BY <3>1, <3>2, <3>3 DEF Seam
  <2>2. ASSUME NEW s \in Regs, Archive(s) PROVE FALSE
    <3>1. registrations[r] \in Row
      BY DEF IInv, TypeOK
    <3>2. registrations'[r] = [registrations[r] EXCEPT !.active = FALSE]
      BY <1>1, <2>2, ArchiveDoes
    <3>3. QED
      BY <1>1, <3>1, <3>2 DEF Row
  <2>3. ASSUME NEW s \in Regs, NEW to \in RegState, Transition(s, to) PROVE FALSE
    BY <1>1, <2>3, TransitionDoes
  <2>4. CASE Others \/ UNCHANGED vars
    BY <1>1, <2>4 DEF Others, Selling, SetSale, CloseMails, CloseLeads, vars, rows
  <2>5. QED
    BY <2>1, <2>2, <2>3, <2>4 DEF Next, Officer, Counter
<1>7. QED
  BY <1>4, <1>5, <1>6

\* With a host that hands over the first confirmations before what lifts rows, a
\* mint never exceeds a cap, whatever officers, walk-ins, cancels and other mints
\* run beside it.  Without that promise a heal adds a seat to an event that a
\* mint has locked, since no heal takes the event's lock.
THEOREM MintsWithinCap == MintsBeforeLifts => (Spec => MintWithinCap)
<1> SUFFICES ASSUME MintsBeforeLifts PROVE Spec => MintWithinCap
  OBVIOUS
<1>1. Init => FitsInv /\ RoomKept
  <2>1. SUFFICES ASSUME Init PROVE FitsInv /\ RoomKept
    OBVIOUS
  <2>2. FitsInv
    BY <2>1, AttendeeOf, AbsentRowType DEF Init, FitsInv, HandedInOrder, FirstsMint
  <2>3. RoomKept
    BY <2>1, SaleSeamAssumption DEF Init, RoomKept
  <2>4. QED
    BY <2>2, <2>3
<1>2. IInv /\ WholeInv /\ FitsInv /\ RoomKept /\ [Next]_vars => FitsInv' /\ RoomKept'
  BY HandedStep, FirstsStep, RoomStep DEF FitsInv
<1>3. IInv /\ RoomKept /\ [Next]_vars =>
        \A r \in Regs : Enters(r) /\ registrations[r].state = "absent" =>
          WithinCap(registrations[r].event)'
  BY MintWithinCapStep
<1>4. QED
  BY <1>1, <1>2, <1>3, SaleSeamSafety, WholeAlways, PTL DEF Spec, MintWithinCap

-----------------------------------------------------------------------------
(* The history                                                             *)

\* The history watches and decides nothing, so what holds of the seam holds
\* with it.
LEMMA HistoryWatches == HistorySpec => Spec
<1>1. HistoryInit => Init
  BY DEF HistoryInit
<1>2. [Next /\ Remember]_historyVars => [Next]_vars
  BY DEF historyVars
<1>3. QED
  BY <1>1, <1>2, PTL DEF HistorySpec, Spec

\* A seat kept is remembered as it was; a new one is a lifted one if a heal ends.
LEMMA Remembers ==
    ASSUME Remember, NEW r \in Regs
    PROVE  /\ r \in lifted' => HoldsSeat(registrations'[r])
           /\ HoldsSeat(registrations'[r]) /\ HoldsSeat(registrations[r]) =>
                 (r \in lifted' <=> r \in lifted)
           /\ HoldsSeat(registrations'[r]) /\ ~HoldsSeat(registrations[r]) =>
                 (r \in lifted' <=> Heals)
<1>1. \A s \in Regs : s \in Seated <=> HoldsSeat(registrations[s])
  BY DEF Seated
<1>2. \A s \in Regs : s \in Seated' <=> HoldsSeat(registrations'[s])
  BY DEF Seated
<1>3. r \in lifted' <=> r \in Seated' /\ IF r \in Seated THEN r \in lifted ELSE Heals
  BY DEF Remember
<1>4. QED
  BY <1>1, <1>2, <1>3

\* Who heals and who does not.
LEMMA WhoHeals ==
    ASSUME IInv, NEW t \in Txs
    PROVE  /\ HealConfirmed(t) \/ PaidCommit(t) => Heals
           /\ MintCommit(t) \/ CancelCascade(t) => ~Heals
<1>1. ASSUME HealConfirmed(t) \/ PaidCommit(t) PROVE Heals
  <2>1. pc[t] \in {"heal", "healed"} /\ EndSession(t)
    BY <1>1 DEF HealConfirmed, PaidCommit, Commit
  <2>2. pc'[t] = "idle"
    BY <2>1, EndSessionDoes DEF IInv
  <2>3. QED
    BY <2>1, <2>2 DEF Heals
<1>2. ASSUME MintCommit(t) \/ CancelCascade(t) PROVE ~Heals
  <2>1. pc[t] \in {"mint", "cancelled"} /\ EndSession(t)
    BY <1>2 DEF MintCommit, CancelCascade, Commit
  <2>2. \A u \in Txs \ {t} : pc'[u] = pc[u]
    BY <2>1, EndSessionDoes DEF IInv
  <2>3. QED
    BY <2>1, <2>2 DEF Heals
<1>3. QED
  BY <1>1, <1>2

LEMMA BookedCount ==
    ASSUME NEW e \in Events
    PROVE  /\ IsFiniteSet(Booked(e)) /\ Cardinality(Booked(e)) \in Nat
           /\ Cardinality(Holding(e)) \in Nat
           /\ Cardinality(Booked(e)) <= Cardinality(Holding(e))
<1>1. Holding(e) \in SUBSET Regs /\ Booked(e) \in SUBSET Holding(e)
  BY DEF Holding, Booked
<1>2. QED
  BY <1>1, HoldingCount

\* A booked seat is new: a mint that holds the event booked it, or the officer
\* or the counter did, who found the event unlocked and not full.
LEMMA BookedGrows ==
    ASSUME IInv, Next, Remember, NEW e \in Events, NEW r \in Booked(e)', r \notin Booked(e)
    PROVE  \/ \E t \in Txs :
                 /\ MintCommit(t) /\ eventLock[e] = t /\ BornState(delivery[t].order) = "open"
                 /\ r \in {<<delivery[t], i>> : i \in Own(t, e)}
           \/ /\ eventLock[e] = Free /\ ~Exhausted(e, Cardinality(Holding(e)))
              /\ \A s \in Regs \ {r} : registrations'[s] = registrations[s]
<1>1. /\ r \in Regs /\ registrations'[r].event = e /\ HoldsSeat(registrations'[r])
      /\ r \notin lifted'
  BY DEF Booked, Holding
<1>2. registrations[r] \in Row
  BY <1>1 DEF IInv, TypeOK
<1>3. ~HoldsSeat(registrations[r])
  <2>1. SUFFICES ASSUME HoldsSeat(registrations[r]) PROVE FALSE
    OBVIOUS
  <2>2. registrations[r].event = e
    BY <1>1, <2>1, RowsStay DEF HoldsSeat, SeatState
  <2>3. r \notin lifted
    BY <1>1, <2>1, Remembers
  <2>4. QED
    BY <1>1, <2>1, <2>2, <2>3 DEF Booked, Holding
<1>4. ~Heals
  BY <1>1, <1>3, Remembers
<1>5. /\ registrations'[r].state \in SeatState /\ registrations'[r].active
      /\ ~(registrations[r].state \in SeatState /\ registrations[r].active)
      /\ registrations'[r] # registrations[r]
  BY <1>1, <1>3 DEF HoldsSeat
<1>6. ASSUME NEW t \in Txs, Seam(t)
      PROVE  /\ MintCommit(t) /\ eventLock[e] = t /\ BornState(delivery[t].order) = "open"
             /\ r \in {<<delivery[t], i>> : i \in Own(t, e)}
  <2>1. CASE MintCommit(t)
    <3> DEFINE o == delivery[t].order
    <3>1. r \in Attendees(delivery[t])
      BY <1>1, <1>5, <2>1, MintCommitDoes
    <3>2. /\ r[2] \in 1..Len(Specs[o]) /\ minted[t] = Len(Specs[o]) /\ pc[t] = "mint"
          /\ registrations'[r] = NewRow(Specs[o][r[2]], o, BornState(o), "sale",
                                        IF o \in FreeOrders THEN "free" ELSE "to_pay")
      BY <2>1, <3>1, MintCommitDoes
    <3>3. Specs[o][r[2]] = e /\ BornState(o) = "open"
      BY <1>1, <1>5, <3>2 DEF NewRow, BornState, SeatState
    <3>4. eventLock[e] = t
      BY <3>2, <3>3 DEF IInv, LocksHeld
    <3>5. r[2] \in Own(t, e) /\ r = <<delivery[t], r[2]>>
      BY <3>1, <3>2, <3>3 DEF Own, Attendees
    <3>6. QED
      BY <2>1, <3>3, <3>4, <3>5
  <2>2. CASE HealConfirmed(t) \/ PaidCommit(t)
    BY <1>4, <2>2, WhoHeals
  <2>3. CASE CancelCascade(t)
    BY <1>1, <1>5, <2>3, CancelCascadeDoes DEF SeatState
  <2>4. CASE \/ (\E d \in Deliveries : Claim(t, d)) \/ ReadLinked(t) \/ MintSpec(t)
             \/ MintRefused(t) \/ PaidHeal(t) \/ DeadlockVictim(t)
    BY <1>5, <2>4 DEF Claim, ReadLinked, MintSpec, MintRefused, PaidHeal, DeadlockVictim,
                      Abort, rows
  <2>5. QED
    BY <1>6, <2>1, <2>2, <2>3, <2>4 DEF Seam
<1>7. ASSUME NEW w \in WalkIns, NEW f \in Events, WalkIn(w, f)
      PROVE  /\ eventLock[e] = Free /\ ~Exhausted(e, Cardinality(Holding(e)))
             /\ \A s \in Regs \ {r} : registrations'[s] = registrations[s]
  <2>1. r = w
    BY <1>1, <1>5, <1>7, WalkInDoes
  <2>2. registrations'[r] = NewRow(f, NoOrder, "open", "none", "none")
    BY <1>7, <2>1, WalkInDoes
  <2>3. f = e
    BY <1>1, <2>2 DEF NewRow
  <2>4. QED
    BY <1>7, <2>1, <2>3, WalkInDoes DEF WalkIn
<1>8. ASSUME NEW s \in Regs, Archive(s)
      PROVE  FALSE
  <2>1. registrations'[r] = [registrations[r] EXCEPT !.active = FALSE]
    BY <1>1, <1>5, <1>8, ArchiveDoes
  <2>2. QED
    BY <1>5, <1>2, <2>1 DEF Row
<1>9. ASSUME NEW s \in Regs, NEW to \in RegState, Transition(s, to)
      PROVE  /\ eventLock[e] = Free /\ ~Exhausted(e, Cardinality(Holding(e)))
             /\ \A q \in Regs \ {r} : registrations'[q] = registrations[q]
  <2>1. /\ s = r /\ registrations'[r] = [registrations[r] EXCEPT !.state = to]
        /\ registrations[r].state # "absent"
    BY <1>1, <1>5, <1>9, TransitionDoes
  <2>2. registrations[r].event = e /\ to \in SeatState /\ registrations[r].active
    BY <1>1, <1>5, <1>2, <2>1 DEF Row
  <2>3. registrations[r].state \in {"draft", "cancel"}
    BY <1>5, <1>2, <2>1, <2>2 DEF Row, RegState, SeatState
  <2>4. QED
    BY <1>9, <2>1, <2>2, <2>3, TransitionDoes DEF Transition
<1>10. CASE Others
  BY <1>5, <1>10 DEF Others, Selling, SetSale, CloseMails, CloseLeads
<1>11. QED
  BY <1>6, <1>7, <1>8, <1>9, <1>10 DEF Next, Officer, Counter

\* A session has counted the booked seats of the events it holds beside its own:
\* a heal may have lifted others in since, and they are not booked.
BookedRoom ==
    \A t \in Txs, e \in Events : eventLock[e] = t /\ seats_max[e] > 0 =>
        Cardinality(Booked(e)) +
           (IF BornState(delivery[t].order) = "open" THEN Cardinality(Own(t, e)) ELSE 0)
        <= seats_max[e]

\* The rows the history names are seats, and an absent row is not active.
HistoryInv ==
    /\ lifted \subseteq Seated
    /\ \A r \in Regs : registrations[r].state = "absent" => ~registrations[r].active
    /\ BookedRoom
    /\ SeatsBeyondCapAreLifted

LEMMA BookedRoomStep ==
    ASSUME IInv, HistoryInv, Next, Remember
    PROVE  BookedRoom'
<1> SUFFICES ASSUME NEW t \in Txs, NEW e \in Events, eventLock'[e] = t, seats_max[e] > 0
             PROVE  BookedRoom!(t, e)!2'
  BY DEF BookedRoom
<1> DEFINE o == delivery[t].order
           b == Cardinality(Booked(e))
           c == Cardinality(Booked(e)')
           n == IF BornState(o) = "open" THEN Cardinality(Own(t, e)) ELSE 0
<1>1. IInv' /\ seats_max[e] \in Nat
  BY NextIInv, SaleSeamAssumption
<1>2. pc'[t] = "mint" /\ \E i \in 1..minted'[t] : Specs[delivery'[t].order][i] = e
  BY <1>1 DEF IInv, LocksHeld
<1>3. ~ReadLinked(t)
  <2>1. SUFFICES ASSUME ReadLinked(t) PROVE FALSE
    OBVIOUS
  <2>2. pc[t] = "confirmed" /\ minted' = minted
    BY <2>1 DEF ReadLinked
  <2>3. minted[t] \in Nat /\ minted[t] <= 0
    BY <2>2 DEF IInv, TypeOK, SessionOK
  <2>4. QED
    BY <1>2, <2>2, <2>3
<1>4. ~MintCommit(t)
  <2>1. MintCommit(t) => EndSession(t)
    BY DEF MintCommit, Commit
  <2>2. QED
    BY <1>2, <2>1, EndSessionDoes DEF IInv
<1>5. eventLock[e] \in {Free, t} /\ (eventLock[e] = t \/ MintSpec(t)) => c <= b /\ c \in Nat
  <2>1. SUFFICES ASSUME eventLock[e] = t \/ MintSpec(t) PROVE Booked(e)' \subseteq Booked(e)
    <3>1. Booked(e) \in SUBSET Regs
      BY DEF Booked, Holding
    <3>2. QED
      BY <2>1, <3>1, HoldingCount
  <2>2. CASE MintSpec(t)
    <3>1. UNCHANGED registrations
      BY <2>2 DEF MintSpec, rows
    <3>2. Holding(e)' = Holding(e)
      BY <3>1 DEF Holding
    <3>3. ASSUME NEW r \in Holding(e), r \in lifted PROVE r \in lifted'
      <4>1. r \in Regs /\ HoldsSeat(registrations[r]) /\ HoldsSeat(registrations'[r])
        BY <3>1 DEF Holding
      <4>2. QED
        BY <3>3, <4>1, Remembers
    <3>4. QED
      BY <3>2, <3>3 DEF Booked
  <2>3. CASE eventLock[e] = t
    BY <1>4, <2>3, BookedGrows, SaleSeamAssumption
  <2>4. QED
    BY <2>1, <2>2, <2>3
<1>6. b \in Nat /\ b <= Cardinality(Holding(e))
  BY BookedCount
<1>7. CASE MintSpec(t)
  <2> DEFINE k == minted[t] + 1
  <2>1. /\ pc[t] = "mint" /\ eventLock' = [eventLock EXCEPT ![SpecEvent(t)] = t]
        /\ eventLock[SpecEvent(t)] \in {Free, t}
        /\ ~Exhausted(SpecEvent(t), SeatsSeen(t, SpecEvent(t)))
        /\ minted' = [minted EXCEPT ![t] = k] /\ UNCHANGED <<registrations, delivery>>
    BY <1>7 DEF MintSpec, rows
  <2>2. minted[t] \in Nat /\ minted'[t] = k /\ SpecEvent(t) = Specs[o][k]
    BY <2>1 DEF IInv, TypeOK, SpecEvent
  <2>3. delivery'[t] = delivery[t] /\ Own(t, e)' = {i \in 1..k : Specs[o][i] = e}
    BY <2>1, <2>2 DEF Own
  <2>4. CASE e = SpecEvent(t)
    <3>1. SeatsSeen(t, e) < seats_max[e]
      <4>1. ~Exhausted(e, SeatsSeen(t, e))
        BY <2>1, <2>4
      <4>2. SeatsSeen(t, e) \in Nat
        BY OwnCount
      <4>3. QED
        BY <1>1, <4>1, <4>2 DEF Exhausted
    <3>2. Own(t, e)' = Own(t, e) \cup {k} /\ k \notin Own(t, e)
      BY <2>2, <2>3, <2>4 DEF Own
    <3>3. Cardinality(Own(t, e)') = Cardinality(Own(t, e)) + 1
      <4>1. Cardinality(Own(t, e) \cup {k}) =
              IF k \in Own(t, e) THEN Cardinality(Own(t, e)) ELSE Cardinality(Own(t, e)) + 1
        BY OwnCount, FS_AddElement
      <4>2. QED
        BY <3>2, <4>1
    <3>4. Cardinality(Holding(e)) + n < seats_max[e] /\ n \in Nat
      BY <3>1, OwnCount
    <3>5. c <= b /\ c \in Nat
      BY <1>5, <1>7, <2>1, <2>4
    <3>6. c + n + 1 <= seats_max[e] /\ c <= seats_max[e]
      <4> DEFINE h == Cardinality(Holding(e))
                 m == seats_max[e]
      <4>1. h \in Nat /\ h + n < m /\ n \in Nat /\ m \in Nat /\ b \in Nat /\ b <= h /\ c <= b
            /\ c \in Nat
        BY <1>1, <1>6, <3>4, <3>5, OwnCount
      <4> HIDE DEF h, m, b, c, n
      <4>2. c + n + 1 <= m /\ c <= m
        BY <4>1
      <4>3. QED
        BY <4>2 DEF m
    <3>7. CASE BornState(o) = "open"
      <4>1. c + (Cardinality(Own(t, e)) + 1) <= seats_max[e]
        BY <3>5, <3>6, <3>7, OwnCount
      <4>2. QED
        BY <2>3, <3>3, <3>7, <4>1 DEF BornState
    <3>8. CASE BornState(o) # "open"
      <4>1. c + 0 <= seats_max[e]
        BY <3>5, <3>6
      <4>2. QED
        BY <2>3, <3>8, <4>1 DEF BornState
    <3>9. QED
      BY <3>7, <3>8
  <2>5. CASE e # SpecEvent(t)
    <3>1. eventLock[e] = t
      BY <2>1, <2>5 DEF IInv, TypeOK
    <3>2. Own(t, e)' = Own(t, e)
      BY <2>2, <2>3, <2>5 DEF Own
    <3>3. b + n <= seats_max[e] /\ n \in Nat
      BY <3>1, OwnCount DEF HistoryInv, BookedRoom
    <3>4. c + n <= seats_max[e]
      BY <1>1, <1>5, <1>6, <3>1, <3>3
    <3>5. QED
      BY <2>3, <3>2, <3>4 DEF BornState
  <2>6. QED
    BY <2>4, <2>5
<1>8. CASE pc[t] = "mint" /\ delivery'[t] = delivery[t] /\ minted'[t] = minted[t]
  <2>1. eventLock[e] = t
    <3>1. PICK i \in 1..minted'[t] : Specs[delivery'[t].order][i] = e
      BY <1>2
    <3>2. QED
      BY <1>8, <3>1 DEF IInv, LocksHeld
  <2>2. Own(t, e)' = Own(t, e)
    BY <1>8 DEF Own
  <2>3. b + n <= seats_max[e] /\ n \in Nat
    BY <2>1, OwnCount DEF HistoryInv, BookedRoom
  <2>4. c + n <= seats_max[e]
    BY <1>1, <1>5, <1>6, <2>1, <2>3
  <2>5. QED
    BY <1>8, <2>2, <2>4 DEF BornState
<1>9. QED
  BY <1>2, <1>3, <1>7, <1>8, SessionStep, SaleSeamAssumption

\* What a mint adds was counted, and so is what the officer and the counter add.
LEMMA BookedFitStep ==
    ASSUME IInv, HistoryInv, Next, Remember
    PROVE  SeatsBeyondCapAreLifted'
<1> SUFFICES ASSUME NEW e \in Events, seats_max[e] > 0
             PROVE  Cardinality(Booked(e)') <= seats_max[e]
  BY DEF SeatsBeyondCapAreLifted
<1> DEFINE b == Cardinality(Booked(e))
           m == seats_max[e]
<1>1. /\ IsFiniteSet(Booked(e)) /\ b \in Nat /\ m \in Nat /\ b <= m
      /\ Cardinality(Holding(e)) \in Nat /\ b <= Cardinality(Holding(e))
  BY BookedCount, SaleSeamAssumption DEF HistoryInv, SeatsBeyondCapAreLifted
<1>2. ASSUME NEW A, IsFiniteSet(A), Cardinality(A) \in Nat, b + Cardinality(A) <= m,
             Booked(e)' \subseteq Booked(e) \cup A
      PROVE  Cardinality(Booked(e)') <= m
  <2>1. /\ IsFiniteSet(Booked(e) \cup A)
        /\ Cardinality(Booked(e) \cup A) = b + Cardinality(A) - Cardinality(Booked(e) \cap A)
    BY <1>1, <1>2, FS_Union
  <2>2. Cardinality(Booked(e) \cap A) \in Nat
    BY <1>1, FS_Intersection, FS_CardinalityType
  <2>3. /\ Cardinality(Booked(e)') <= Cardinality(Booked(e) \cup A)
        /\ Cardinality(Booked(e)') \in Nat
    BY <1>2, <2>1, FS_Subset, FS_CardinalityType
  <2>4. QED
    BY <1>1, <1>2, <2>1, <2>2, <2>3
<1>3. CASE Booked(e)' \subseteq Booked(e)
  BY <1>1, <1>2, <1>3, FS_EmptySet
<1>4. ASSUME NEW r \in Booked(e)', r \notin Booked(e)
      PROVE  Cardinality(Booked(e)') <= m
  <2>1. ASSUME NEW t \in Txs, MintCommit(t), eventLock[e] = t,
               BornState(delivery[t].order) = "open"
        PROVE  Cardinality(Booked(e)') <= m
    <3> DEFINE d == delivery[t]
               A == {<<d, i>> : i \in Own(t, e)}
    <3>1. d \in Deliveries /\ minted[t] = Len(Specs[d.order])
          /\ DOMAIN Specs[d.order] = 1..Len(Specs[d.order])
      BY <2>1, MintCommitDoes, DeliveryType, SpecsType
    <3>2. Own(t, e) \in SUBSET DOMAIN Specs[d.order]
      BY <3>1 DEF Own
    <3>3. /\ IsFiniteSet(A) /\ Cardinality(A) \in Nat
          /\ Cardinality(A) <= Cardinality(Own(t, e)) /\ Cardinality(Own(t, e)) \in Nat
      BY <3>1, <3>2, AttendeesCount
    <3>4. b + Cardinality(Own(t, e)) <= m
      BY <2>1 DEF HistoryInv, BookedRoom
    <3>5. b + Cardinality(A) <= m
      BY <1>1, <3>3, <3>4
    <3>6. ASSUME NEW s \in Booked(e)', s \notin Booked(e) PROVE s \in A
      <4>1. PICK u \in Txs : eventLock[e] = u /\ s \in {<<delivery[u], i>> : i \in Own(u, e)}
        BY <2>1, <3>6, BookedGrows, SaleSeamAssumption
      <4>2. QED
        BY <2>1, <4>1
    <3>7. QED
      BY <1>2, <3>3, <3>5, <3>6
  <2>2. ASSUME ~Exhausted(e, Cardinality(Holding(e))),
               \A s \in Regs \ {r} : registrations'[s] = registrations[s]
        PROVE  Cardinality(Booked(e)') <= m
    <3>1. ASSUME NEW s \in Booked(e)', s # r PROVE s \in Booked(e)
      <4>1. /\ s \in Regs /\ registrations[s] = registrations'[s]
            /\ s \in Holding(e) /\ s \notin lifted'
        BY <2>2, <3>1 DEF Booked, Holding
      <4>2. s \notin lifted
        BY <4>1, Remembers DEF Holding
      <4>3. QED
        BY <4>1, <4>2 DEF Booked
    <3>2. Booked(e)' \subseteq Booked(e) \cup {r}
      BY <3>1
    <3>3. IsFiniteSet({r}) /\ Cardinality({r}) = 1
      BY FS_Singleton
    <3>4. b + 1 <= m
      BY <1>1, <2>2 DEF Exhausted
    <3>5. QED
      BY <1>2, <3>2, <3>3, <3>4
  <2>3. QED
    BY <1>4, <2>1, <2>2, BookedGrows
<1>5. QED
  BY <1>3, <1>4

LEMMA HistoryStep ==
    ASSUME IInv, HistoryInv, [Next /\ Remember]_historyVars
    PROVE  HistoryInv'
<1>1. CASE UNCHANGED historyVars
  <2>1. UNCHANGED <<registrations, lifted, eventLock, delivery, minted>>
    BY <1>1 DEF historyVars, vars, rows, locks, session
  <2>2. UNCHANGED <<Seated, BookedRoom, SeatsBeyondCapAreLifted>>
    BY <2>1 DEF Seated, BookedRoom, SeatsBeyondCapAreLifted, Booked, Holding, Own
  <2>3. QED
    BY <2>1, <2>2 DEF HistoryInv
<1>2. CASE Next /\ Remember
  <2>1. lifted' \subseteq Seated'
    BY <1>2 DEF Remember
  <2>2. ASSUME NEW r \in Regs, registrations'[r].state = "absent"
        PROVE  ~registrations'[r].active
    <3>1. registrations[r].state = "absent"
      BY <1>2, <2>2, RowsStay
    <3>2. CASE registrations'[r] = registrations[r]
      BY <3>1, <3>2 DEF HistoryInv
    <3>3. ~(\E t \in Txs : MintCommit(t) /\ r \in Attendees(delivery[t]))
      BY <2>2, MintLinks DEF Linked
    <3>4. QED
      BY <1>2, <2>2, <3>1, <3>2, <3>3, NewRows
  <2>3. BookedRoom' /\ SeatsBeyondCapAreLifted'
    BY <1>2, BookedRoomStep, BookedFitStep
  <2>4. QED
    BY <2>1, <2>2, <2>3 DEF HistoryInv
<1>3. QED
  BY <1>1, <1>2

LEMMA InitHistory == HistoryInit => HistoryInv
<1> SUFFICES ASSUME HistoryInit PROVE HistoryInv
  OBVIOUS
<1>1. lifted = {} /\ Init
  BY DEF HistoryInit
<1>2. \A r \in Regs : registrations[r].state = "absent" /\ ~registrations[r].active
  BY <1>1, AbsentRowType DEF Init, AbsentRow, NewRow
<1>3. BookedRoom
  BY <1>1, SaleSeamAssumption DEF Init, BookedRoom
<1>4. \A e \in Events : Booked(e) = {}
  BY <1>2 DEF Booked, Holding, HoldsSeat
<1>5. \A e \in Events : Cardinality(Booked(e)) = 0 /\ seats_max[e] \in Nat
  BY <1>4, FS_EmptySet, SaleSeamAssumption
<1>6. SeatsBeyondCapAreLifted
  BY <1>5 DEF SeatsBeyondCapAreLifted
<1>7. QED
  BY <1>1, <1>2, <1>3, <1>6 DEF HistoryInv

LEMMA HistoryAlways == HistorySpec => [](IInv /\ WholeInv /\ HistoryInv)
<1>1. HistorySpec => [](IInv /\ WholeInv)
  BY HistoryWatches, SaleSeamSafety, WholeAlways, PTL
<1>2. IInv /\ HistoryInv /\ [Next /\ Remember]_historyVars => HistoryInv'
  BY HistoryStep
<1>3. QED
  BY <1>1, <1>2, InitHistory, PTL DEF HistorySpec

\* For any constants and any order of the facts: of the seats of a capped event,
\* those a mint, the officer or the counter gave are within the cap, so that the
\* seats beyond it are the ones register and transition never counted, which the
\* heals of the confirmed and the paid verb wrote.
THEOREM SeatsAreCounted == HistorySpec => []SeatsBeyondCapAreLifted
  BY HistoryAlways, PTL DEF HistoryInv

-----------------------------------------------------------------------------
(* The ledger                                                              *)

\* What the place of a row says of it.
LEMMA PlaceSays ==
    ASSUME IInv, NEW r \in Regs
    PROVE  /\ Place(r) \in {"none", "archived", "held", "lifted", "booked"}
           /\ Place(r) = "none" <=> registrations[r].state = "absent"
           /\ Place(r) = "archived" <=>
                 registrations[r].state # "absent" /\ ~registrations[r].active
           /\ Place(r) = "held" <=>
                 registrations[r].active /\ registrations[r].state \in {"draft", "cancel"}
           /\ Place(r) = "booked" <=> HoldsSeat(registrations[r]) /\ r \notin lifted
           /\ Place(r) = "lifted" <=> HoldsSeat(registrations[r]) /\ r \in lifted
<1>1. /\ registrations[r].state \in RegState \cup {"absent"}
      /\ registrations[r].active \in BOOLEAN
  BY DEF IInv, TypeOK, Row
<1>2. RegState = {"draft", "cancel"} \cup SeatState /\ "absent" \notin RegState
  BY DEF RegState, SeatState
<1>3. {"draft", "cancel"} \cap SeatState = {}
  BY DEF SeatState
<1> HIDE DEF RegState, SeatState
<1>4. QED
  BY <1>1, <1>2, <1>3 DEF Place, HoldsSeat

\* The row of a seam registration in the ledger.
LedgerRow == [r \in Regs |-> RowOf(r)]

LEMMA LedgerRowOf ==
    ASSUME NEW r \in Regs
    PROVE  /\ LedgerRow[r] = RowOf(r) /\ LedgerRow'[r] = RowOf(r)'
           /\ RowOf(r).place = Place(r) /\ RowOf(r).event = registrations[r].event
           /\ RowOf(r).order = registrations[r].order
           /\ RowOf(r).owes <=> registrations[r].active /\ registrations[r].sale_status = "to_pay"
  BY DEF LedgerRow, RowOf

\* The sets of the ledger are those of the code.
LEMMA LedgerSets ==
    ASSUME IInv
    PROVE  /\ \A o : Ledger!Rows(o) = Linked(o)
           /\ \A o : Ledger!Active(o) = ActiveLinked(o)
           /\ \A o : Ledger!Held(o) = Held(o)
           /\ \A o : {r \in Ledger!Held(o) : LedgerRow[r].owes} = Held(o) \cap Unpaid(o)
           /\ \A e : Ledger!Booked(e) = Booked(e)
           /\ \A e : Ledger!Seated(e) = Holding(e)
           /\ \A e : Ledger!Cardinality(Booked(e)) = Cardinality(Booked(e))
           /\ \A e : Ledger!Cardinality(Holding(e)) = Cardinality(Holding(e))
           /\ \A d : Ledger!Attendees(d) = Attendees(d)
           /\ \A d : Ledger!Key(d) = Key(d)
<1>1. \A o : Ledger!Rows(o) = {r \in Regs : LedgerRow[r].place # "none" /\ LedgerRow[r].order = o}
  BY DEF Ledger!Rows, LedgerRow
<1>2. \A o : Ledger!Rows(o) = Linked(o)
  BY <1>1, PlaceSays, LedgerRowOf DEF Linked
<1>3. \A o : Ledger!Active(o) = {r \in Linked(o) : LedgerRow[r].place # "archived"}
  BY <1>2 DEF Ledger!Active, LedgerRow
<1>4. \A o : Ledger!Active(o) = ActiveLinked(o)
  BY <1>3, PlaceSays, LedgerRowOf DEF Linked, ActiveLinked
<1>5. \A o : Ledger!Held(o) = {r \in Linked(o) : LedgerRow[r].place = "held"}
  BY <1>2 DEF Ledger!Held, LedgerRow
<1>6. \A o : Ledger!Held(o) = Held(o)
  BY <1>5, PlaceSays, LedgerRowOf DEF Linked, ActiveLinked, Held
<1>7. \A o : {r \in Held(o) : LedgerRow[r].owes} = Held(o) \cap Unpaid(o)
  BY LedgerRowOf DEF Linked, ActiveLinked, Held, Unpaid
<1>8. \A e : Ledger!Booked(e) =
               {r \in Regs : LedgerRow[r].event = e /\ LedgerRow[r].place = "booked"}
  BY DEF Ledger!Booked, LedgerRow
<1>9. \A e : Ledger!Booked(e) = Booked(e)
  BY <1>8, PlaceSays, LedgerRowOf DEF Booked, Holding
<1>10. \A e : Ledger!Seated(e) =
               {r \in Regs : LedgerRow[r].event = e /\ LedgerRow[r].place \in {"booked", "lifted"}}
  BY DEF Ledger!Seated, LedgerRow
<1>11. \A e : Ledger!Seated(e) = Holding(e)
  BY <1>10, PlaceSays, LedgerRowOf DEF Holding
<1>12. /\ \A e : Ledger!Cardinality(Booked(e)) = Cardinality(Booked(e))
       /\ \A e : Ledger!Cardinality(Holding(e)) = Cardinality(Holding(e))
  BY DEF Ledger!Cardinality, Cardinality
<1>13. (\A d : Ledger!Attendees(d) = Attendees(d)) /\ (\A d : Ledger!Key(d) = Key(d))
  BY DEF Ledger!Attendees, Attendees, Ledger!Key, Key
<1>14. QED
  BY <1>2, <1>4, <1>6, <1>7, <1>9, <1>11, <1>12, <1>13

\* A row the step leaves alone keeps its place.
LEMMA RowKept ==
    ASSUME Remember, NEW r \in Regs, registrations'[r] = registrations[r]
    PROVE  LedgerRow'[r] = LedgerRow[r]
<1>1. HoldsSeat(registrations[r]) => (r \in lifted' <=> r \in lifted)
  BY Remembers
<1>2. Place(r)' = Place(r)
  <2>1. CASE HoldsSeat(registrations[r])
    BY <1>1, <2>1 DEF Place
  <2>2. CASE ~HoldsSeat(registrations[r])
    BY <2>2 DEF Place, HoldsSeat
  <2>3. QED
    BY <2>1, <2>2
<1>3. RowOf(r)' = RowOf(r)
  BY <1>2 DEF RowOf
<1>4. QED
  BY <1>3, LedgerRowOf

\* The place of an active row after a step.
LEMMA RowWritten ==
    ASSUME Remember, NEW r \in Regs, registrations'[r].state \in RegState,
           registrations'[r].active
    PROVE  LedgerRow'[r] =
             [place |-> IF registrations'[r].state \notin SeatState THEN "held"
                        ELSE IF HoldsSeat(registrations[r]) THEN Place(r)
                        ELSE IF Heals THEN "lifted" ELSE "booked",
              event |-> registrations'[r].event, order |-> registrations'[r].order,
              owes |-> registrations'[r].sale_status = "to_pay"]
<1> DEFINE owing == registrations'[r].active /\ registrations'[r].sale_status = "to_pay"
<1>1. LedgerRow'[r] = [place |-> Place(r)', event |-> registrations'[r].event,
                       order |-> registrations'[r].order,
                       owes |-> registrations'[r].sale_status = "to_pay"]
  <2>1. LedgerRow'[r] = [place |-> Place(r)', event |-> registrations'[r].event,
                         order |-> registrations'[r].order, owes |-> owing]
    BY DEF LedgerRow, RowOf
  <2>2. owing = (registrations'[r].sale_status = "to_pay")
    BY Zenon
  <2>3. QED
    BY <2>1, <2>2
<1>2. registrations'[r].state # "absent"
  BY DEF RegState
<1>3. CASE registrations'[r].state \notin SeatState
  <2>1. Place(r)' = "held"
    BY <1>2, <1>3 DEF Place
  <2>2. QED
    BY <1>1, <1>3, <2>1
<1>4. CASE registrations'[r].state \in SeatState /\ HoldsSeat(registrations[r])
  <2>1. r \in lifted' <=> r \in lifted
    BY <1>4, Remembers DEF HoldsSeat
  <2>2. Place(r)' = IF r \in lifted THEN "lifted" ELSE "booked"
    BY <1>2, <1>4, <2>1 DEF Place
  <2>3. Place(r) = IF r \in lifted THEN "lifted" ELSE "booked"
    BY <1>4 DEF Place, HoldsSeat, SeatState
  <2>4. QED
    BY <1>1, <1>4, <2>2, <2>3
<1>5. CASE registrations'[r].state \in SeatState /\ ~HoldsSeat(registrations[r])
  <2>1. r \in lifted' <=> Heals
    BY <1>5, Remembers DEF HoldsSeat
  <2>2. Place(r)' = IF Heals THEN "lifted" ELSE "booked"
    BY <1>2, <1>5, <2>1 DEF Place
  <2>3. QED
    BY <1>1, <1>5, <2>2
<1>6. QED
  BY <1>3, <1>4, <1>5

\* A ledger row, and one with its place or debt written over.
LEMMA RowWith ==
    ASSUME NEW r \in Regs
    PROVE  LET With(p, b) == [place |-> p, event |-> registrations[r].event,
                              order |-> registrations[r].order, owes |-> b]
           IN  /\ LedgerRow[r] = With(Place(r), LedgerRow[r].owes)
               /\ [LedgerRow[r] EXCEPT !.place = "lifted", !.owes = FALSE] = With("lifted", FALSE)
               /\ [LedgerRow[r] EXCEPT !.place = "archived", !.owes = FALSE]
                     = With("archived", FALSE)
               /\ \A place : [LedgerRow[r] EXCEPT !.place = place]
                                = With(place, LedgerRow[r].owes)
               /\ \A owes : [LedgerRow[r] EXCEPT !.owes = owes] = With(Place(r), owes)
               /\ registrations[r].active =>
                     LedgerRow[r].owes = (registrations[r].sale_status = "to_pay")
               /\ ~registrations[r].active => LedgerRow[r].owes = FALSE
<1> DEFINE owing == registrations[r].active /\ registrations[r].sale_status = "to_pay"
           With(p, b) == [place |-> p, event |-> registrations[r].event,
                          order |-> registrations[r].order, owes |-> b]
<1>1. LedgerRow[r] = With(Place(r), owing)
  BY DEF LedgerRow, RowOf
<1>2. registrations[r].active => owing = (registrations[r].sale_status = "to_pay")
  BY Zenon
<1>3. ~registrations[r].active => owing = FALSE
  BY Zenon
<1> HIDE DEF owing
<1>4. LedgerRow[r].owes = owing /\ LedgerRow[r] = With(Place(r), LedgerRow[r].owes)
  BY <1>1
<1>5. /\ registrations[r].active => LedgerRow[r].owes = (registrations[r].sale_status = "to_pay")
      /\ ~registrations[r].active => LedgerRow[r].owes = FALSE
  BY <1>2, <1>3, <1>4, Zenon
<1>6. \A place : [LedgerRow[r] EXCEPT !.place = place] = With(place, LedgerRow[r].owes)
  BY <1>1
<1>7. \A owes : [LedgerRow[r] EXCEPT !.owes = owes] = With(Place(r), owes)
  BY <1>1
<1> DEFINE no == FALSE
<1> HIDE DEF no
<1>8. [LedgerRow[r] EXCEPT !.place = "lifted", !.owes = no] = With("lifted", no)
  <2>1. [LedgerRow[r] EXCEPT !.place = "lifted"] = With("lifted", LedgerRow[r].owes)
    BY <1>6
  <2>2. \A x : x = With("lifted", LedgerRow[r].owes) => [x EXCEPT !.owes = no] = With("lifted", no)
    OBVIOUS
  <2>3. QED
    BY <2>1, <2>2
<1>9. [LedgerRow[r] EXCEPT !.place = "archived", !.owes = no] = With("archived", no)
  <2>1. [LedgerRow[r] EXCEPT !.place = "archived"] = With("archived", LedgerRow[r].owes)
    BY <1>6
  <2>2. \A x : x = With("archived", LedgerRow[r].owes) => [x EXCEPT !.owes = no] = With("archived", no)
    OBVIOUS
  <2>3. QED
    BY <2>1, <2>2
<1> HIDE DEF With
<1>10. QED
  BY <1>4, <1>5, <1>6, <1>7, <1>8, <1>9, Zenon DEF With, no

LEMMA CommitConsumes ==
    ASSUME IInv, NEW t \in Txs, Commit(t), pc[t] # "idle"
    PROVE  delivery[t] \in Deliveries /\ Ledger!Consume(delivery[t])
<1>1. delivery[t] \in Deliveries /\ Key(delivery[t]) \notin inbox
  BY DeliveryType DEF IInv, ClaimsExclusive
<1>2. inbox' = inbox \cup {Key(delivery[t])}
  BY DEF Commit
<1>3. QED
  BY <1>1, <1>2, LedgerSets DEF Ledger!Consume

\* The locks, the counts and the late commit of a mint amount to one step.
LEMMA MintIsOne ==
    ASSUME IInv, HistoryInv, Remember, NEW t \in Txs, MintCommit(t)
    PROVE  Ledger!Mint(delivery[t])
<1> DEFINE d == delivery[t]
           o == d.order
           free == o \in FreeOrders
           born(i) == [place |-> IF free THEN "booked" ELSE "held", event |-> Specs[o][i],
                       order |-> o, owes |-> ~free]
<1>1. /\ d \in Deliveries /\ d.verb = "confirmed" /\ pc[t] = "mint"
      /\ minted[t] = Len(Specs[o]) /\ DOMAIN Specs[o] = 1..Len(Specs[o])
  BY MintCommitDoes, DeliveryType, SpecsType
<1>2. Ledger!Consume(d)
  BY <1>1, CommitConsumes DEF MintCommit
<1>3. \A r \in Attendees(d) : LedgerRow[r].place = "none"
  BY MintCommitDoes, PlaceSays, LedgerRowOf
<1>4. ASSUME free, NEW e \in Events, seats_max[e] > 0
      PROVE  Ledger!Cardinality(Booked(e)) + Ledger!Cardinality(Ledger!Asked(d, e))
                <= seats_max[e]
  <2>1. Ledger!Asked(d, e) = Own(t, e)
    BY <1>1 DEF Ledger!Asked, Own
  <2>2. /\ Ledger!Cardinality(Booked(e)) = Cardinality(Booked(e))
        /\ Ledger!Cardinality(Own(t, e)) = Cardinality(Own(t, e))
    BY DEF Ledger!Cardinality, Cardinality
  <2>3. CASE Own(t, e) = {}
    <3>1. Cardinality(Own(t, e)) = 0
      BY <2>3, FS_EmptySet
    <3>2. Cardinality(Booked(e)) <= seats_max[e] /\ Cardinality(Booked(e)) \in Nat
      BY <1>4, BookedCount DEF HistoryInv, SeatsBeyondCapAreLifted
    <3>3. QED
      BY <2>1, <2>2, <3>1, <3>2
  <2>4. CASE Own(t, e) # {}
    <3>1. eventLock[e] = t
      BY <1>1, <2>4 DEF Own, IInv, LocksHeld
    <3>2. BornState(o) = "open"
      BY <1>4 DEF BornState
    <3>3. Cardinality(Booked(e)) + Cardinality(Own(t, e)) <= seats_max[e]
      BY <1>4, <3>1, <3>2 DEF HistoryInv, BookedRoom
    <3>4. QED
      BY <2>1, <2>2, <3>3
  <2>5. QED
    BY <2>3, <2>4
<1>5. ASSUME NEW r \in Regs
      PROVE  LedgerRow'[r] = IF r \in Attendees(d) THEN born(r[2]) ELSE LedgerRow[r]
  <2>1. CASE r \in Attendees(d)
    <3> DEFINE row == NewRow(Specs[o][r[2]], o, BornState(o), "sale",
                             IF free THEN "free" ELSE "to_pay")
    <3>1. registrations'[r] = row /\ registrations[r].state = "absent"
      BY <2>1, MintCommitDoes
    <3>2. ~HoldsSeat(registrations[r]) /\ ~Heals
      BY <3>1, WhoHeals DEF HoldsSeat, SeatState
    <3>3. /\ row.state = (IF free THEN "open" ELSE "draft") /\ row.active
          /\ row.event = Specs[o][r[2]] /\ row.order = o
          /\ row.sale_status = (IF free THEN "free" ELSE "to_pay")
      BY DEF NewRow, BornState
    <3>4. CASE free
      <4>1. row.state \in RegState /\ row.state \in SeatState /\ row.sale_status = "free"
        BY <3>3, <3>4 DEF RegState, SeatState
      <4>2. LedgerRow'[r] = [place |-> "booked", event |-> Specs[o][r[2]], order |-> o,
                             owes |-> "free" = "to_pay"]
        BY <3>1, <3>2, <3>3, <4>1, RowWritten
      <4>3. QED
        BY <2>1, <3>4, <4>2
    <3>5. CASE ~free
      <4>1. row.state \in RegState /\ row.state \notin SeatState /\ row.sale_status = "to_pay"
        BY <3>3, <3>5 DEF RegState, SeatState
      <4>2. LedgerRow'[r] = [place |-> "held", event |-> Specs[o][r[2]], order |-> o,
                             owes |-> "to_pay" = "to_pay"]
        BY <3>1, <3>3, <4>1, RowWritten
      <4>3. QED
        BY <2>1, <3>5, <4>2
    <3>6. QED
      BY <3>4, <3>5
  <2>2. CASE r \notin Attendees(d)
    BY <2>2, MintCommitDoes, RowKept
  <2>3. QED
    BY <2>1, <2>2
<1>6. LedgerRow' = [r \in Regs |-> IF r \in Attendees(d) THEN born(r[2]) ELSE LedgerRow[r]]
  BY <1>5 DEF LedgerRow
<1>7. \A e \in Events : free => Ledger!Fits(e, Ledger!Cardinality(Ledger!Booked(e)),
                                            Ledger!Cardinality(Ledger!Asked(d, e)))
  BY <1>4, LedgerSets DEF Ledger!Fits
<1>8. QED
  BY <1>1, <1>2, <1>3, <1>6, <1>7, LedgerSets DEF Ledger!Mint, Ledger!NewRow, LedgerRow

LEMMA HealIsOne ==
    ASSUME IInv, WholeInv, Remember, NEW t \in Txs, HealConfirmed(t)
    PROVE  Ledger!Heal(delivery[t])
<1> DEFINE d == delivery[t]
           o == d.order
           lift(row) == [row EXCEPT !.state = "open", !.sale_order_state = "sale",
                                    !.sale_status = "free"]
           hold(row) == [row EXCEPT !.sale_order_state = "sale", !.sale_status = "to_pay"]
<1>1. pc[t] = "heal" /\ Commit(t) /\ d.verb = "confirmed" /\ Heals
  BY WhoHeals DEF HealConfirmed, IInv, SessionOK
<1>2. Ledger!Consume(d) /\ Linked(o) # {}
  BY <1>1, CommitConsumes DEF WholeInv, HealFindsRows
<1>3. CASE o \in FreeOrders
  <2>1. registrations' = [r \in Regs |-> IF r \in Held(o) THEN lift(registrations[r])
                                                            ELSE registrations[r]]
    BY <1>3 DEF HealConfirmed, Update
  <2>2. ASSUME NEW r \in Regs
        PROVE  LedgerRow'[r] = IF r \in Held(o)
                               THEN [LedgerRow[r] EXCEPT !.place = "lifted", !.owes = FALSE]
                               ELSE LedgerRow[r]
    <3>1. CASE r \in Held(o)
      <4>1. registrations[r] \in Row /\ ~HoldsSeat(registrations[r])
        BY <3>1 DEF IInv, TypeOK, Held, ActiveLinked, Linked, HoldsSeat, SeatState
      <4>2. registrations[r].active
        BY <3>1 DEF Held, ActiveLinked
      <4>3. registrations'[r] = lift(registrations[r])
        BY <2>1, <3>1
      <4>4. /\ registrations'[r].state \in RegState \cap SeatState /\ registrations'[r].active
            /\ registrations'[r].event = registrations[r].event
            /\ registrations'[r].order = registrations[r].order
            /\ registrations'[r].sale_status = "free"
        BY <4>1, <4>2, <4>3 DEF Row, RegState, SeatState
      <4>5. LedgerRow'[r] = [place |-> "lifted", event |-> registrations[r].event,
                             order |-> registrations[r].order, owes |-> "free" = "to_pay"]
        BY <1>1, <4>1, <4>4, RowWritten
      <4>6. ("free" = "to_pay") = FALSE
        OBVIOUS
      <4>7. [LedgerRow[r] EXCEPT !.place = "lifted", !.owes = FALSE] =
               [place |-> "lifted", event |-> registrations[r].event,
                order |-> registrations[r].order, owes |-> FALSE]
        BY RowWith, Zenon
      <4>8. QED
        BY <3>1, <4>5, <4>6, <4>7
    <3>2. CASE r \notin Held(o)
      BY <2>1, <3>2, RowKept
    <3>3. QED
      BY <3>1, <3>2
  <2>3. LedgerRow' = [r \in Regs |-> IF r \in Held(o)
                               THEN [LedgerRow[r] EXCEPT !.place = "lifted", !.owes = FALSE]
                               ELSE LedgerRow[r]]
    BY <2>2 DEF LedgerRow
  <2>4. Ledger!Rows(o) = Linked(o) /\ Ledger!Held(o) = Held(o)
    BY LedgerSets
  <2>5. LedgerRow' = [r \in Regs |-> IF r \in Ledger!Held(o)
                               THEN [LedgerRow[r] EXCEPT !.place = "lifted", !.owes = FALSE]
                               ELSE LedgerRow[r]]
    BY <2>3, <2>4
  <2>6. QED
    BY <1>1, <1>2, <1>3, <2>4, <2>5 DEF Ledger!Heal, LedgerRow
<1>4. CASE o \notin FreeOrders
  <2>1. registrations' = [r \in Regs |-> IF r \in ActiveLinked(o) THEN hold(registrations[r])
                                                                    ELSE registrations[r]]
    BY <1>4 DEF HealConfirmed, Update
  <2>2. ASSUME NEW r \in Regs
        PROVE  LedgerRow'[r] = IF r \in ActiveLinked(o)
                               THEN [LedgerRow[r] EXCEPT !.owes = TRUE] ELSE LedgerRow[r]
    <3>1. CASE r \in ActiveLinked(o)
      <4>1. /\ registrations[r] \in Row /\ registrations[r].active
            /\ registrations[r].state # "absent"
        BY <3>1 DEF IInv, TypeOK, ActiveLinked, Linked
      <4>2. registrations'[r] = hold(registrations[r])
        BY <2>1, <3>1
      <4>3. /\ registrations'[r].state = registrations[r].state
            /\ registrations[r].state \in RegState /\ registrations'[r].active
            /\ registrations'[r].event = registrations[r].event
            /\ registrations'[r].order = registrations[r].order
            /\ registrations'[r].sale_status = "to_pay"
        BY <4>1, <4>2 DEF Row
      <4>4. registrations[r].state \in SeatState <=> HoldsSeat(registrations[r])
        BY <4>1 DEF HoldsSeat
      <4>5. registrations[r].state \notin SeatState => Place(r) = "held"
        BY <4>1 DEF Place
      <4>6. LedgerRow'[r] = [place |-> Place(r), event |-> registrations[r].event,
                             order |-> registrations[r].order, owes |-> "to_pay" = "to_pay"]
        BY <4>3, <4>4, <4>5, RowWritten
      <4>7. QED
        BY <3>1, <4>6, RowWith
    <3>2. CASE r \notin ActiveLinked(o)
      BY <2>1, <3>2, RowKept
    <3>3. QED
      BY <3>1, <3>2
  <2>3. LedgerRow' = [r \in Regs |-> IF r \in ActiveLinked(o)
                               THEN [LedgerRow[r] EXCEPT !.owes = TRUE] ELSE LedgerRow[r]]
    BY <2>2 DEF LedgerRow
  <2>4. Ledger!Rows(o) = Linked(o) /\ Ledger!Active(o) = ActiveLinked(o)
    BY LedgerSets
  <2>5. LedgerRow' = [r \in Regs |-> IF r \in Ledger!Active(o)
                               THEN [LedgerRow[r] EXCEPT !.owes = TRUE] ELSE LedgerRow[r]]
    BY <2>3, <2>4
  <2>6. QED
    BY <1>1, <1>2, <1>4, <2>4, <2>5 DEF Ledger!Heal, LedgerRow
<1>5. QED
  BY <1>3, <1>4

LEMMA CancelIsOne ==
    ASSUME IInv, Remember, NEW t \in Txs, CancelCascade(t)
    PROVE  Ledger!CancelOrder(delivery[t])
<1> DEFINE d == delivery[t]
           o == d.order
           mirror(row) == [row EXCEPT !.state = "cancel", !.sale_order_state = "cancel"]
<1>1. pc[t] = "cancelled" /\ Commit(t) /\ d.verb = "cancelled"
  BY DEF CancelCascade, IInv, SessionOK
<1>2. Ledger!Consume(d)
  BY <1>1, CommitConsumes
<1>3. registrations' = [r \in Regs |-> IF r \in ActiveLinked(o) THEN mirror(registrations[r])
                                                                  ELSE registrations[r]]
  BY DEF CancelCascade, Update
<1>4. ASSUME NEW r \in Regs
      PROVE  LedgerRow'[r] = IF r \in ActiveLinked(o)
                             THEN [LedgerRow[r] EXCEPT !.place = "held"] ELSE LedgerRow[r]
  <2>1. CASE r \in ActiveLinked(o)
    <3>1. registrations[r] \in Row /\ registrations[r].active
      BY <2>1 DEF IInv, TypeOK, ActiveLinked
    <3>2. registrations'[r] = mirror(registrations[r])
      BY <1>3, <2>1
    <3>3. /\ registrations'[r].state \in RegState \ SeatState /\ registrations'[r].active
          /\ registrations'[r].event = registrations[r].event
          /\ registrations'[r].order = registrations[r].order
          /\ registrations'[r].sale_status = registrations[r].sale_status
      BY <3>1, <3>2 DEF Row, RegState, SeatState
    <3>4. LedgerRow'[r] = [place |-> "held", event |-> registrations[r].event,
                           order |-> registrations[r].order,
                           owes |-> registrations[r].sale_status = "to_pay"]
      BY <3>3, RowWritten
    <3>5. LedgerRow[r].owes = (registrations[r].sale_status = "to_pay")
      BY <3>1, RowWith
    <3>6. [LedgerRow[r] EXCEPT !.place = "held"] =
             [place |-> "held", event |-> registrations[r].event,
              order |-> registrations[r].order, owes |-> LedgerRow[r].owes]
      BY RowWith, Zenon
    <3>7. QED
      BY <2>1, <3>4, <3>5, <3>6
  <2>2. CASE r \notin ActiveLinked(o)
    BY <1>3, <2>2, RowKept
  <2>3. QED
    BY <2>1, <2>2
<1>5. LedgerRow' = [r \in Regs |-> IF r \in ActiveLinked(o)
                             THEN [LedgerRow[r] EXCEPT !.place = "held"] ELSE LedgerRow[r]]
  BY <1>4 DEF LedgerRow
<1>6. QED
  BY <1>1, <1>2, <1>5, LedgerSets DEF Ledger!CancelOrder, LedgerRow

\* The rows a paid verb lifts are those its first statement locked, which are
\* still held and to pay when the second commits.
LEMMA PayIsOne ==
    ASSUME IInv, Remember, NEW t \in Txs, PaidCommit(t)
    PROVE  Ledger!Pay(delivery[t])
<1> DEFINE d == delivery[t]
           o == d.order
           S == {r \in Regs : rowLock[r] = t}
           sell(row) == [row EXCEPT !.sale_status = "sold"]
           lift(row) == [row EXCEPT !.state = "open", !.sale_order_state = "sale",
                                    !.sale_status = "sold"]
           After(r) == IF r \in S THEN [LedgerRow[r] EXCEPT !.place = "lifted", !.owes = FALSE]
                       ELSE IF r \in ActiveLinked(o) THEN [LedgerRow[r] EXCEPT !.owes = FALSE]
                       ELSE LedgerRow[r]
<1>1. pc[t] = "healed" /\ Commit(t) /\ d.verb = "paid" /\ Heals
  BY WhoHeals DEF PaidCommit, IInv, SessionOK
<1>2. Ledger!Consume(d)
  BY <1>1, CommitConsumes
<1>3. registrations' = [r \in Regs |-> CASE r \in S -> lift(registrations[r])
                                          [] r \in Unpaid(o) \ S -> sell(registrations[r])
                                          [] OTHER -> registrations[r]]
  BY DEF PaidCommit
<1>4. S \subseteq Held(o) \cap Unpaid(o)
  BY DEF IInv, LocksHeld
<1>5. Held(o) \subseteq ActiveLinked(o) /\ Unpaid(o) \subseteq ActiveLinked(o)
  BY DEF Held, Unpaid
<1>6. ASSUME NEW r \in Regs
      PROVE  LedgerRow'[r] = After(r)
  <2>1. registrations[r] \in Row
    BY DEF IInv, TypeOK
  <2>2. CASE r \in S
    <3>1. registrations[r].active /\ ~HoldsSeat(registrations[r])
      BY <1>4, <2>2 DEF Held, ActiveLinked, HoldsSeat, SeatState
    <3>2. registrations'[r] = lift(registrations[r])
      BY <1>3, <2>2
    <3>3. /\ registrations'[r].state \in RegState \cap SeatState /\ registrations'[r].active
          /\ registrations'[r].event = registrations[r].event
          /\ registrations'[r].order = registrations[r].order
          /\ registrations'[r].sale_status = "sold"
      BY <2>1, <3>1, <3>2 DEF Row, RegState, SeatState
    <3>4. LedgerRow'[r] = [place |-> "lifted", event |-> registrations[r].event,
                           order |-> registrations[r].order, owes |-> "sold" = "to_pay"]
      BY <1>1, <3>1, <3>3, RowWritten
    <3>5. ("sold" = "to_pay") = FALSE
      OBVIOUS
    <3>6. [LedgerRow[r] EXCEPT !.place = "lifted", !.owes = FALSE] =
             [place |-> "lifted", event |-> registrations[r].event,
              order |-> registrations[r].order, owes |-> FALSE]
      BY RowWith, Zenon
    <3>7. QED
      BY <2>2, <3>4, <3>5, <3>6
  <2>3. CASE r \in Unpaid(o) \ S
    <3>1. registrations[r].active /\ registrations[r].state # "absent"
      BY <2>3 DEF Unpaid, ActiveLinked, Linked
    <3>2. registrations'[r] = sell(registrations[r])
      BY <1>3, <2>3
    <3>3. /\ registrations'[r].state = registrations[r].state
          /\ registrations[r].state \in RegState /\ registrations'[r].active
          /\ registrations'[r].event = registrations[r].event
          /\ registrations'[r].order = registrations[r].order
          /\ registrations'[r].sale_status = "sold"
      BY <2>1, <3>1, <3>2 DEF Row
    <3>4. registrations[r].state \in SeatState <=> HoldsSeat(registrations[r])
      BY <3>1 DEF HoldsSeat
    <3>5. registrations[r].state \notin SeatState => Place(r) = "held"
      BY <3>1 DEF Place
    <3>6. LedgerRow'[r] = [place |-> Place(r), event |-> registrations[r].event,
                           order |-> registrations[r].order, owes |-> "sold" = "to_pay"]
      BY <3>3, <3>4, <3>5, RowWritten
    <3>7. QED
      BY <1>5, <2>3, <3>6, RowWith
  <2>4. CASE r \notin Unpaid(o)
    <3>1. LedgerRow'[r] = LedgerRow[r] /\ r \notin S
      BY <1>3, <1>4, <2>4, RowKept
    <3>2. r \in ActiveLinked(o) => LedgerRow[r].owes = FALSE
      <4>1. SUFFICES ASSUME r \in ActiveLinked(o) PROVE LedgerRow[r].owes = FALSE
        OBVIOUS
      <4>2. registrations[r].active /\ registrations[r].sale_status # "to_pay"
        BY <2>4, <4>1 DEF Unpaid, ActiveLinked
      <4>3. QED
        BY <4>2, RowWith
    <3>3. r \in ActiveLinked(o) => [LedgerRow[r] EXCEPT !.owes = FALSE] = LedgerRow[r]
      BY <3>2, RowWith
    <3>4. QED
      BY <3>1, <3>3
  <2>5. QED
    BY <2>2, <2>3, <2>4
<1>7. LedgerRow' = [r \in Regs |-> After(r)]
  BY <1>6 DEF LedgerRow
<1>8. /\ {r \in Ledger!Held(o) : LedgerRow[r].owes} = Held(o) \cap Unpaid(o)
      /\ Ledger!Active(o) = ActiveLinked(o)
  BY LedgerSets
<1>9. S \in SUBSET {r \in Ledger!Held(o) : LedgerRow[r].owes}
  BY <1>4, <1>8
<1>10. LedgerRow' = [r \in Regs |->
                      IF r \in S THEN [LedgerRow[r] EXCEPT !.place = "lifted", !.owes = FALSE]
                      ELSE IF r \in Ledger!Active(o) THEN [LedgerRow[r] EXCEPT !.owes = FALSE]
                      ELSE LedgerRow[r]]
  BY <1>7, <1>8
<1> HIDE DEF S
<1>11. QED
  BY <1>1, <1>2, <1>9, <1>10 DEF Ledger!Pay, LedgerRow

\* One more seat fits if the event is not exhausted.
LEMMA OneMoreFits ==
    ASSUME IInv, NEW e \in Events, ~Exhausted(e, Cardinality(Holding(e)))
    PROVE  Ledger!Fits(e, Ledger!Cardinality(Ledger!Seated(e)), 1)
<1>1. Cardinality(Holding(e)) \in Nat /\ seats_max[e] \in Nat
  BY HoldingCount, SaleSeamAssumption DEF Holding
<1>2. Ledger!Cardinality(Ledger!Seated(e)) = Cardinality(Holding(e))
  BY LedgerSets
<1>3. seats_max[e] > 0 => Cardinality(Holding(e)) + 1 <= seats_max[e]
  BY <1>1 DEF Exhausted
<1>4. QED
  BY <1>2, <1>3 DEF Ledger!Fits

\* A step that leaves the sessions alone heals nobody.
LEMMA NobodyHeals ==
    ASSUME UNCHANGED session
    PROVE  ~Heals
  BY DEF session, Heals

\* The rest of the ledger around a row that is written.
LEMMA OthersKept ==
    ASSUME Remember, NEW r \in Regs, NEW row,
           \A s \in Regs \ {r} : registrations'[s] = registrations[s], LedgerRow'[r] = row
    PROVE  LedgerRow' = [LedgerRow EXCEPT ![r] = row]
<1>1. \A s \in Regs : LedgerRow'[s] = IF s = r THEN row ELSE LedgerRow[s]
  BY RowKept
<1>2. LedgerRow' = [s \in Regs |-> LedgerRow'[s]] /\ LedgerRow = [s \in Regs |-> LedgerRow[s]]
  BY DEF LedgerRow
<1>3. QED
  BY <1>1, <1>2

LEMMA WalkInIsOne ==
    ASSUME IInv, Remember, NEW w \in WalkIns, NEW e \in Events, WalkIn(w, e)
    PROVE  Ledger!WalkIn(w, e)
<1> DEFINE row == NewRow(e, NoOrder, "open", "none", "none")
<1>1. /\ w \in Regs /\ registrations[w].state = "absent" /\ registrations'[w] = row
      /\ \A s \in Regs \ {w} : registrations'[s] = registrations[s]
  BY WalkInDoes
<1>2. ~HoldsSeat(registrations[w]) /\ ~Heals /\ inbox' = inbox
  BY <1>1, NobodyHeals DEF WalkIn, HoldsSeat, SeatState
<1>3. /\ row.state \in RegState \cap SeatState /\ row.active /\ row.event = e
      /\ row.order = NoOrder /\ row.sale_status = "none"
  BY DEF NewRow, RegState, SeatState
<1>4. LedgerRow'[w] = [place |-> "booked", event |-> e, order |-> NoOrder,
                       owes |-> "none" = "to_pay"]
  BY <1>1, <1>2, <1>3, RowWritten
<1>5. LedgerRow'[w] = Ledger!NewRow("booked", e, NoOrder, FALSE)
  <2>1. ("none" = "to_pay") = FALSE
    OBVIOUS
  <2>2. QED
    BY <1>4, <2>1 DEF Ledger!NewRow
<1>6. LedgerRow' = [LedgerRow EXCEPT ![w] = Ledger!NewRow("booked", e, NoOrder, FALSE)]
  BY <1>1, <1>5, OthersKept
<1>7. LedgerRow[w].place = "none"
  BY <1>1, PlaceSays, LedgerRowOf
<1>8. Ledger!Fits(e, Ledger!Cardinality(Ledger!Seated(e)), 1)
  BY OneMoreFits DEF WalkIn
<1>9. QED
  BY <1>2, <1>6, <1>7, <1>8 DEF Ledger!WalkIn, LedgerRow

LEMMA ArchiveIsOne ==
    ASSUME IInv, HistoryInv, Remember, NEW r \in Regs, Archive(r)
    PROVE  Ledger!PutAway(r)
<1>1. /\ registrations[r] \in Row /\ registrations[r].active
      /\ registrations'[r] = [registrations[r] EXCEPT !.active = FALSE]
      /\ \A s \in Regs \ {r} : registrations'[s] = registrations[s]
      /\ inbox' = inbox
  BY ArchiveDoes DEF Archive, IInv, TypeOK
<1>2. registrations[r].state # "absent"
  BY <1>1 DEF HistoryInv
<1>3. /\ registrations'[r].state = registrations[r].state /\ ~registrations'[r].active
      /\ registrations'[r].event = registrations[r].event
      /\ registrations'[r].order = registrations[r].order
  BY <1>1 DEF Row
<1>4. LedgerRow'[r] = [LedgerRow[r] EXCEPT !.place = "archived", !.owes = FALSE]
  <2>1. Place(r)' = "archived"
    BY <1>2, <1>3 DEF Place
  <2> DEFINE owing == registrations'[r].active /\ registrations'[r].sale_status = "to_pay"
  <2>2. LedgerRow'[r] = [place |-> Place(r)', event |-> registrations'[r].event,
                         order |-> registrations'[r].order, owes |-> owing]
    BY DEF LedgerRow, RowOf
  <2>3. owing = FALSE
    BY <1>3, Zenon
  <2> HIDE DEF owing
  <2>4. [LedgerRow[r] EXCEPT !.place = "archived", !.owes = FALSE] =
           [place |-> "archived", event |-> registrations[r].event,
            order |-> registrations[r].order, owes |-> FALSE]
    BY RowWith, Zenon
  <2>5. QED
    BY <1>3, <2>1, <2>2, <2>3, <2>4
<1>5. LedgerRow' = [LedgerRow EXCEPT
                       ![r] = [LedgerRow[r] EXCEPT !.place = "archived", !.owes = FALSE]]
  BY <1>1, <1>4, OthersKept
<1>6. LedgerRow' = [LedgerRow EXCEPT ![r].place = "archived", ![r].owes = FALSE]
  BY <1>5
<1>7. LedgerRow[r].place \in {"held", "booked", "lifted"}
  BY <1>1, <1>2, PlaceSays, LedgerRowOf
<1>8. QED
  BY <1>1, <1>6, <1>7 DEF Ledger!PutAway, LedgerRow

\* An officer's verb takes a seat with room, gives one back or does neither.
LEMMA TransitionIsOne ==
    ASSUME IInv, Remember, NEW r \in Regs, NEW to \in RegState, Transition(r, to)
    PROVE  /\ inbox' = inbox
           /\ Ledger!Take(r) \/ Ledger!GiveBack(r) \/ LedgerRow' = LedgerRow
<1>1. /\ registrations[r] \in Row /\ registrations[r].state # "absent"
      /\ registrations'[r] = [registrations[r] EXCEPT !.state = to]
      /\ \A s \in Regs \ {r} : registrations'[s] = registrations[s]
  BY TransitionDoes DEF IInv, TypeOK
<1>2. ~Heals /\ inbox' = inbox
  BY NobodyHeals DEF Transition
<1>3. /\ registrations'[r].state = to /\ registrations'[r].active = registrations[r].active
      /\ registrations'[r].event = registrations[r].event
      /\ registrations'[r].order = registrations[r].order
      /\ registrations'[r].sale_status = registrations[r].sale_status
      /\ registrations[r].event \in Events
  BY <1>1 DEF Row
<1>4. LedgerRow = [LedgerRow EXCEPT ![r] = LedgerRow[r]]
  BY DEF LedgerRow
<1>5. CASE ~registrations[r].active
  <2>1. Place(r)' = "archived" /\ Place(r) = "archived"
    BY <1>1, <1>3, <1>5 DEF Place, RegState
  <2>2. LedgerRow'[r] = LedgerRow[r]
    BY <1>3, <2>1 DEF LedgerRow, RowOf
  <2>3. QED
    BY <1>1, <1>2, <1>4, <2>2, OthersKept
<1>6. CASE registrations[r].active
  <2>1. LedgerRow'[r] =
          [place |-> IF to \notin SeatState THEN "held"
                     ELSE IF HoldsSeat(registrations[r]) THEN Place(r) ELSE "booked",
           event |-> registrations[r].event, order |-> registrations[r].order,
           owes |-> registrations[r].sale_status = "to_pay"]
    BY <1>2, <1>3, <1>6, RowWritten
  <2>2. LedgerRow[r].owes = (registrations[r].sale_status = "to_pay")
    BY <1>6, RowWith
  <2>3. \A place : [LedgerRow[r] EXCEPT !.place = place] =
                     [place |-> place, event |-> registrations[r].event,
                      order |-> registrations[r].order, owes |-> LedgerRow[r].owes]
    BY RowWith, Zenon
  <2>4. LedgerRow[r] = [place |-> Place(r), event |-> registrations[r].event,
                        order |-> registrations[r].order, owes |-> LedgerRow[r].owes]
    BY RowWith, Zenon
  <2>5. LedgerRow[r].place = Place(r)
    BY LedgerRowOf
  <2>6. CASE to \in SeatState /\ HoldsSeat(registrations[r])
    <3>1. LedgerRow'[r] = LedgerRow[r]
      BY <2>1, <2>2, <2>4, <2>6
    <3>2. QED
      BY <1>1, <1>2, <1>4, <3>1, OthersKept
  <2>7. CASE to \notin SeatState /\ ~HoldsSeat(registrations[r])
    <3>1. Place(r) = "held"
      BY <1>1, <1>6, <2>7 DEF Place, HoldsSeat
    <3>2. LedgerRow'[r] = LedgerRow[r]
      BY <2>1, <2>2, <2>4, <2>7, <3>1
    <3>3. QED
      BY <1>1, <1>2, <1>4, <3>2, OthersKept
  <2>8. CASE to \notin SeatState /\ HoldsSeat(registrations[r])
    <3>1. Place(r) \in {"booked", "lifted"}
      BY <2>8, PlaceSays
    <3>2. LedgerRow'[r] = [LedgerRow[r] EXCEPT !.place = "held"]
      BY <2>1, <2>2, <2>3, <2>8
    <3>3. LedgerRow' = [LedgerRow EXCEPT ![r] = [LedgerRow[r] EXCEPT !.place = "held"]]
      BY <1>1, <3>2, OthersKept
    <3>4. LedgerRow' = [LedgerRow EXCEPT ![r].place = "held"]
      BY <3>3
    <3>5. Ledger!GiveBack(r)
      BY <1>2, <2>5, <3>1, <3>4 DEF Ledger!GiveBack, LedgerRow
    <3>6. QED
      BY <1>2, <3>5
  <2>9. CASE to \in SeatState /\ ~HoldsSeat(registrations[r])
    <3>1. registrations[r].state \in {"draft", "cancel"}
      BY <1>1, <1>6, <2>9 DEF Row, RegState, SeatState, HoldsSeat
    <3>2. Place(r) = "held"
      BY <1>6, <3>1, PlaceSays
    <3>3. ~Exhausted(registrations[r].event, Cardinality(Holding(registrations[r].event)))
      BY <1>6, <2>9, <3>1 DEF Transition
    <3>4. LET e == registrations[r].event
          IN  Ledger!Fits(e, Ledger!Cardinality(Ledger!Seated(e)), 1)
      BY <1>3, <3>3, OneMoreFits
    <3>5. LedgerRow'[r] = [LedgerRow[r] EXCEPT !.place = "booked"]
      BY <2>1, <2>2, <2>3, <2>9
    <3>6. LedgerRow' = [LedgerRow EXCEPT ![r] = [LedgerRow[r] EXCEPT !.place = "booked"]]
      BY <1>1, <3>5, OthersKept
    <3>7. LedgerRow' = [LedgerRow EXCEPT ![r].place = "booked"]
      BY <3>6
    <3>8. LedgerRow[r].event = registrations[r].event
      BY LedgerRowOf
    <3>9. Ledger!Take(r)
      BY <1>2, <2>5, <3>2, <3>4, <3>7, <3>8 DEF Ledger!Take, LedgerRow
    <3>10. QED
      BY <1>2, <3>9
  <2>10. QED
    BY <2>6, <2>7, <2>8, <2>9
<1>7. QED
  BY <1>5, <1>6

LEMMA LedgerStep ==
    ASSUME IInv, WholeInv, HistoryInv, Next, Remember
    PROVE  Ledger!LedgerNext \/ (inbox' = inbox /\ LedgerRow' = LedgerRow)
<1>1. ASSUME inbox' = inbox, registrations' = registrations
      PROVE  inbox' = inbox /\ LedgerRow' = LedgerRow
  <2>1. \A r \in Regs : LedgerRow'[r] = LedgerRow[r]
    BY <1>1, RowKept
  <2>2. QED
    BY <1>1, <2>1 DEF LedgerRow
<1>2. ASSUME NEW t \in Txs, Seam(t)
      PROVE  Ledger!LedgerNext \/ (inbox' = inbox /\ LedgerRow' = LedgerRow)
  <2>1. CASE MintCommit(t) \/ HealConfirmed(t) \/ CancelCascade(t) \/ PaidCommit(t)
    <3>1. delivery[t] \in Deliveries
      BY DeliveryType
    <3>2. \E d \in Deliveries :
             Ledger!Mint(d) \/ Ledger!Heal(d) \/ Ledger!CancelOrder(d) \/ Ledger!Pay(d)
      BY <2>1, <3>1, MintIsOne, HealIsOne, CancelIsOne, PayIsOne
    <3>3. QED
      BY <3>2 DEF Ledger!LedgerNext
  <2>2. CASE \/ (\E d \in Deliveries : Claim(t, d)) \/ ReadLinked(t) \/ MintSpec(t)
             \/ MintRefused(t) \/ PaidHeal(t) \/ DeadlockVictim(t)
    BY <1>1, <2>2 DEF Claim, ReadLinked, MintSpec, MintRefused, PaidHeal, DeadlockVictim,
                      Abort, rows
  <2>3. QED
    BY <1>2, <2>1, <2>2 DEF Seam
<1>3. ASSUME NEW w \in WalkIns, NEW e \in Events, WalkIn(w, e)
      PROVE  Ledger!LedgerNext
  BY <1>3, WalkInIsOne DEF Ledger!LedgerNext
<1>4. ASSUME NEW r \in Regs, Archive(r)
      PROVE  Ledger!LedgerNext
  BY <1>4, ArchiveIsOne DEF Ledger!LedgerNext
<1>5. ASSUME NEW r \in Regs, NEW to \in RegState, Transition(r, to)
      PROVE  Ledger!LedgerNext \/ (inbox' = inbox /\ LedgerRow' = LedgerRow)
  BY <1>5, TransitionIsOne DEF Ledger!LedgerNext
<1>6. CASE Others
  BY <1>1, <1>6 DEF Others, Selling, SetSale, CloseMails, CloseLeads
<1>7. QED
  BY <1>2, <1>3, <1>4, <1>5, <1>6 DEF Next, Officer, Counter

LEMMA LedgerFollows ==
    ASSUME IInv, WholeInv, HistoryInv, [Next /\ Remember]_historyVars
    PROVE  [Ledger!LedgerNext]_(Ledger!ledgerVars)
<1>1. CASE UNCHANGED historyVars
  <2>1. UNCHANGED <<inbox, registrations, lifted>>
    BY <1>1 DEF historyVars, vars, rows
  <2>2. UNCHANGED LedgerRow
    BY <2>1 DEF LedgerRow, RowOf, Place
  <2>3. QED
    BY <2>1, <2>2 DEF Ledger!ledgerVars, LedgerRow
<1>2. CASE Next /\ Remember
  <2>1. Ledger!LedgerNext \/ (inbox' = inbox /\ LedgerRow' = LedgerRow)
    BY <1>2, LedgerStep
  <2>2. QED
    BY <2>1 DEF Ledger!ledgerVars, LedgerRow
<1>3. QED
  BY <1>1, <1>2

LEMMA InitLedger == HistoryInit => Ledger!LedgerInit
<1> SUFFICES ASSUME HistoryInit PROVE Ledger!LedgerInit
  OBVIOUS
<1>1. inbox = {} /\ registrations = [r \in Regs |-> AbsentRow]
  BY DEF HistoryInit, Init
<1>2. \A r \in Regs : LedgerRow[r] = Ledger!NoRow
  <2>1. TAKE r \in Regs
  <2>2. registrations[r] = AbsentRow /\ AbsentRow.state = "absent" /\ ~AbsentRow.active
    BY <1>1 DEF AbsentRow, NewRow
  <2>3. /\ AbsentRow.event = (CHOOSE e \in Events : TRUE) /\ AbsentRow.order = NoOrder
    BY DEF AbsentRow, NewRow
  <2>4. Place(r) = "none"
    BY <2>2 DEF Place
  <2>5. LedgerRow[r].owes = FALSE
    BY <2>2, RowWith
  <2>6. LedgerRow[r] = [place |-> Place(r), event |-> registrations[r].event,
                        order |-> registrations[r].order, owes |-> LedgerRow[r].owes]
    BY RowWith, Zenon
  <2>7. QED
    BY <2>2, <2>3, <2>4, <2>5, <2>6 DEF Ledger!NoRow, Ledger!NewRow
<1>3. LedgerRow = [r \in Regs |-> Ledger!NoRow]
  BY <1>2 DEF LedgerRow
<1>4. QED
  BY <1>1, <1>3 DEF Ledger!LedgerInit, LedgerRow

\* For any constants, in whatever order the facts come and whoever runs beside
\* them: the claim, the reads, the mint one attendee after the other, the two
\* statements of the paid verb, the refusals and the deadlocks amount to a ledger
\* whose facts take effect once, whole and in one step.
THEOREM SeamImplementsLedger == HistorySpec => ImplementsLedger
  BY InitLedger, LedgerFollows, HistoryAlways, PTL
     DEF HistorySpec, ImplementsLedger, Ledger!LedgerSpec
=============================================================================
