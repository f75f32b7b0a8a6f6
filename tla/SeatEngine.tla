----------------------------- MODULE SeatEngine -----------------------------
(***************************************************************************)
(* The seat engine: the register verb, the four state verbs and the desk   *)
(* scan, as READ COMMITTED transactions over the event and registration    *)
(* rows (src/src/infrastructure/persistence/seat_repository.rs,            *)
(* src/src/application/service/{registration_service,desk_service}.rs).    *)
(*                                                                         *)
(* A transaction is split at the statements where another session can get  *)
(* in between: taking a row lock, the count (a fresh statement snapshot of *)
(* the committed rows) and the commit.  What a transaction has written is  *)
(* invisible to the others until its commit, so its writes are part of the *)
(* commit step.  A slot row is locked only by a session that already holds *)
(* the lock of the slot's event, so it is never waited for and its lock is *)
(* part of the event-lock step.                                            *)
(***************************************************************************)
EXTENDS Naturals, FiniteSets

CONSTANTS
    Events,       \* event.events rows
    Slots,        \* event.slots rows
    SlotEvent,    \* the event a slot belongs to
    Regs,         \* ids event.registrations rows can get
    Txs,          \* database sessions, one verb at a time each
    SeatPatches,  \* the seat columns an event may be created with or patched to
    LeadAxes,     \* axes of the active lead rules in scope of the events
    NoSlot, NoReg, Free

ASSUME SeatEngineAssumption ==
    /\ Events # {} /\ IsFiniteSet(Regs)
    /\ SlotEvent \in [Slots -> Events]
    /\ SeatPatches \subseteq [is_multi_slots : BOOLEAN,
                              seats_limited : BOOLEAN, seats_max : Nat]
    /\ LeadAxes \subseteq {"on_create", "on_confirm", "on_done"}
    /\ NoSlot \notin Slots /\ Free \notin Txs
    /\ NoReg \notin Regs /\ NoReg \notin [event : Events, slot : Slots \cup {NoSlot}]

VARIABLES
    events,         \* the event rows
    registrations,  \* the committed registration rows
    mail_done,      \* per event: its after_sub schedulers are closed
    lead_request,   \* per event: its row in the lead queue, if there is one
    eventLock,      \* session holding the row lock of an event
    regLock,        \* session holding the row lock of a registration
    leadLock,       \* session whose insert of an event's first lead request waits
    pc,             \* where a session is in its verb
    arg             \* the verb a session runs

rows  == <<events, registrations, mail_done, lead_request>>
locks == <<eventLock, regLock, leadLock>>
vars  == <<rows, locks, pc, arg>>

-----------------------------------------------------------------------------
(* Rows                                                                    *)

\* The kanban states 'done' and 'cancel'; "ongoing" is any other.  The clock is
\* not modelled: the desk refuses an event past date_end as it does a done one.
Phase     == {"ongoing", "done", "cancel"}
RegState  == {"draft", "open", "done", "cancel"}
SeatState == {"open", "done"}
SlotRef   == Slots \cup {NoSlot}

EventRow == [phase : Phase, is_multi_slots : BOOLEAN,
             seats_limited : BOOLEAN, seats_max : Nat]

\* A row not inserted yet has the state "absent".  The closing date a transition
\* to 'done' stamps is left out: no verb reads it.
RegistrationRow == [state : RegState \cup {"absent"}, event : Events,
                    slot : SlotRef, active : BOOLEAN]

AbsentRow == [state |-> "absent", event |-> CHOOSE e \in Events : TRUE,
              slot |-> NoSlot, active |-> FALSE]

Verb == {"register", "transition", "desk"}
Arg  == [verb : Verb, event : Events, slot : SlotRef, reg : Regs \cup {NoReg},
         to : RegState, arm_leads : BOOLEAN]

PC == {"idle", "desk_ok", "wait_event", "locked", "counted", "staged", "keyshare"}

\* The ticket tier of a register command: none named, one of this event on
\* sale, one of another event, one whose sale window is shut.
Ticket == {"none", "on_sale", "foreign", "shut"}

NoArg == [verb |-> "register", event |-> AbsentRow.event, slot |-> NoSlot,
          reg |-> NoReg, to |-> "open", arm_leads |-> FALSE]

-----------------------------------------------------------------------------
(* The counting domain and the capacity refusal                            *)

HoldsSeat(row) == row.state \in SeatState /\ row.active

\* The rows one count sees: those of the slot when a slot is given, of the
\* whole event otherwise.
Holding(e, s) ==
    {r \in Regs : /\ registrations[r].event = e
                  /\ s = NoSlot \/ registrations[r].slot = s
                  /\ HoldsSeat(registrations[r])}

\* Broken variants the properties are tried against are named ..._Broken.
\* A refusal that begins one seat past the cap.
Exhausted_Broken(ev, taken) ==
    ev.seats_limited /\ ev.seats_max > 0 /\ taken > ev.seats_max

Exhausted(ev, taken) ==
    ev.seats_limited /\ ev.seats_max > 0 /\ taken >= ev.seats_max

TakesSeat(row, to) ==
    row.active /\ to \in SeatState /\ row.state \in {"draft", "cancel"}

Taken(a) == Cardinality(Holding(a.event, a.slot) \ {a.reg})

-----------------------------------------------------------------------------
(* Ending a verb: locks are dropped at commit and at rollback              *)

Release(t) ==
    /\ eventLock' = [e \in Events |-> IF eventLock[e] = t THEN Free ELSE eventLock[e]]
    /\ regLock'   = [r \in Regs |-> IF regLock[r] = t THEN Free ELSE regLock[r]]
    /\ leadLock'  = [e \in Events |-> IF leadLock[e] = t THEN Free ELSE leadLock[e]]

\* A connection handed back with its transaction open.
Finish_Broken(t) ==
    /\ UNCHANGED locks
    /\ pc' = [pc EXCEPT ![t] = "idle"]
    /\ arg' = [arg EXCEPT ![t] = NoArg]

Finish(t) ==
    /\ Release(t)
    /\ pc' = [pc EXCEPT ![t] = "idle"]
    /\ arg' = [arg EXCEPT ![t] = NoArg]

Goto(t, label) == pc' = [pc EXCEPT ![t] = label]

-----------------------------------------------------------------------------
(* Register                                                                *)

\* A register that does not look at the kanban state.
RegisterAdmits_Broken(e, s, ticket) ==
    /\ events[e].is_multi_slots => s # NoSlot
    /\ s # NoSlot => SlotEvent[s] = e
    /\ ticket \in {"none", "on_sale"}

\* What passes the refusals between the event lock and the count, and the
\* belonging trigger of the table: a refused command leaves no trace.
RegisterAdmits(e, s, ticket) ==
    /\ events[e].phase # "cancel"
    /\ events[e].is_multi_slots => s # NoSlot
    /\ s # NoSlot => SlotEvent[s] = e
    /\ ticket \in {"none", "on_sale"}

\* Bound: a register begins only while an id is left for the row it inserts.
IdLeft ==
    Cardinality({t \in Txs : pc[t] # "idle" /\ arg[t].verb = "register"})
        < Cardinality({r \in Regs : registrations[r].state = "absent"})

\* BEGIN, lock the event row (and the slot row), check the command.
RegisterLock(t, e, s, ticket, born, skip) ==
    /\ pc[t] = "idle" /\ eventLock[e] = Free
    /\ RegisterAdmits(e, s, ticket) /\ IdLeft
    /\ eventLock' = [eventLock EXCEPT ![e] = t]
    /\ arg' = [arg EXCEPT ![t] =
                  [verb |-> "register", event |-> e, slot |-> s, reg |-> NoReg,
                   to |-> born,
                   arm_leads |-> ~skip /\ LeadAxes \cap {"on_create", "on_confirm"} # {}]]
    /\ Goto(t, "locked")
    /\ UNCHANGED <<rows, regLock, leadLock>>

\* A count that forgets the attendees already checked in.
CountRoom_Broken(t) ==
    /\ pc[t] = "locked"
    /\ ~Exhausted(events[arg[t].event],
                  Cardinality({r \in Holding(arg[t].event, arg[t].slot) :
                                  registrations[r].state = "open"}))
    /\ Goto(t, "counted")
    /\ UNCHANGED <<rows, locks, arg>>

\* The one count, of register and of a seat-taking transition.
CountRoom(t) ==
    /\ pc[t] = "locked"
    /\ ~Exhausted(events[arg[t].event], Taken(arg[t]))
    /\ Goto(t, "counted")
    /\ UNCHANGED <<rows, locks, arg>>

CountExhausted(t) ==
    /\ pc[t] = "locked"
    /\ Exhausted(events[arg[t].event], Taken(arg[t]))
    /\ Finish(t)
    /\ UNCHANGED rows

\* An arm on every commit, an entry or not.
ArmMails_Broken(e, arm) == mail_done' = [mail_done EXCEPT ![e] = FALSE]

\* The arming writes of both verbs: a row entering 'open' re-opens the
\* after_sub schedulers of its event, an armed axis re-opens its lead request.
ArmMails(e, arm) == mail_done' = [mail_done EXCEPT ![e] = @ /\ ~arm]
ArmLeads(e, arm) == lead_request' = [lead_request EXCEPT ![e] = IF arm THEN "armed" ELSE @]

\* The verb of a session re-opens the lead request of its event.
Arming(t) ==
    LET a == arg[t] IN
    IF a.verb = "register" THEN a.arm_leads
    ELSE LET before == registrations[a.reg] IN
         /\ before.active /\ a.to # before.state
         /\ \/ a.to = "open" /\ "on_confirm" \in LeadAxes
            \/ a.to = "done" /\ "on_done" \in LeadAxes

\* INSERT .. ON CONFLICT (event_id) waits for a session that has inserted the
\* same request and not committed; a new request refers to its event, and
\* waits for whoever else holds that row FOR UPDATE.
ArmServed(t) ==
    LET e == arg[t].event IN
    Arming(t) =>
        \/ pc[t] = "counted" /\ leadLock[e] = Free
        \/ pc[t] = "staged" /\ lead_request[e] # "none"
        \/ pc[t] = "keyshare" /\ eventLock[e] = Free

\* INSERT, arm, COMMIT.
RegisterCommit(t, r) ==
    LET a == arg[t] IN
    /\ pc[t] = "counted" /\ a.verb = "register" /\ ArmServed(t)
    /\ registrations[r].state = "absent"
    /\ registrations' = [registrations EXCEPT ![r] =
           [state |-> a.to, event |-> a.event, slot |-> a.slot, active |-> TRUE]]
    /\ ArmMails(a.event, a.to = "open")
    /\ ArmLeads(a.event, Arming(t))
    /\ Finish(t)
    /\ UNCHANGED events

-----------------------------------------------------------------------------
(* The state verbs (any state to any state) and the desk scan              *)

\* A verb that reads the registration without FOR UPDATE.
LockRegistration_Broken(t, r, to, verb) ==
    /\ registrations[r].state # "absent" /\ regLock[r] = Free
    /\ arg' = [arg EXCEPT ![t] =
                  [verb |-> verb, event |-> registrations[r].event,
                   slot |-> registrations[r].slot, reg |-> r,
                   to |-> to, arm_leads |-> FALSE]]
    /\ Goto(t, IF TakesSeat(registrations[r], to) THEN "wait_event" ELSE "staged")
    /\ UNCHANGED <<rows, locks>>

\* BEGIN, lock and update the registration row.
LockRegistration(t, r, to, verb) ==
    LET row == registrations[r] IN
    /\ row.state # "absent" /\ regLock[r] = Free
    /\ regLock' = [regLock EXCEPT ![r] = t]
    /\ arg' = [arg EXCEPT ![t] =
                  [verb |-> verb, event |-> row.event, slot |-> row.slot, reg |-> r,
                   to |-> to, arm_leads |-> FALSE]]
    /\ Goto(t, IF TakesSeat(row, to) THEN "wait_event" ELSE "staged")
    /\ UNCHANGED <<rows, eventLock, leadLock>>

TransitionBegin(t, r, to) ==
    /\ pc[t] = "idle"
    /\ LockRegistration(t, r, to, "transition")

\* The seat head of a transition into the holding domain.
TransitionLockEvent(t) ==
    LET e == arg[t].event IN
    /\ pc[t] = "wait_event" /\ eventLock[e] = Free
    /\ eventLock' = [eventLock EXCEPT ![e] = t]
    /\ Goto(t, "locked")
    /\ UNCHANGED <<rows, regLock, leadLock, arg>>

\* A transition that holds no event lock inserts the event's first request:
\* the row is there for the others to wait for before its reference is checked.
ArmRequest(t) ==
    LET e == arg[t].event IN
    /\ pc[t] = "staged" /\ Arming(t)
    /\ lead_request[e] = "none" /\ leadLock[e] = Free
    /\ leadLock' = [leadLock EXCEPT ![e] = t]
    /\ Goto(t, "keyshare")
    /\ UNCHANGED <<rows, eventLock, regLock, arg>>

TransitionCommit(t) ==
    LET a == arg[t]
        before == registrations[a.reg]
        enters == before.active /\ a.to # before.state
    IN
    /\ a.verb # "register"
    /\ pc[t] \in {"counted", "staged", "keyshare"} /\ ArmServed(t)
    /\ registrations' = [registrations EXCEPT ![a.reg].state = a.to]
    /\ ArmMails(a.event, enters /\ a.to = "open" /\ before.state \in {"draft", "cancel"})
    /\ ArmLeads(a.event, Arming(t))
    /\ Finish(t)
    /\ UNCHANGED events

\* Session t waits for a lock that session u holds, both at the arming insert.
WaitsFor(t, u) ==
    LET e == arg[t].event IN
    \/ pc[t] = "keyshare" /\ eventLock[e] = u
    \/ pc[t] = "counted" /\ Arming(t) /\ leadLock[e] = u

Deadlocked(t) == \E u \in Txs : WaitsFor(t, u) /\ WaitsFor(u, t)

\* The database breaks a deadlock by failing the statement of a session in it:
\* its verb rolls back and reports the error.
DeadlockVictim(t) ==
    /\ pc[t] \in {"counted", "keyshare"} /\ Deadlocked(t)
    /\ Finish(t)
    /\ UNCHANGED rows

\* What is left of the desk's frozen branch order when no branch refused.
DeskAdmits(row, e) ==
    /\ row.active /\ row.state = "open"
    /\ events[e].phase = "ongoing"
    /\ row.event = e

\* The reads of the scan: no lock outlives them.
DeskScan(t, r, e) ==
    /\ pc[t] = "idle"
    /\ DeskAdmits(registrations[r], e)
    /\ Goto(t, "desk_ok")
    /\ arg' = [arg EXCEPT ![t] =
                  [verb |-> "desk", event |-> e, slot |-> registrations[r].slot,
                   reg |-> r, to |-> "done", arm_leads |-> FALSE]]
    /\ UNCHANGED <<rows, locks>>

\* The one write of the scan: the transition verb in a transaction of its own.
DeskTransition(t) ==
    /\ pc[t] = "desk_ok"
    /\ LockRegistration(t, arg[t].reg, "done", "desk")

-----------------------------------------------------------------------------
(* Writers of the same rows outside the verbs.  An UPDATE of an event or a *)
(* registration waits for its row lock.                                    *)

EventUpdate(e, row) ==
    /\ eventLock[e] = Free
    /\ events' = [events EXCEPT ![e] = row]
    /\ UNCHANGED <<registrations, mail_done, lead_request, locks, pc, arg>>

\* The officer's patch: the seat columns, never the kanban state.
PatchEvent(e, p) ==
    EventUpdate(e, [events[e] EXCEPT !.is_multi_slots = p.is_multi_slots,
                                     !.seats_limited = p.seats_limited,
                                     !.seats_max = p.seats_max])

\* mark_done, from any kanban state, and the done sweep.
MarkDone(e) == EventUpdate(e, [events[e] EXCEPT !.phase = "done"])

\* No verb of the module cancels an event: the host writes the column.
CancelEvent(e) == EventUpdate(e, [events[e] EXCEPT !.phase = "cancel"])

\* The archive axis is written by the host.
Archive(r) ==
    /\ regLock[r] = Free /\ registrations[r].active
    /\ registrations' = [registrations EXCEPT ![r].active = FALSE]
    /\ UNCHANGED <<events, mail_done, lead_request, locks, pc, arg>>

\* A scheduler pass closes the after_sub schedulers; a lead walk finishes.
CloseMails(e) ==
    /\ mail_done' = [mail_done EXCEPT ![e] = TRUE]
    /\ UNCHANGED <<events, registrations, lead_request, locks, pc, arg>>

CloseLeads(e) ==
    /\ lead_request[e] # "none"
    /\ lead_request' = [lead_request EXCEPT ![e] = "done"]
    /\ UNCHANGED <<events, registrations, mail_done, locks, pc, arg>>

-----------------------------------------------------------------------------

Init ==
    /\ events \in [Events -> {[phase |-> "ongoing",
                               is_multi_slots |-> p.is_multi_slots,
                               seats_limited |-> p.seats_limited,
                               seats_max |-> p.seats_max] : p \in SeatPatches}]
    /\ registrations = [r \in Regs |-> AbsentRow]
    /\ mail_done = [e \in Events |-> FALSE]
    /\ lead_request = [e \in Events |-> "none"]
    /\ eventLock = [e \in Events |-> Free]
    /\ regLock = [r \in Regs |-> Free]
    /\ leadLock = [e \in Events |-> Free]
    /\ pc = [t \in Txs |-> "idle"]
    /\ arg = [t \in Txs |-> NoArg]

\* A request arrives.
Begin(t) ==
    \/ \E e \in Events, s \in SlotRef, ticket \in Ticket,
          born \in {"open", "draft"}, skip \in BOOLEAN :
          RegisterLock(t, e, s, ticket, born, skip)
    \/ \E r \in Regs, to \in RegState : TransitionBegin(t, r, to)
    \/ \E r \in Regs, e \in Events : DeskScan(t, r, e)

\* The next statement of a verb that has begun.
Continue(t) ==
    \/ CountRoom(t)
    \/ CountExhausted(t)
    \/ \E r \in Regs : RegisterCommit(t, r)
    \/ TransitionLockEvent(t)
    \/ ArmRequest(t)
    \/ TransitionCommit(t)
    \/ DeadlockVictim(t)
    \/ DeskTransition(t)

Environment ==
    \/ \E e \in Events :
          \/ \E p \in SeatPatches : PatchEvent(e, p)
          \/ MarkDone(e) \/ CancelEvent(e)
          \/ CloseMails(e) \/ CloseLeads(e)
    \/ \E r \in Regs : Archive(r)

Next == (\E t \in Txs : Begin(t) \/ Continue(t)) \/ Environment

Spec == Init /\ [][Next]_vars

\* A waiter on a row lock is served in its turn (the lock queue of the
\* database is first come first served): strong fairness per session.
FairSpec == Spec /\ \A t \in Txs : SF_vars(Continue(t))

-----------------------------------------------------------------------------
(* Types and the inductive invariant                                       *)

\* Every variable has its type.
TypeOK ==
    /\ events \in [Events -> EventRow]
    /\ registrations \in [Regs -> RegistrationRow]
    /\ mail_done \in [Events -> BOOLEAN]
    /\ lead_request \in [Events -> {"none", "armed", "done"}]
    /\ eventLock \in [Events -> Txs \cup {Free}]
    /\ regLock \in [Regs -> Txs \cup {Free}]
    /\ leadLock \in [Events -> Txs \cup {Free}]
    /\ pc \in [Txs -> PC]
    /\ arg \in [Txs -> Arg]

InTransition(t) ==
    /\ arg[t].verb # "register"
    /\ pc[t] \in {"wait_event", "locked", "counted", "staged", "keyshare"}

\* A session past the event lock holds it, and it alone; a session that has
\* ended holds nothing.
EventLockHeld ==
    \A t \in Txs, e \in Events :
        eventLock[e] = t <=> pc[t] \in {"locked", "counted"} /\ arg[t].event = e

\* A state verb past its first statement holds its row, and it alone.
RegistrationLockHeld ==
    \A t \in Txs :
        /\ \A r \in Regs : regLock[r] = t <=> InTransition(t) /\ arg[t].reg = r
        /\ pc[t] = "desk_ok" \/ InTransition(t) => arg[t].reg \in Regs
        /\ arg[t].verb = "register" => arg[t].reg = NoReg
        /\ pc[t] \in {"desk_ok", "wait_event", "staged", "keyshare"} => arg[t].verb # "register"

\* A session that waits for the event row in a first insert of its request
\* holds that request, and it alone; it still has to arm, and nobody else has
\* inserted the request meanwhile.
FirstRequestHeld ==
    \A t \in Txs, e \in Events :
        /\ leadLock[e] = t <=> pc[t] = "keyshare" /\ arg[t].event = e
        /\ leadLock[e] = t => Arming(t) /\ lead_request[e] = "none"

\* The event, the slot and the seat decision a state verb took from its row
\* are still the row's.
LockedRowStable ==
    \A t \in Txs : InTransition(t) =>
        LET row == registrations[arg[t].reg] IN
        /\ row.state # "absent"
        /\ row.event = arg[t].event /\ row.slot = arg[t].slot
        /\ pc[t] \in {"staged", "keyshare"} => ~TakesSeat(row, arg[t].to)

\* The room a session counted is still there when it commits.
CountedRoomHolds ==
    \A t \in Txs :
        pc[t] = "counted" => ~Exhausted(events[arg[t].event], Taken(arg[t]))

\* The event a register was admitted to is not cancelled while it is at work.
AdmittedEventStands ==
    \A t \in Txs :
        pc[t] \in {"locked", "counted"} /\ arg[t].verb = "register" =>
            events[arg[t].event].phase # "cancel"

IInv ==
    /\ TypeOK
    /\ EventLockHeld
    /\ RegistrationLockHeld
    /\ FirstRequestHeld
    /\ LockedRowStable
    /\ CountedRoomHolds
    /\ AdmittedEventStands

-----------------------------------------------------------------------------
(* Properties                                                              *)

Enters(r) == HoldsSeat(registrations[r])' /\ ~HoldsSeat(registrations[r])

WithinCap(e, s) == ~Exhausted(events[e], Cardinality(Holding(e, s)) - 1)

\* However the sessions interleave, with seats being freed, archived and
\* re-configured around them, a row that comes to hold a seat leaves its
\* counted scope within the cap in force at the commit.
SeatTakenWithinCap ==
    [][\A r \in Regs : Enters(r) =>
          WithinCap(registrations[r].event, registrations[r].slot)']_vars

\* No registration is inserted in an event that is cancelled by the time the
\* transaction commits.
CancelledEventTakesNoRow ==
    [][\A r \in Regs : registrations[r].state = "absent" =>
          \/ registrations'[r].state = "absent"
          \/ events'[registrations'[r].event].phase # "cancel"]_vars

\* The schedulers of an event are re-opened by a commit that moves an active
\* row to 'open' from outside the holding domain, and by nothing else.
ArmsOnEntryToOpen ==
    [][\A e \in Events :
          LET entered == \E r \in Regs : /\ Enters(r)
                                         /\ registrations'[r].state = "open"
                                         /\ registrations'[r].event = e
          IN  /\ entered => ~mail_done'[e]
              /\ mail_done[e] /\ ~mail_done'[e] => entered]_vars

\* Seen from outside, the locks, the snapshots and the commits amount to a
\* book in which counting and taking a seat are one indivisible step.
Book == INSTANCE SeatBook WITH
    Seats <- [event : Events, slot : SlotRef],
    NoSeat <- NoReg,
    caps <- [e \in Events |-> [seats_limited |-> events[e].seats_limited,
                               seats_max |-> events[e].seats_max]],
    book <- [r \in Regs |-> IF HoldsSeat(registrations[r])
                            THEN [event |-> registrations[r].event,
                                  slot |-> registrations[r].slot]
                            ELSE NoReg]

ImplementsBook == Book!BookSpec

\* A verb that has begun ends, in its commit or in an error: every wait for a
\* row ends, and two sessions that wait for each other are told apart.
EveryVerbEnds == \A t \in Txs : pc[t] # "idle" ~> pc[t] = "idle"

\* seat_repository.rs says of registers and transitions that no cycle exists
\* between their two lock orders: no two of them ever wait for each other.
NoVerbsWaitForEachOther == \A t \in Txs : ~Deadlocked(t)

\* desk_service.rs says a cancelled or draft ticket is refused without a
\* write: a scan only ever turns an open row into a done one.
DeskChecksInOpenRows ==
    [][\A t \in Txs :
          arg[t].verb = "desk" /\ registrations'[arg[t].reg] # registrations[arg[t].reg]
             /\ pc'[t] = "idle" /\ pc[t] # "idle"
             => registrations[arg[t].reg].state = "open"]_vars

\* seat_repository.rs says single-slot events count over the event.
SingleSlotCountsOverEvent ==
    [][\A r \in Regs : Enters(r) /\ ~events[registrations'[r].event].is_multi_slots =>
          WithinCap(registrations[r].event, NoSlot)']_vars

=============================================================================
