-------------------------- MODULE SeatEngineProofs --------------------------
(***************************************************************************)
(* The seat engine never oversells, for any number of events, slots,       *)
(* registrations and sessions.  IInv is inductive: its lock conjuncts say  *)
(* that what a session read under its locks is still true, and the last    *)
(* one turns that into the room it counted still being there at commit.    *)
(***************************************************************************)
EXTENDS SeatEngine, FiniteSetTheorems, TLAPS

-----------------------------------------------------------------------------
(* Facts about the rows                                                    *)

\* The row not inserted yet and the empty verb are well typed.
LEMMA BlankTypes ==
    /\ AbsentRow \in RegistrationRow /\ AbsentRow.event \in Events
    /\ AbsentRow.state = "absent"
    /\ NoArg \in Arg
<1>1. (CHOOSE e \in Events : TRUE) \in Events
  BY SeatEngineAssumption
<1>2. AbsentRow \in RegistrationRow /\ AbsentRow.event \in Events /\ AbsentRow.state = "absent"
  BY <1>1 DEF AbsentRow, RegistrationRow, RegState, SlotRef
<1>3. QED
  BY <1>2 DEF NoArg, Arg, Verb, RegState, SlotRef

\* Every set of registrations has a cardinality, monotonic in the set.
LEMMA RegCardinality ==
    ASSUME NEW A \in SUBSET Regs, NEW B \in SUBSET Regs, A \subseteq B
    PROVE  /\ Cardinality(A) \in Nat /\ Cardinality(B) \in Nat
           /\ Cardinality(A) <= Cardinality(B)
<1>1. IsFiniteSet(B)
  BY FS_Subset, SeatEngineAssumption
<1>2. QED
  BY <1>1, FS_Subset, FS_CardinalityType

\* A count that only shrank finds no less room under the same cap.
LEMMA RoomMonotone ==
    ASSUME NEW ev \in EventRow, NEW n \in Nat, NEW m \in Nat, m <= n, ~Exhausted(ev, n)
    PROVE  ~Exhausted(ev, m)
  BY DEF Exhausted, EventRow

-----------------------------------------------------------------------------
(* Types                                                                   *)

LEMMA InitTypeOK == Init => TypeOK
<1> SUFFICES ASSUME Init PROVE TypeOK
  OBVIOUS
<1>1. events \in [Events -> EventRow]
  BY SeatEngineAssumption DEF Init, EventRow, Phase
<1>2. registrations \in [Regs -> RegistrationRow]
  BY BlankTypes DEF Init
<1>3. arg \in [Txs -> Arg]
  BY BlankTypes DEF Init
<1>4. QED
  BY <1>1, <1>2, <1>3 DEF Init, TypeOK, PC

\* Ending a verb keeps the types of the locks and of the session.
LEMMA FinishTypes ==
    ASSUME TypeOK, NEW t \in Txs, Finish(t)
    PROVE  /\ eventLock' \in [Events -> Txs \cup {Free}]
           /\ regLock' \in [Regs -> Txs \cup {Free}]
           /\ leadLock' \in [Events -> Txs \cup {Free}]
           /\ pc' \in [Txs -> PC]
           /\ arg' \in [Txs -> Arg]
<1>1. /\ eventLock' \in [Events -> Txs \cup {Free}] /\ regLock' \in [Regs -> Txs \cup {Free}]
      /\ leadLock' \in [Events -> Txs \cup {Free}]
  BY DEF TypeOK, Finish, Release
<1>2. pc' \in [Txs -> PC]
  BY DEF TypeOK, Finish, PC
<1>3. arg' \in [Txs -> Arg]
  BY BlankTypes DEF TypeOK, Finish
<1>4. QED
  BY <1>1, <1>2, <1>3

LEMMA LockRegistrationTypes ==
    ASSUME TypeOK, NEW t \in Txs, NEW r \in Regs, NEW to \in RegState, NEW verb \in Verb,
           LockRegistration(t, r, to, verb)
    PROVE  TypeOK'
<1>1. registrations[r] \in RegistrationRow
  BY DEF TypeOK
<1>2. arg' \in [Txs -> Arg]
  BY <1>1 DEF TypeOK, LockRegistration, RegistrationRow, Arg
<1>3. pc' \in [Txs -> PC]
  BY DEF TypeOK, LockRegistration, Goto, PC
<1>4. QED
  BY <1>2, <1>3 DEF TypeOK, LockRegistration, rows

\* The steps that write an event row.
EventWrite(e) ==
    \/ \E p \in SeatPatches : PatchEvent(e, p)
    \/ MarkDone(e) \/ CancelEvent(e)

LEMMA EventWriteUpdates ==
    ASSUME TypeOK, NEW e \in Events, EventWrite(e)
    PROVE  \E row \in EventRow : EventUpdate(e, row)
<1>1. events[e] \in EventRow
  BY DEF TypeOK
<1>2. ASSUME NEW p \in SeatPatches, PatchEvent(e, p)
      PROVE  \E row \in EventRow : EventUpdate(e, row)
  <2>1. p \in [is_multi_slots : BOOLEAN, seats_limited : BOOLEAN, seats_max : Nat]
    BY SeatEngineAssumption
  <2>2. QED
    BY <1>1, <1>2, <2>1 DEF PatchEvent, EventRow, Phase
<1>3. CASE MarkDone(e)
  BY <1>1, <1>3 DEF MarkDone, EventRow, Phase
<1>4. CASE CancelEvent(e)
  BY <1>1, <1>4 DEF CancelEvent, EventRow, Phase
<1>5. QED
  BY <1>2, <1>3, <1>4 DEF EventWrite

LEMMA NextTypeOK == TypeOK /\ RegistrationLockHeld /\ [Next]_vars => TypeOK'
<1> SUFFICES ASSUME TypeOK, RegistrationLockHeld, [Next]_vars PROVE TypeOK'
  OBVIOUS
<1>1. ASSUME NEW t \in Txs, NEW e \in Events, NEW s \in SlotRef, NEW ticket \in Ticket,
             NEW born \in {"open", "draft"}, NEW skip \in BOOLEAN,
             RegisterLock(t, e, s, ticket, born, skip)
      PROVE  TypeOK'
  <2>1. arg' \in [Txs -> Arg]
    BY <1>1 DEF TypeOK, RegisterLock, Arg, Verb, RegState
  <2>2. pc' \in [Txs -> PC] /\ eventLock' \in [Events -> Txs \cup {Free}]
    BY <1>1 DEF TypeOK, RegisterLock, Goto, PC
  <2>3. QED
    BY <1>1, <2>1, <2>2 DEF TypeOK, RegisterLock, rows
<1>2. ASSUME NEW t \in Txs, NEW r \in Regs, NEW to \in RegState, TransitionBegin(t, r, to)
      PROVE  TypeOK'
  BY <1>2, LockRegistrationTypes DEF TransitionBegin, Verb
<1>3. ASSUME NEW t \in Txs, NEW r \in Regs, NEW e \in Events, DeskScan(t, r, e)
      PROVE  TypeOK'
  <2>1. registrations[r].slot \in SlotRef
    BY DEF TypeOK, RegistrationRow
  <2>2. arg' \in [Txs -> Arg]
    BY <1>3, <2>1 DEF TypeOK, DeskScan, Arg, Verb, RegState
  <2>3. pc' \in [Txs -> PC]
    BY <1>3 DEF TypeOK, DeskScan, Goto, PC
  <2>4. QED
    BY <1>3, <2>2, <2>3 DEF TypeOK, DeskScan, rows, locks
<1>4. ASSUME NEW t \in Txs, CountRoom(t)
      PROVE  TypeOK'
  BY <1>4 DEF TypeOK, CountRoom, Goto, PC, rows, locks
<1>5. ASSUME NEW t \in Txs, CountExhausted(t)
      PROVE  TypeOK'
  BY <1>5, FinishTypes DEF TypeOK, CountExhausted, rows
<1>6. ASSUME NEW t \in Txs, NEW r \in Regs, RegisterCommit(t, r)
      PROVE  TypeOK'
  <2>1. arg[t] \in Arg
    BY DEF TypeOK
  <2>2. registrations' \in [Regs -> RegistrationRow]
    BY <1>6, <2>1 DEF TypeOK, RegisterCommit, RegistrationRow, Arg
  <2>3. /\ mail_done' \in [Events -> BOOLEAN]
        /\ lead_request' \in [Events -> {"none", "armed", "done"}]
    BY <1>6 DEF TypeOK, RegisterCommit, ArmMails, ArmLeads
  <2>4. Finish(t) /\ UNCHANGED events
    BY <1>6 DEF RegisterCommit
  <2>5. QED
    BY <2>2, <2>3, <2>4, FinishTypes DEF TypeOK
<1>7. ASSUME NEW t \in Txs, TransitionLockEvent(t)
      PROVE  TypeOK'
  BY <1>7 DEF TypeOK, TransitionLockEvent, Goto, PC, Arg, rows
<1>8. ASSUME NEW t \in Txs, TransitionCommit(t)
      PROVE  TypeOK'
  <2>1. arg[t] \in Arg
    BY DEF TypeOK
  <2>2. registrations' \in [Regs -> RegistrationRow]
    <3> DEFINE before == registrations[arg[t].reg]
               after  == [before EXCEPT !.state = arg[t].to]
    <3>1. arg[t].reg \in Regs
      BY <1>8 DEF TransitionCommit, RegistrationLockHeld, InTransition
    <3>2. before \in RegistrationRow
      BY <3>1 DEF TypeOK
    <3>3. after \in RegistrationRow
      BY <2>1, <3>2 DEF RegistrationRow, Arg
    <3>4. registrations' = [registrations EXCEPT ![arg[t].reg] = after]
      BY <1>8 DEF TransitionCommit
    <3>5. QED
      BY <3>1, <3>3, <3>4 DEF TypeOK
  <2>3. /\ mail_done' \in [Events -> BOOLEAN]
        /\ lead_request' \in [Events -> {"none", "armed", "done"}]
    BY <1>8 DEF TypeOK, TransitionCommit, ArmMails, ArmLeads
  <2>4. Finish(t) /\ UNCHANGED events
    BY <1>8 DEF TransitionCommit
  <2>5. QED
    BY <2>2, <2>3, <2>4, FinishTypes DEF TypeOK
<1>9. ASSUME NEW t \in Txs, DeskTransition(t)
      PROVE  TypeOK'
  <2>1. arg[t].reg \in Regs /\ LockRegistration(t, arg[t].reg, "done", "desk")
    BY <1>9 DEF DeskTransition, RegistrationLockHeld
  <2>2. QED
    BY <2>1, LockRegistrationTypes DEF RegState, Verb
<1>10. ASSUME NEW e \in Events, EventWrite(e)
       PROVE  TypeOK'
  <2>1. PICK row \in EventRow : EventUpdate(e, row)
    BY <1>10, EventWriteUpdates
  <2>2. QED
    BY <2>1 DEF TypeOK, EventUpdate, locks
<1>11. ASSUME NEW e \in Events, CloseMails(e) \/ CloseLeads(e)
       PROVE  TypeOK'
  BY <1>11 DEF TypeOK, CloseMails, CloseLeads, locks
<1>12. ASSUME NEW r \in Regs, Archive(r)
       PROVE  TypeOK'
  BY <1>12 DEF TypeOK, Archive, RegistrationRow, locks
<1>13. CASE UNCHANGED vars
  BY <1>13 DEF TypeOK, vars, rows, locks
<1>14. ASSUME NEW t \in Txs, ArmRequest(t)
       PROVE  TypeOK'
  BY <1>14 DEF TypeOK, ArmRequest, Goto, PC, Arg, rows
<1>15. ASSUME NEW t \in Txs, DeadlockVictim(t)
       PROVE  TypeOK'
  BY <1>15, FinishTypes DEF TypeOK, DeadlockVictim, rows
<1>16. QED
  BY <1>1, <1>2, <1>3, <1>4, <1>5, <1>6, <1>7, <1>8, <1>9, <1>10, <1>11, <1>12, <1>13, <1>14,
     <1>15 DEF Next, Begin, Continue, Environment, EventWrite

-----------------------------------------------------------------------------
(* Locks                                                                   *)

\* A session that ends drops exactly its own locks.
LEMMA FinishLocks ==
    ASSUME TypeOK, EventLockHeld, RegistrationLockHeld, NEW t \in Txs, Finish(t)
    PROVE  EventLockHeld' /\ RegistrationLockHeld'
<1>1. /\ \A u \in Txs : pc'[u] = IF u = t THEN "idle" ELSE pc[u]
      /\ \A u \in Txs : arg'[u] = IF u = t THEN NoArg ELSE arg[u]
  BY DEF TypeOK, Finish
<1>2. /\ \A u \in Txs, e \in Events : eventLock'[e] = u <=> u # t /\ eventLock[e] = u
      /\ \A u \in Txs, r \in Regs : regLock'[r] = u <=> u # t /\ regLock[r] = u
  BY SeatEngineAssumption DEF Finish, Release
<1>3. EventLockHeld'
  BY <1>1, <1>2 DEF EventLockHeld
<1>4. RegistrationLockHeld'
  BY <1>1, <1>2 DEF RegistrationLockHeld, InTransition, NoArg
<1>5. QED
  BY <1>3, <1>4

\* The first statement of a state verb locks its row and no event.
LEMMA LockRegistrationLocks ==
    ASSUME TypeOK, EventLockHeld, RegistrationLockHeld,
           NEW t \in Txs, NEW r \in Regs, NEW to \in RegState, NEW verb \in Verb \ {"register"},
           pc[t] \in {"idle", "desk_ok"}, LockRegistration(t, r, to, verb)
    PROVE  EventLockHeld' /\ RegistrationLockHeld'
<1>1. /\ pc'[t] \in {"wait_event", "staged"} /\ arg'[t].verb = verb /\ arg'[t].reg = r
      /\ \A u \in Txs \ {t} : pc'[u] = pc[u] /\ arg'[u] = arg[u]
  BY DEF TypeOK, LockRegistration, Goto
<1>2. /\ eventLock' = eventLock
      /\ \A q \in Regs : regLock'[q] = IF q = r THEN t ELSE regLock[q]
      /\ regLock[r] = Free
  BY DEF TypeOK, LockRegistration
<1>3. EventLockHeld'
  BY <1>1, <1>2 DEF EventLockHeld
<1>4. RegistrationLockHeld'
  <2> SUFFICES ASSUME NEW u \in Txs
               PROVE  /\ \A q \in Regs : regLock'[q] = u <=> InTransition(u)' /\ arg'[u].reg = q
                      /\ pc'[u] = "desk_ok" \/ InTransition(u)' => arg'[u].reg \in Regs
                      /\ arg'[u].verb = "register" => arg'[u].reg = NoReg
                      /\ pc'[u] \in {"desk_ok", "wait_event", "staged", "keyshare"} =>
                            arg'[u].verb # "register"
    BY DEF RegistrationLockHeld
  <2>1. CASE u = t
    BY <1>1, <1>2, <2>1 DEF RegistrationLockHeld, InTransition
  <2>2. CASE u # t
    BY <1>1, <1>2, <2>2, SeatEngineAssumption DEF RegistrationLockHeld, InTransition
  <2>3. QED
    BY <2>1, <2>2
<1>5. QED
  BY <1>3, <1>4

LEMMA NextLocks ==
    TypeOK /\ EventLockHeld /\ RegistrationLockHeld /\ [Next]_vars =>
        EventLockHeld' /\ RegistrationLockHeld'
<1> SUFFICES ASSUME TypeOK, EventLockHeld, RegistrationLockHeld, [Next]_vars
             PROVE  EventLockHeld' /\ RegistrationLockHeld'
  OBVIOUS
<1>1. ASSUME NEW t \in Txs, NEW e \in Events, NEW s \in SlotRef, NEW ticket \in Ticket,
             NEW born \in {"open", "draft"}, NEW skip \in BOOLEAN,
             RegisterLock(t, e, s, ticket, born, skip)
      PROVE  EventLockHeld' /\ RegistrationLockHeld'
  <2>1. /\ pc[t] = "idle" /\ pc'[t] = "locked"
        /\ arg'[t].verb = "register" /\ arg'[t].event = e /\ arg'[t].reg = NoReg
        /\ \A u \in Txs \ {t} : pc'[u] = pc[u] /\ arg'[u] = arg[u]
    BY <1>1 DEF TypeOK, RegisterLock, Goto
  <2>2. /\ eventLock[e] = Free /\ regLock' = regLock
        /\ \A d \in Events : eventLock'[d] = IF d = e THEN t ELSE eventLock[d]
    BY <1>1 DEF TypeOK, RegisterLock
  <2>3. EventLockHeld'
    BY <2>1, <2>2, SeatEngineAssumption DEF EventLockHeld
  <2>4. RegistrationLockHeld'
    BY <2>1, <2>2 DEF RegistrationLockHeld, InTransition
  <2>5. QED
    BY <2>3, <2>4
<1>2. ASSUME NEW t \in Txs, NEW r \in Regs, NEW to \in RegState, TransitionBegin(t, r, to)
      PROVE  EventLockHeld' /\ RegistrationLockHeld'
  BY <1>2, LockRegistrationLocks DEF TransitionBegin, Verb
<1>3. ASSUME NEW t \in Txs, NEW r \in Regs, NEW e \in Events, DeskScan(t, r, e)
      PROVE  EventLockHeld' /\ RegistrationLockHeld'
  <2>1. /\ pc[t] = "idle" /\ pc'[t] = "desk_ok" /\ arg'[t].verb = "desk" /\ arg'[t].reg = r
        /\ \A u \in Txs \ {t} : pc'[u] = pc[u] /\ arg'[u] = arg[u]
        /\ eventLock' = eventLock /\ regLock' = regLock
    BY <1>3 DEF TypeOK, DeskScan, Goto, locks
  <2>2. QED
    BY <2>1 DEF EventLockHeld, RegistrationLockHeld, InTransition
<1>4. ASSUME NEW t \in Txs, CountRoom(t)
      PROVE  EventLockHeld' /\ RegistrationLockHeld'
  <2>1. /\ pc[t] = "locked" /\ pc'[t] = "counted" /\ arg' = arg
        /\ \A u \in Txs \ {t} : pc'[u] = pc[u]
        /\ eventLock' = eventLock /\ regLock' = regLock
    BY <1>4 DEF TypeOK, CountRoom, Goto, locks
  <2>2. QED
    BY <2>1 DEF EventLockHeld, RegistrationLockHeld, InTransition
<1>5. ASSUME NEW t \in Txs, TransitionLockEvent(t)
      PROVE  EventLockHeld' /\ RegistrationLockHeld'
  <2>1. /\ pc[t] = "wait_event" /\ pc'[t] = "locked" /\ arg' = arg
        /\ \A u \in Txs \ {t} : pc'[u] = pc[u]
    BY <1>5 DEF TypeOK, TransitionLockEvent, Goto
  <2>2. /\ eventLock[arg[t].event] = Free /\ regLock' = regLock
        /\ \A d \in Events : eventLock'[d] = IF d = arg[t].event THEN t ELSE eventLock[d]
    BY <1>5 DEF TypeOK, TransitionLockEvent
  <2>3. EventLockHeld'
    BY <2>1, <2>2, SeatEngineAssumption DEF EventLockHeld
  <2>4. RegistrationLockHeld'
    BY <2>1, <2>2 DEF RegistrationLockHeld, InTransition
  <2>5. QED
    BY <2>3, <2>4
<1>6. ASSUME NEW t \in Txs, DeskTransition(t)
      PROVE  EventLockHeld' /\ RegistrationLockHeld'
  <2>1. arg[t].reg \in Regs /\ LockRegistration(t, arg[t].reg, "done", "desk")
    BY <1>6 DEF DeskTransition, RegistrationLockHeld
  <2>2. QED
    BY <1>6, <2>1, LockRegistrationLocks DEF DeskTransition, RegState, Verb
<1>7. ASSUME NEW t \in Txs, Finish(t)
      PROVE  EventLockHeld' /\ RegistrationLockHeld'
  BY <1>7, FinishLocks
<1>8. CASE Environment \/ UNCHANGED vars
  <2>1. UNCHANGED <<locks, pc, arg>>
    BY <1>8 DEF Environment, PatchEvent, MarkDone, CancelEvent, EventUpdate, CloseMails,
                CloseLeads, Archive, vars
  <2>2. QED
    BY <2>1 DEF EventLockHeld, RegistrationLockHeld, InTransition, locks
<1>9. ASSUME NEW t \in Txs, ArmRequest(t)
      PROVE  EventLockHeld' /\ RegistrationLockHeld'
  <2>1. /\ pc[t] = "staged" /\ pc'[t] = "keyshare" /\ arg' = arg
        /\ \A u \in Txs \ {t} : pc'[u] = pc[u]
        /\ eventLock' = eventLock /\ regLock' = regLock
    BY <1>9 DEF TypeOK, ArmRequest, Goto
  <2>2. QED
    BY <2>1 DEF EventLockHeld, RegistrationLockHeld, InTransition
<1>10. QED
  BY <1>1, <1>2, <1>3, <1>4, <1>5, <1>6, <1>7, <1>8, <1>9
     DEF Next, Begin, Continue, CountExhausted, RegisterCommit, TransitionCommit, DeadlockVictim

-----------------------------------------------------------------------------
(* What a session read under its locks is still true                       *)

\* Whatever step is taken, a session that has locked its registration row
\* finds in it what it read: the others write that row only under its lock.
LEMMA NextLockedRowStable ==
    IInv /\ [Next]_vars => LockedRowStable'
<1> SUFFICES ASSUME IInv, [Next]_vars
             PROVE  LockedRowStable'
  OBVIOUS
<1> SUFFICES ASSUME NEW u \in Txs, InTransition(u)'
             PROVE  LET row == registrations'[arg'[u].reg] IN
                    /\ row.state # "absent"
                    /\ row.event = arg'[u].event /\ row.slot = arg'[u].slot
                    /\ pc'[u] \in {"staged", "keyshare"} => ~TakesSeat(row, arg'[u].to)
  BY DEF LockedRowStable
<1> DEFINE row == registrations'[arg'[u].reg]
           Stable == /\ row.state # "absent"
                     /\ row.event = arg'[u].event /\ row.slot = arg'[u].slot
                     /\ pc'[u] \in {"staged", "keyshare"} => ~TakesSeat(row, arg'[u].to)
<1> DEFINE Kept == /\ arg'[u] = arg[u] /\ InTransition(u)
                   /\ pc'[u] \in {"staged", "keyshare"} => pc[u] \in {"staged", "keyshare"}
                   /\ registrations'[arg[u].reg] = registrations[arg[u].reg]
<1>1. ASSUME NEW t \in Txs, NEW e \in Events, NEW s \in SlotRef, NEW ticket \in Ticket,
             NEW born \in {"open", "draft"}, NEW skip \in BOOLEAN,
             RegisterLock(t, e, s, ticket, born, skip)
      PROVE  Kept
  BY <1>1 DEF IInv, TypeOK, RegisterLock, Goto, InTransition, rows
<1>2. ASSUME NEW t \in Txs, NEW r \in Regs, NEW to \in RegState, NEW verb \in Verb \ {"register"},
             pc[t] \in {"idle", "desk_ok"}, LockRegistration(t, r, to, verb), u # t
      PROVE  Kept
  BY <1>2 DEF IInv, TypeOK, LockRegistration, Goto, InTransition, rows
<1>3. ASSUME NEW r \in Regs, NEW to \in RegState, NEW verb \in Verb \ {"register"},
             LockRegistration(u, r, to, verb)
      PROVE  Stable
  BY <1>3 DEF IInv, TypeOK, LockRegistration, Goto, rows
<1>4. ASSUME NEW t \in Txs, NEW r \in Regs, NEW e \in Events, DeskScan(t, r, e)
      PROVE  Kept
  BY <1>4 DEF IInv, TypeOK, DeskScan, Goto, InTransition, rows
<1>5. ASSUME NEW t \in Txs, CountRoom(t) \/ TransitionLockEvent(t)
      PROVE  Kept
  BY <1>5 DEF IInv, TypeOK, CountRoom, TransitionLockEvent, Goto, InTransition, rows
<1>6. ASSUME NEW t \in Txs, CountExhausted(t) \/ DeadlockVictim(t)
      PROVE  Kept
  BY <1>6 DEF IInv, TypeOK, CountExhausted, DeadlockVictim, Finish, InTransition, rows
<1>7. ASSUME NEW t \in Txs, NEW r \in Regs, RegisterCommit(t, r)
      PROVE  Kept
  <2>1. arg'[u] = arg[u] /\ pc'[u] = pc[u] /\ InTransition(u)
    BY <1>7 DEF IInv, TypeOK, RegisterCommit, Finish, InTransition
  <2>2. arg[u].reg # r
    BY <1>7, <2>1 DEF IInv, LockedRowStable, RegisterCommit
  <2>3. QED
    BY <1>7, <2>1, <2>2 DEF IInv, TypeOK, RegisterCommit
<1>8. ASSUME NEW t \in Txs, TransitionCommit(t)
      PROVE  Kept
  <2>1. arg'[u] = arg[u] /\ pc'[u] = pc[u] /\ InTransition(u) /\ u # t
    BY <1>8 DEF IInv, TypeOK, TransitionCommit, Finish, InTransition
  <2>2. InTransition(t)
    BY <1>8 DEF TransitionCommit, InTransition
  <2>3. arg[u].reg # arg[t].reg
    BY <2>1, <2>2 DEF IInv, RegistrationLockHeld
  <2>4. QED
    BY <1>8, <2>1, <2>3 DEF IInv, TypeOK, TransitionCommit
<1>9. ASSUME NEW r \in Regs, Archive(r)
      PROVE  Kept
  <2>1. arg'[u] = arg[u] /\ pc'[u] = pc[u] /\ InTransition(u)
    BY <1>9 DEF Archive, InTransition
  <2>2. arg[u].reg # r
    BY <1>9, <2>1, SeatEngineAssumption DEF IInv, RegistrationLockHeld, Archive
  <2>3. QED
    BY <1>9, <2>1, <2>2 DEF IInv, TypeOK, Archive
<1>10. CASE UNCHANGED <<registrations, pc, arg>>
  <2>1. Kept
    BY <1>10 DEF InTransition
  <2>2. QED
    BY <1>10, <2>1 DEF IInv, LockedRowStable, InTransition
<1>11. ASSUME Kept
       PROVE  Stable
  BY <1>11 DEF IInv, LockedRowStable
<1>12. ASSUME NEW t \in Txs, NEW r \in Regs, NEW to \in RegState, TransitionBegin(t, r, to)
       PROVE  pc[t] = "idle" /\ LockRegistration(t, r, to, "transition")
  BY <1>12 DEF TransitionBegin
<1>13. ASSUME NEW t \in Txs, DeskTransition(t)
       PROVE  arg[t].reg \in Regs /\ pc[t] = "desk_ok" /\ LockRegistration(t, arg[t].reg, "done", "desk")
  BY <1>13 DEF IInv, DeskTransition, RegistrationLockHeld
<1>14. "transition" \in Verb \ {"register"} /\ "desk" \in Verb \ {"register"} /\ "done" \in RegState
  BY DEF Verb, RegState
<1>15. CASE Environment \/ UNCHANGED vars
  <2>1. UNCHANGED <<registrations, pc, arg>> \/ \E r \in Regs : Archive(r)
    BY <1>15 DEF Environment, PatchEvent, MarkDone, CancelEvent, EventUpdate, CloseMails,
                CloseLeads, vars, rows
  <2>2. QED
    BY <2>1, <1>9, <1>10, <1>11
<1>16. ASSUME NEW t \in Txs, ArmRequest(t)
       PROVE  Kept
  BY <1>16 DEF IInv, TypeOK, ArmRequest, Goto, InTransition, rows
<1>17. ASSUME NEW t \in Txs, Begin(t) \/ Continue(t)
       PROVE  Stable
  BY <1>17, <1>1, <1>2, <1>3, <1>4, <1>5, <1>6, <1>7, <1>8, <1>11, <1>12, <1>13, <1>14, <1>16
     DEF Begin, Continue
<1>18. QED
  BY <1>15, <1>17 DEF Next

\* Whether a session that waits for the event row in its arming insert still
\* has to arm depends on its own row, which it has locked; and while its insert
\* is uncommitted no other session gets past the arming of the same event.
LEMMA NextFirstRequestHeld ==
    IInv /\ [Next]_vars => FirstRequestHeld'
<1> SUFFICES ASSUME IInv, [Next]_vars
             PROVE  FirstRequestHeld'
  OBVIOUS
<1>0. TypeOK /\ FirstRequestHeld
  BY DEF IInv
<1> DEFINE Same == /\ leadLock' = leadLock /\ lead_request' = lead_request
                   /\ registrations' = registrations
           Still(u) == /\ pc'[u] = pc[u] /\ arg'[u] = arg[u]
<1>1. ASSUME Same, \A u \in Txs : Still(u) \/ (pc[u] # "keyshare" /\ pc'[u] # "keyshare")
      PROVE  FirstRequestHeld'
  <2>1. ASSUME NEW u \in Txs, Still(u)
        PROVE  Arming(u)' <=> Arming(u)
    BY <1>1, <2>1 DEF Arming
  <2>2. QED
    BY <1>0, <1>1, <2>1 DEF FirstRequestHeld
<1>2. ASSUME NEW t \in Txs, Begin(t) \/ CountRoom(t) \/ TransitionLockEvent(t) \/ DeskTransition(t)
      PROVE  FirstRequestHeld'
  <2>1. Same /\ (\A u \in Txs \ {t} : Still(u))
    BY <1>0, <1>2 DEF TypeOK, Begin, RegisterLock, TransitionBegin, DeskScan, DeskTransition,
                      LockRegistration, CountRoom, TransitionLockEvent, Goto, rows, locks
  <2>2. pc[t] # "keyshare" /\ pc'[t] # "keyshare"
    BY <1>0, <1>2 DEF TypeOK, Begin, RegisterLock, TransitionBegin, DeskScan, DeskTransition,
                      LockRegistration, CountRoom, TransitionLockEvent, Goto
  <2>3. QED
    BY <1>1, <2>1, <2>2
<1>3. ASSUME NEW t \in Txs, ArmRequest(t)
      PROVE  FirstRequestHeld'
  <2> DEFINE e == arg[t].event
  <2>1. /\ pc[t] = "staged" /\ pc'[t] = "keyshare" /\ arg' = arg /\ registrations' = registrations
        /\ \A u \in Txs \ {t} : pc'[u] = pc[u]
        /\ lead_request' = lead_request /\ lead_request[e] = "none" /\ Arming(t)
    BY <1>0, <1>3 DEF TypeOK, ArmRequest, Goto, rows
  <2>2. leadLock[e] = Free /\ \A d \in Events : leadLock'[d] = IF d = e THEN t ELSE leadLock[d]
    BY <1>0, <1>3 DEF TypeOK, ArmRequest
  <2>3. \A u \in Txs : Arming(u)' <=> Arming(u)
    BY <2>1 DEF Arming
  <2>4. QED
    BY <1>0, <2>1, <2>2, <2>3, SeatEngineAssumption DEF FirstRequestHeld
<1>4. \A u \in Txs : pc[u] = "keyshare" => InTransition(u) /\ arg[u].reg \in Regs
  BY DEF IInv, RegistrationLockHeld, InTransition
<1>5. ASSUME NEW t \in Txs, Finish(t),
             \A u \in Txs \ {t} : pc[u] = "keyshare" =>
                registrations'[arg[u].reg] = registrations[arg[u].reg],
             \A u \in Txs \ {t}, e \in Events :
                leadLock[e] = u => lead_request'[e] = lead_request[e]
      PROVE  FirstRequestHeld'
  <2>1. /\ \A u \in Txs : pc'[u] = IF u = t THEN "idle" ELSE pc[u]
        /\ \A u \in Txs : arg'[u] = IF u = t THEN NoArg ELSE arg[u]
    BY <1>0, <1>5 DEF TypeOK, Finish
  <2>2. \A u \in Txs, e \in Events : leadLock'[e] = u <=> u # t /\ leadLock[e] = u
    BY <1>5, SeatEngineAssumption DEF Finish, Release
  <2>3. ASSUME NEW u \in Txs \ {t}, pc[u] = "keyshare", Arming(u)
        PROVE  Arming(u)'
    <3>1. arg'[u] = arg[u] /\ registrations'[arg[u].reg] = registrations[arg[u].reg]
      BY <1>5, <2>1, <2>3
    <3>2. arg[u].verb # "register"
      BY <1>4, <2>3 DEF InTransition
    <3>3. QED
      BY <2>3, <3>1, <3>2 DEF Arming
  <2>4. QED
    BY <1>0, <1>5, <2>1, <2>2, <2>3 DEF FirstRequestHeld
<1>6. ASSUME NEW t \in Txs, CountExhausted(t) \/ DeadlockVictim(t)
      PROVE  FirstRequestHeld'
  BY <1>5, <1>6 DEF CountExhausted, DeadlockVictim, rows
<1>7. ASSUME NEW t \in Txs, ArmServed(t), pc[t] \in {"counted", "staged", "keyshare"},
             ArmLeads(arg[t].event, Arming(t))
      PROVE  \A u \in Txs \ {t}, e \in Events :
                leadLock[e] = u => lead_request'[e] = lead_request[e]
  <2> SUFFICES ASSUME NEW u \in Txs \ {t}, NEW e \in Events, leadLock[e] = u,
                      e = arg[t].event, Arming(t)
               PROVE  FALSE
    BY <1>0, <1>7 DEF TypeOK, ArmLeads
  <2>1. lead_request[e] = "none" /\ (pc[t] = "keyshare" => leadLock[e] = t)
    BY <1>0 DEF FirstRequestHeld
  <2>2. QED
    BY <1>7, <2>1, SeatEngineAssumption DEF ArmServed
<1>8. ASSUME NEW t \in Txs, NEW r \in Regs, RegisterCommit(t, r)
      PROVE  FirstRequestHeld'
  <2>1. \A u \in Txs : pc[u] = "keyshare" => arg[u].reg # r
    BY <1>4, <1>8 DEF IInv, LockedRowStable, RegisterCommit
  <2>2. \A u \in Txs \ {t} : pc[u] = "keyshare" =>
           registrations'[arg[u].reg] = registrations[arg[u].reg]
    BY <1>0, <1>4, <1>8, <2>1 DEF TypeOK, RegisterCommit
  <2>3. QED
    BY <1>5, <1>7, <1>8, <2>2 DEF RegisterCommit
<1>9. ASSUME NEW t \in Txs, TransitionCommit(t)
      PROVE  FirstRequestHeld'
  <2>1. InTransition(t)
    BY <1>9 DEF TransitionCommit, InTransition
  <2>2. \A u \in Txs \ {t} : pc[u] = "keyshare" => arg[u].reg # arg[t].reg
    BY <1>4, <2>1 DEF IInv, RegistrationLockHeld
  <2>3. \A u \in Txs \ {t} : pc[u] = "keyshare" =>
           registrations'[arg[u].reg] = registrations[arg[u].reg]
    BY <1>0, <1>4, <1>9, <2>2 DEF TypeOK, TransitionCommit
  <2>4. QED
    BY <1>5, <1>7, <1>9, <2>3 DEF TransitionCommit
<1>10. ASSUME NEW r \in Regs, Archive(r)
       PROVE  FirstRequestHeld'
  <2>1. \A u \in Txs : pc[u] = "keyshare" => arg[u].reg # r
    BY <1>4, <1>10, SeatEngineAssumption DEF IInv, RegistrationLockHeld, Archive
  <2>2. \A u \in Txs : pc[u] = "keyshare" =>
           registrations'[arg[u].reg] = registrations[arg[u].reg]
    BY <1>0, <1>4, <1>10, <2>1 DEF TypeOK, Archive
  <2>3. \A u \in Txs : pc[u] = "keyshare" /\ Arming(u) => Arming(u)'
    BY <1>4, <1>10, <2>2 DEF Archive, Arming, InTransition
  <2>4. QED
    BY <1>0, <1>10, <2>3 DEF Archive, locks, FirstRequestHeld
<1>11. ASSUME NEW e \in Events, CloseLeads(e)
       PROVE  FirstRequestHeld'
  <2>1. \A u \in Txs : leadLock[e] # u
    BY <1>0, <1>11 DEF FirstRequestHeld, CloseLeads
  <2>2. \A d \in Events \ {e} : lead_request'[d] = lead_request[d]
    BY <1>0, <1>11 DEF TypeOK, CloseLeads
  <2>3. \A u \in Txs : Arming(u)' = Arming(u)
    BY <1>11 DEF CloseLeads, Arming
  <2>4. QED
    BY <1>0, <1>11, <2>1, <2>2, <2>3 DEF CloseLeads, locks, FirstRequestHeld
<1>12. CASE UNCHANGED <<registrations, lead_request, locks, pc, arg>>
  BY <1>1, <1>12 DEF locks
<1>13. CASE Environment \/ UNCHANGED vars
  <2>1. \/ UNCHANGED <<registrations, lead_request, locks, pc, arg>>
        \/ \E r \in Regs : Archive(r)
        \/ \E e \in Events : CloseLeads(e)
    BY <1>13 DEF Environment, PatchEvent, MarkDone, CancelEvent, EventUpdate, CloseMails, vars,
                 rows
  <2>2. QED
    BY <1>10, <1>11, <1>12, <2>1
<1>14. QED
  BY <1>2, <1>3, <1>6, <1>8, <1>9, <1>13 DEF Next, Continue

-----------------------------------------------------------------------------
(* The room a session counted is still there                               *)

\* No step that adds no holder to a counted event takes its room away.
LEMMA RoomKept ==
    ASSUME TypeOK, TypeOK', NEW u \in Txs,
           ~Exhausted(events[arg[u].event], Taken(arg[u])),
           arg'[u] = arg[u], events'[arg[u].event] = events[arg[u].event],
           \A r \in Regs :
              HoldsSeat(registrations'[r]) /\ registrations'[r].event = arg[u].event =>
                 /\ HoldsSeat(registrations[r]) /\ registrations[r].event = arg[u].event
                 /\ registrations[r].slot = registrations'[r].slot
    PROVE  ~Exhausted(events'[arg'[u].event], Taken(arg[u])')
<1> DEFINE A == {r \in Regs : /\ registrations'[r].event = arg[u].event
                              /\ arg[u].slot = NoSlot \/ registrations'[r].slot = arg[u].slot
                              /\ HoldsSeat(registrations'[r])} \ {arg[u].reg}
           B == Holding(arg[u].event, arg[u].slot) \ {arg[u].reg}
<1>1. A \in SUBSET Regs /\ B \in SUBSET Regs /\ A \subseteq B
  BY DEF Holding
<1>2. Cardinality(A) \in Nat /\ Cardinality(B) \in Nat /\ Cardinality(A) <= Cardinality(B)
  BY <1>1, RegCardinality
<1>3. events[arg[u].event] \in EventRow
  BY DEF TypeOK, Arg
<1>4. Taken(arg[u]) = Cardinality(B) /\ Taken(arg[u])' = Cardinality(A)
  BY DEF Taken, Holding
<1>5. QED
  BY <1>2, <1>3, <1>4, RoomMonotone

\* A step adds a holder to an event, or writes it, only under its row lock.
LEMMA NextCountedRoomHolds ==
    IInv /\ [Next]_vars => CountedRoomHolds'
<1> SUFFICES ASSUME IInv, [Next]_vars
             PROVE  CountedRoomHolds'
  OBVIOUS
<1> SUFFICES ASSUME NEW u \in Txs, pc'[u] = "counted"
             PROVE  ~Exhausted(events'[arg'[u].event], Taken(arg[u])')
  BY DEF CountedRoomHolds
<1>0. TypeOK /\ TypeOK'
  BY NextTypeOK DEF IInv
<1> DEFINE Room == ~Exhausted(events'[arg'[u].event], Taken(arg[u])')
           Kept == pc[u] = "counted" /\ arg'[u] = arg[u]
<1>1. ASSUME Kept, events'[arg[u].event] = events[arg[u].event],
             \A r \in Regs :
                HoldsSeat(registrations'[r]) /\ registrations'[r].event = arg[u].event =>
                   /\ HoldsSeat(registrations[r]) /\ registrations[r].event = arg[u].event
                   /\ registrations[r].slot = registrations'[r].slot
      PROVE  Room
  BY <1>0, <1>1, RoomKept DEF IInv, CountedRoomHolds
<1>2. ASSUME Kept, UNCHANGED <<events, registrations>>
      PROVE  Room
  BY <1>1, <1>2
<1>3. ASSUME NEW t \in Txs, Begin(t) \/ DeskTransition(t) \/ TransitionLockEvent(t)
      PROVE  Room
  <2>1. UNCHANGED <<events, registrations>>
    BY <1>3 DEF Begin, RegisterLock, TransitionBegin, DeskScan, DeskTransition,
                LockRegistration, TransitionLockEvent, rows
  <2>2. u # t /\ Kept
    BY <1>0, <1>3 DEF TypeOK, Begin, RegisterLock, TransitionBegin, DeskScan, DeskTransition,
                LockRegistration, TransitionLockEvent, Goto
  <2>3. QED
    BY <1>2, <2>1, <2>2
<1>4. ASSUME NEW t \in Txs, CountRoom(t)
      PROVE  Room
  <2>1. UNCHANGED <<events, registrations, arg>>
    BY <1>4 DEF CountRoom, rows
  <2>2. CASE u = t
    BY <1>4, <2>1, <2>2 DEF CountRoom, Taken, Holding
  <2>3. CASE u # t
    BY <1>0, <1>2, <1>4, <2>1, <2>3 DEF TypeOK, CountRoom, Goto
  <2>4. QED
    BY <2>2, <2>3
<1>5. ASSUME NEW t \in Txs, CountExhausted(t) \/ DeadlockVictim(t) \/ ArmRequest(t)
      PROVE  Room
  <2>1. UNCHANGED <<events, registrations>> /\ Kept
    BY <1>0, <1>5 DEF TypeOK, CountExhausted, DeadlockVictim, ArmRequest, Finish, Goto, rows
  <2>2. QED
    BY <1>2, <2>1
<1>6. ASSUME NEW t \in Txs, NEW r \in Regs, RegisterCommit(t, r)
      PROVE  Room
  <2>1. Kept /\ u # t /\ pc[t] = "counted"
    BY <1>0, <1>6 DEF TypeOK, RegisterCommit, Finish
  <2>2. arg[u].event # arg[t].event
    BY <1>0, <2>1 DEF IInv, EventLockHeld, TypeOK, Arg
  <2>3. /\ events' = events /\ registrations'[r].event = arg[t].event
        /\ \A q \in Regs \ {r} : registrations'[q] = registrations[q]
    BY <1>0, <1>6 DEF TypeOK, RegisterCommit
  <2>4. QED
    BY <1>1, <2>1, <2>2, <2>3
<1>7. ASSUME NEW t \in Txs, TransitionCommit(t)
      PROVE  Room
  <2> DEFINE r == arg[t].reg
  <2>1. Kept /\ u # t /\ InTransition(t) /\ r \in Regs
    BY <1>0, <1>7 DEF IInv, RegistrationLockHeld, TypeOK, TransitionCommit, Finish, InTransition
  <2>2. /\ events' = events
        /\ registrations'[r].event = registrations[r].event
        /\ registrations'[r].slot = registrations[r].slot
        /\ registrations'[r].active = registrations[r].active
        /\ registrations'[r].state = arg[t].to
        /\ \A q \in Regs \ {r} : registrations'[q] = registrations[q]
    BY <1>0, <1>7, <2>1 DEF TypeOK, TransitionCommit, RegistrationRow
  <2>3. CASE pc[t] = "counted"
    <3>1. arg[u].event # arg[t].event
      BY <1>0, <2>1, <2>3 DEF IInv, EventLockHeld, TypeOK, Arg
    <3>2. registrations[r].event = arg[t].event
      BY <2>1 DEF IInv, LockedRowStable
    <3>3. QED
      BY <1>1, <2>1, <2>2, <3>1, <3>2
  <2>4. CASE pc[t] \in {"staged", "keyshare"}
    <3>1. ~TakesSeat(registrations[r], arg[t].to) /\ registrations[r].state # "absent"
      BY <2>1, <2>4 DEF IInv, LockedRowStable
    <3>2. registrations[r].state \in RegState
      BY <1>0, <2>1, <3>1 DEF TypeOK, RegistrationRow
    <3>3. HoldsSeat(registrations'[r]) => HoldsSeat(registrations[r])
      BY <2>2, <3>1, <3>2 DEF TakesSeat, HoldsSeat, SeatState, RegState
    <3>4. QED
      BY <1>1, <2>1, <2>2, <3>3
  <2>5. QED
    BY <1>7, <2>3, <2>4 DEF TransitionCommit
<1>8. ASSUME NEW r \in Regs, Archive(r)
      PROVE  Room
  <2>1. Kept /\ events' = events
    BY <1>8 DEF Archive
  <2>2. /\ registrations'[r].active = FALSE
        /\ \A q \in Regs \ {r} : registrations'[q] = registrations[q]
    BY <1>0, <1>8 DEF Archive, TypeOK, RegistrationRow
  <2>3. QED
    BY <1>1, <2>1, <2>2 DEF HoldsSeat
<1>9. ASSUME NEW e \in Events, EventWrite(e)
      PROVE  Room
  <2>1. PICK row \in EventRow : EventUpdate(e, row)
    BY <1>0, <1>9, EventWriteUpdates
  <2>2. Kept /\ eventLock[e] = Free /\ registrations' = registrations
    BY <2>1 DEF EventUpdate
  <2>3. arg[u].event # e
    BY <1>0, <2>2, SeatEngineAssumption DEF IInv, EventLockHeld, TypeOK, Arg
  <2>4. events'[arg[u].event] = events[arg[u].event]
    BY <1>0, <2>1, <2>3 DEF EventUpdate, TypeOK, Arg
  <2>5. QED
    BY <1>1, <2>2, <2>4
<1>10. CASE UNCHANGED <<events, registrations, pc, arg>>
  BY <1>2, <1>10
<1>11. CASE Environment \/ UNCHANGED vars
  <2>1. \/ UNCHANGED <<events, registrations, pc, arg>>
        \/ \E e \in Events : EventWrite(e)
        \/ \E r \in Regs : Archive(r)
    BY <1>11 DEF Environment, EventWrite, CloseMails, CloseLeads, vars, rows
  <2>2. QED
    BY <1>8, <1>9, <1>10, <2>1
<1>12. QED
  BY <1>3, <1>4, <1>5, <1>6, <1>7, <1>11 DEF Next, Continue

-----------------------------------------------------------------------------
(* The event a register was admitted to                                    *)

\* A step after which a session is past the lock of a register is the step
\* that locked, or one that left the session's event and verb alone.
LEMMA NextAdmittedEventStands ==
    IInv /\ [Next]_vars => AdmittedEventStands'
<1> SUFFICES ASSUME IInv, [Next]_vars, NEW u \in Txs,
                    pc'[u] \in {"locked", "counted"}, arg'[u].verb = "register"
             PROVE  events'[arg'[u].event].phase # "cancel"
  BY DEF AdmittedEventStands
<1>0. TypeOK /\ EventLockHeld /\ AdmittedEventStands
  BY DEF IInv
<1> DEFINE Kept == arg'[u] = arg[u] /\ pc[u] \in {"locked", "counted"}
<1>1. CASE Kept /\ events' = events
  BY <1>0, <1>1 DEF AdmittedEventStands
<1>2. ASSUME NEW t \in Txs, NEW e \in Events, NEW s \in SlotRef, NEW ticket \in Ticket,
             NEW born \in {"open", "draft"}, NEW skip \in BOOLEAN,
             RegisterLock(t, e, s, ticket, born, skip)
      PROVE  events'[arg'[u].event].phase # "cancel"
  <2>1. events' = events /\ events[e].phase # "cancel"
    BY <1>2 DEF RegisterLock, RegisterAdmits, rows
  <2>2. CASE u = t
    <3>1. arg'[u].event = e
      BY <1>0, <1>2, <2>2 DEF TypeOK, RegisterLock
    <3>2. QED
      BY <2>1, <3>1
  <2>3. CASE u # t
    BY <1>0, <1>1, <1>2, <2>1, <2>3 DEF TypeOK, RegisterLock, Goto
  <2>4. QED
    BY <2>2, <2>3
<1>3. ASSUME NEW t \in Txs, NEW r \in Regs, NEW to \in RegState, NEW verb \in Verb,
             LockRegistration(t, r, to, verb)
      PROVE  events'[arg'[u].event].phase # "cancel"
  <2>1. u # t /\ events' = events
    BY <1>0, <1>3 DEF TypeOK, LockRegistration, Goto, rows
  <2>2. Kept
    BY <1>0, <1>3, <2>1 DEF TypeOK, LockRegistration, Goto
  <2>3. QED
    BY <1>1, <2>1, <2>2
<1>4. ASSUME NEW t \in Txs, NEW r \in Regs, NEW e \in Events, DeskScan(t, r, e)
      PROVE  events'[arg'[u].event].phase # "cancel"
  <2>1. u # t /\ events' = events
    BY <1>0, <1>4 DEF TypeOK, DeskScan, Goto, rows
  <2>2. Kept
    BY <1>0, <1>4, <2>1 DEF TypeOK, DeskScan, Goto
  <2>3. QED
    BY <1>1, <2>1, <2>2
<1>5. ASSUME NEW t \in Txs, CountRoom(t) \/ ArmRequest(t)
      PROVE  events'[arg'[u].event].phase # "cancel"
  BY <1>0, <1>1, <1>5 DEF TypeOK, CountRoom, ArmRequest, Goto, rows
<1>6. ASSUME NEW t \in Txs, Finish(t), events' = events
      PROVE  events'[arg'[u].event].phase # "cancel"
  <2>1. u # t
    BY <1>0, <1>6 DEF TypeOK, Finish
  <2>2. Kept
    BY <1>0, <1>6, <2>1 DEF TypeOK, Finish
  <2>3. QED
    BY <1>1, <1>6, <2>2
<1>7. ASSUME NEW t \in Txs, TransitionLockEvent(t)
      PROVE  events'[arg'[u].event].phase # "cancel"
  <2>1. u # t /\ events' = events /\ arg' = arg
    BY <1>0, <1>7 DEF IInv, RegistrationLockHeld, TypeOK, TransitionLockEvent, Goto, rows
  <2>2. Kept
    BY <1>0, <1>7, <2>1 DEF TypeOK, TransitionLockEvent, Goto
  <2>3. QED
    BY <1>1, <2>1, <2>2
<1>8. ASSUME NEW e \in Events, EventWrite(e)
      PROVE  events'[arg'[u].event].phase # "cancel"
  <2>1. PICK row \in EventRow : EventUpdate(e, row)
    BY <1>0, <1>8, EventWriteUpdates
  <2>2. Kept /\ eventLock[e] = Free
    BY <2>1 DEF EventUpdate
  <2>3. arg[u].event # e /\ arg[u].event \in Events
    BY <1>0, <2>2, SeatEngineAssumption DEF EventLockHeld, TypeOK, Arg
  <2>4. events'[arg[u].event] = events[arg[u].event]
    BY <1>0, <2>1, <2>3 DEF EventUpdate, TypeOK
  <2>5. QED
    BY <1>0, <2>2, <2>4 DEF AdmittedEventStands
<1>9. CASE UNCHANGED <<events, pc, arg>>
  BY <1>1, <1>9
<1>10. CASE Environment \/ UNCHANGED vars
  <2>1. UNCHANGED <<events, pc, arg>> \/ \E e \in Events : EventWrite(e)
    BY <1>10 DEF Environment, EventWrite, CloseMails, CloseLeads, Archive, vars, rows
  <2>2. QED
    BY <1>8, <1>9, <2>1
<1>11. CASE \E t \in Txs : Begin(t)
  <2>1. \/ \E t \in Txs, e \in Events, s \in SlotRef, ticket \in Ticket,
              born \in {"open", "draft"}, skip \in BOOLEAN :
              RegisterLock(t, e, s, ticket, born, skip)
        \/ \E t \in Txs, r \in Regs, to \in RegState : LockRegistration(t, r, to, "transition")
        \/ \E t \in Txs, r \in Regs, e \in Events : DeskScan(t, r, e)
    BY <1>11 DEF Begin, TransitionBegin
  <2>2. QED
    BY <1>2, <1>3, <1>4, <2>1 DEF Verb
<1>12. CASE \E t \in Txs : Continue(t)
  <2>1. PICK t \in Txs : Continue(t)
    BY <1>12
  <2>2. CASE DeskTransition(t)
    <3>1. arg[t].reg \in Regs /\ LockRegistration(t, arg[t].reg, "done", "desk")
      BY <2>2 DEF IInv, RegistrationLockHeld, DeskTransition
    <3>2. QED
      BY <1>3, <3>1 DEF RegState, Verb
  <2>3. CASE Finish(t) /\ events' = events
    BY <1>6, <2>3
  <2>4. QED
    BY <1>5, <1>7, <2>1, <2>2, <2>3
       DEF Continue, CountExhausted, RegisterCommit, TransitionCommit, DeadlockVictim, rows
<1>13. QED
  BY <1>10, <1>11, <1>12 DEF Next

-----------------------------------------------------------------------------
(* Safety                                                                  *)

LEMMA InitIInv == Init => IInv
<1> SUFFICES ASSUME Init PROVE IInv
  OBVIOUS
<1>1. TypeOK
  BY InitTypeOK
<1>2. \A t \in Txs : pc[t] = "idle" /\ arg[t] = NoArg
  BY DEF Init
<1>3. EventLockHeld
  BY <1>2, SeatEngineAssumption DEF Init, EventLockHeld
<1>4. RegistrationLockHeld
  BY <1>2, SeatEngineAssumption DEF Init, RegistrationLockHeld, InTransition, NoArg
<1>5. FirstRequestHeld /\ LockedRowStable /\ CountedRoomHolds /\ AdmittedEventStands
  BY <1>2, SeatEngineAssumption
     DEF Init, FirstRequestHeld, LockedRowStable, CountedRoomHolds, AdmittedEventStands,
         InTransition
<1>6. QED
  BY <1>1, <1>3, <1>4, <1>5 DEF IInv

\* The locks and what was read under them: in every reachable state a session
\* that passed the count of register_core or transition still has its room.
THEOREM SeatEngineSafety == Spec => []IInv
<1>1. IInv /\ [Next]_vars => IInv'
  BY NextTypeOK, NextLocks, NextFirstRequestHeld, NextLockedRowStable,
     NextCountedRoomHolds, NextAdmittedEventStands DEF IInv
<1>2. QED
  BY InitIInv, <1>1, PTL DEF Spec

-----------------------------------------------------------------------------
(* Taking a seat                                                           *)

\* Of the steps of the system only a commit makes a row hold a seat: the
\* commit of a session that counted room for that very row.
LEMMA EntryIsCounted ==
    ASSUME IInv, [Next]_vars, NEW r \in Regs, Enters(r)
    PROVE  /\ events' = events
           /\ \A q \in Regs \ {r} : registrations'[q] = registrations[q]
           /\ \E t \in Txs : /\ pc[t] = "counted"
                             /\ arg[t].reg \in {NoReg, r}
                             /\ registrations'[r].event = arg[t].event
                             /\ registrations'[r].slot = arg[t].slot
<1>1. TypeOK
  BY DEF IInv
<1>2. registrations' # registrations
  BY DEF Enters
<1>3. ASSUME NEW t \in Txs, NEW q \in Regs, RegisterCommit(t, q)
      PROVE  /\ events' = events
             /\ \A p \in Regs \ {r} : registrations'[p] = registrations[p]
             /\ pc[t] = "counted" /\ arg[t].reg \in {NoReg, r}
             /\ registrations'[r].event = arg[t].event
             /\ registrations'[r].slot = arg[t].slot
  <2>1. r = q
    BY <1>1, <1>3 DEF TypeOK, RegisterCommit, Enters
  <2>2. QED
    BY <1>1, <1>3, <2>1 DEF IInv, RegistrationLockHeld, TypeOK, RegisterCommit
<1>4. ASSUME NEW t \in Txs, TransitionCommit(t)
      PROVE  /\ events' = events
             /\ \A p \in Regs \ {r} : registrations'[p] = registrations[p]
             /\ pc[t] = "counted" /\ arg[t].reg \in {NoReg, r}
             /\ registrations'[r].event = arg[t].event
             /\ registrations'[r].slot = arg[t].slot
  <2> DEFINE before == registrations[r]
  <2>1. InTransition(t) /\ arg[t].reg \in Regs
    BY <1>4 DEF IInv, RegistrationLockHeld, TransitionCommit, InTransition
  <2>2. r = arg[t].reg
    BY <1>1, <1>4, <2>1 DEF TypeOK, TransitionCommit, Enters
  <2>3. /\ before.state # "absent" /\ before.event = arg[t].event /\ before.slot = arg[t].slot
        /\ pc[t] \in {"staged", "keyshare"} => ~TakesSeat(before, arg[t].to)
    BY <2>1, <2>2 DEF IInv, LockedRowStable
  <2>4. /\ events' = events
        /\ \A p \in Regs \ {r} : registrations'[p] = registrations[p]
        /\ registrations'[r].event = before.event /\ registrations'[r].slot = before.slot
        /\ registrations'[r].state = arg[t].to
        /\ registrations'[r].active = before.active
    BY <1>1, <1>4, <2>2 DEF TypeOK, TransitionCommit, RegistrationRow
  <2>5. TakesSeat(before, arg[t].to)
    BY <1>1, <2>3, <2>4 DEF TypeOK, RegistrationRow, RegState, SeatState, Enters, HoldsSeat,
                            TakesSeat
  <2>6. QED
    BY <1>4, <2>2, <2>3, <2>4, <2>5 DEF TransitionCommit
<1>5. ASSUME NEW q \in Regs, Archive(q)
      PROVE  FALSE
  BY <1>1, <1>5 DEF TypeOK, RegistrationRow, Archive, Enters, HoldsSeat
<1>6. \/ \E t \in Txs, q \in Regs : RegisterCommit(t, q)
      \/ \E t \in Txs : TransitionCommit(t)
      \/ \E q \in Regs : Archive(q)
  BY <1>2 DEF Next, Begin, Continue, RegisterLock, TransitionBegin, DeskScan, DeskTransition,
              LockRegistration, CountRoom, CountExhausted, TransitionLockEvent, ArmRequest,
              DeadlockVictim, Environment, PatchEvent, MarkDone, CancelEvent, EventUpdate, CloseMails, CloseLeads, vars, rows
<1>7. QED
  BY <1>3, <1>4, <1>5, <1>6

\* ... and the room it counted is room for the row.
LEMMA EntryWithinCap ==
    ASSUME IInv, [Next]_vars, NEW r \in Regs, Enters(r)
    PROVE  LET e == registrations'[r].event
               s == registrations'[r].slot
           IN  /\ r \notin Holding(e, s) /\ ~Exhausted(events[e], Cardinality(Holding(e, s)))
               /\ WithinCap(registrations[r].event, registrations[r].slot)'
<1>1. PICK t \in Txs : /\ pc[t] = "counted" /\ arg[t].reg \in {NoReg, r}
                       /\ registrations'[r].event = arg[t].event
                       /\ registrations'[r].slot = arg[t].slot
  BY EntryIsCounted
<1>2. events' = events /\ \A q \in Regs \ {r} : registrations'[q] = registrations[q]
  BY EntryIsCounted
<1> DEFINE e == arg[t].event
           s == arg[t].slot
           H == Holding(e, s)
           After == {q \in Regs : /\ registrations'[q].event = e
                                  /\ s = NoSlot \/ registrations'[q].slot = s
                                  /\ HoldsSeat(registrations'[q])}
<1>3. e \in Events /\ events[e] \in EventRow
  BY DEF IInv, TypeOK, Arg
<1>4. r \notin H /\ NoReg \notin H /\ H \in SUBSET Regs
  BY SeatEngineAssumption DEF Holding, Enters
<1>5. ~Exhausted(events[e], Cardinality(H))
  <2>1. H \ {arg[t].reg} = H
    BY <1>1, <1>4
  <2>2. QED
    BY <1>1, <2>1 DEF IInv, CountedRoomHolds, Taken
<1>6. After \in SUBSET Regs /\ r \in After /\ After \ {r} \subseteq H
  BY <1>1, <1>2 DEF Holding, Enters
<1>7. /\ Cardinality(After \ {r}) = Cardinality(After) - 1
      /\ Cardinality(After \ {r}) \in Nat /\ Cardinality(H) \in Nat
      /\ Cardinality(After \ {r}) <= Cardinality(H)
  <2>1. IsFiniteSet(After)
    BY <1>6, FS_Subset, SeatEngineAssumption
  <2>2. Cardinality(After \ {r}) = Cardinality(After) - 1
    BY <1>6, <2>1, FS_RemoveElement
  <2>3. QED
    BY <1>4, <1>6, <2>2, RegCardinality
<1>8. ~Exhausted(events[e], Cardinality(After) - 1)
  BY <1>3, <1>5, <1>7, RoomMonotone
<1>9. WithinCap(registrations[r].event, registrations[r].slot)'
  BY <1>1, <1>2, <1>8 DEF WithinCap, Holding
<1>10. QED
  BY <1>1, <1>4, <1>5, <1>9

\* No interleaving of registers, state verbs, desk scans, archivals and
\* patches lets a row take a seat beyond the cap in force at its commit.
THEOREM NoOversell == Spec => SeatTakenWithinCap
<1>1. ASSUME IInv, [Next]_vars
      PROVE  \A r \in Regs : Enters(r) =>
                WithinCap(registrations[r].event, registrations[r].slot)'
  BY <1>1, EntryWithinCap
<1>2. QED
  BY SeatEngineSafety, <1>1, PTL DEF Spec, SeatTakenWithinCap

-----------------------------------------------------------------------------
(* What a commit leaves on the event                                       *)

\* The steps that write a registration or an arming marker.
LEMMA RowWriters ==
    ASSUME [Next]_vars
    PROVE  \/ \E t \in Txs, q \in Regs : RegisterCommit(t, q)
           \/ \E t \in Txs : TransitionCommit(t)
           \/ \E q \in Regs : Archive(q)
           \/ registrations' = registrations /\ mail_done' = mail_done
           \/ \E e \in Events : CloseMails(e)
<1> DEFINE Still == registrations' = registrations /\ mail_done' = mail_done
<1>1. ASSUME NEW t \in Txs, Begin(t)
      PROVE  Still
  BY <1>1 DEF Begin, RegisterLock, TransitionBegin, DeskScan, LockRegistration, rows
<1>2. ASSUME NEW t \in Txs, Continue(t)
      PROVE  Still \/ TransitionCommit(t) \/ \E q \in Regs : RegisterCommit(t, q)
  BY <1>2 DEF Continue, CountRoom, CountExhausted, TransitionLockEvent, ArmRequest,
              DeadlockVictim, DeskTransition, LockRegistration, rows
<1>3. CASE Environment
  BY <1>3 DEF Environment, PatchEvent, MarkDone, CancelEvent, EventUpdate, CloseLeads
<1>4. CASE UNCHANGED vars
  BY <1>4 DEF vars, rows
<1>5. QED
  BY <1>1, <1>2, <1>3, <1>4 DEF Next

\* What the commit of a state verb writes in its row and in the markers.
LEMMA TransitionWrites ==
    ASSUME IInv, NEW t \in Txs, TransitionCommit(t)
    PROVE  LET a == arg[t]
               before == registrations[a.reg]
           IN  /\ a.reg \in Regs /\ before.event = a.event /\ before.state # "absent"
               /\ \A q \in Regs \ {a.reg} : registrations'[q] = registrations[q]
               /\ registrations'[a.reg].state = a.to
               /\ registrations'[a.reg].event = before.event
               /\ registrations'[a.reg].active = before.active
               /\ \A e \in Events :
                     mail_done'[e] <=> /\ mail_done[e]
                                       /\ ~(/\ e = a.event /\ before.active
                                             /\ a.to = "open"
                                             /\ before.state \in {"draft", "cancel"})
<1> DEFINE a == arg[t]
           before == registrations[a.reg]
<1>1. TypeOK
  BY DEF IInv
<1>2. InTransition(t) /\ a.reg \in Regs
  BY DEF IInv, RegistrationLockHeld, TransitionCommit, InTransition
<1>3. before.event = a.event /\ before.state # "absent"
  BY <1>2 DEF IInv, LockedRowStable
<1>4. /\ \A q \in Regs \ {a.reg} : registrations'[q] = registrations[q]
      /\ registrations'[a.reg].state = a.to
      /\ registrations'[a.reg].event = before.event
      /\ registrations'[a.reg].active = before.active
  BY <1>1, <1>2 DEF TypeOK, TransitionCommit, RegistrationRow
<1>5. ASSUME NEW e \in Events
      PROVE  mail_done'[e] <=> /\ mail_done[e]
                               /\ ~(/\ e = a.event /\ before.active /\ a.to = "open"
                                     /\ before.state \in {"draft", "cancel"})
  <2> DEFINE arm == /\ before.active /\ a.to # before.state /\ a.to = "open"
                    /\ before.state \in {"draft", "cancel"}
  <2>1. mail_done' = [mail_done EXCEPT ![a.event] = @ /\ ~arm]
    BY DEF TransitionCommit, ArmMails
  <2>2. mail_done'[e] <=> mail_done[e] /\ ~(e = a.event /\ arm)
    BY <1>1, <2>1, Zenon DEF TypeOK
  <2>3. QED
    BY <2>2
<1>6. QED
  BY <1>2, <1>3, <1>4, <1>5

\* ... and what the commit of a register writes.
LEMMA RegisterWrites ==
    ASSUME IInv, NEW t \in Txs, NEW r \in Regs, RegisterCommit(t, r)
    PROVE  /\ registrations[r].state = "absent"
           /\ \A q \in Regs \ {r} : registrations'[q] = registrations[q]
           /\ registrations'[r].state = arg[t].to /\ registrations'[r].active
           /\ registrations'[r].event = arg[t].event
           /\ \A e \in Events :
                 mail_done'[e] <=> mail_done[e] /\ ~(e = arg[t].event /\ arg[t].to = "open")
<1>1. TypeOK
  BY DEF IInv
<1>2. /\ registrations[r].state = "absent"
      /\ \A q \in Regs \ {r} : registrations'[q] = registrations[q]
      /\ registrations'[r].state = arg[t].to /\ registrations'[r].active
      /\ registrations'[r].event = arg[t].event
  BY <1>1 DEF TypeOK, RegisterCommit
<1>3. mail_done' = [mail_done EXCEPT ![arg[t].event] = @ /\ ~(arg[t].to = "open")]
  BY DEF RegisterCommit, ArmMails
<1>4. \A e \in Events :
         mail_done'[e] <=> mail_done[e] /\ ~(e = arg[t].event /\ arg[t].to = "open")
  BY <1>1, <1>3, Zenon DEF TypeOK
<1>5. QED
  BY <1>2, <1>4

\* Some row of the event came to hold a seat by becoming open.
OpenEntry(e) == \E r \in Regs : /\ Enters(r)
                                /\ registrations'[r].state = "open"
                                /\ registrations'[r].event = e

\* The step that arms an event's schedulers is the step of such an entry.
LEMMA ArmsExactlyOnEntry ==
    ASSUME IInv, [Next]_vars, NEW e \in Events
    PROVE  /\ OpenEntry(e) => ~mail_done'[e]
           /\ mail_done[e] /\ ~mail_done'[e] => OpenEntry(e)
<1>1. TypeOK
  BY DEF IInv
<1>2. ASSUME NEW t \in Txs, NEW q \in Regs, RegisterCommit(t, q)
      PROVE  OpenEntry(e) <=> e = arg[t].event /\ arg[t].to = "open"
  <2>1. \A r \in Regs : Enters(r) => r = q
    BY <1>2, RegisterWrites DEF Enters
  <2>2. arg[t].to = "open" => Enters(q)
    BY <1>2, RegisterWrites DEF Enters, HoldsSeat, SeatState
  <2>3. QED
    BY <1>2, <2>1, <2>2, RegisterWrites DEF OpenEntry
<1>3. ASSUME NEW t \in Txs, TransitionCommit(t)
      PROVE  OpenEntry(e) <=> /\ e = arg[t].event /\ registrations[arg[t].reg].active
                              /\ arg[t].to = "open"
                              /\ registrations[arg[t].reg].state \in {"draft", "cancel"}
  <2>0. PICK q \in Regs : q = arg[t].reg
    BY <1>3, TransitionWrites
  <2> DEFINE before == registrations[q]
  <2>1. /\ q \in Regs /\ before.event = arg[t].event /\ before.state # "absent"
        /\ \A r \in Regs \ {q} : registrations'[r] = registrations[r]
        /\ registrations'[q].state = arg[t].to
        /\ registrations'[q].event = before.event
        /\ registrations'[q].active = before.active
    BY <1>3, <2>0, TransitionWrites
  <2>2. before.state \in RegState
    BY <1>1, <2>1 DEF TypeOK, RegistrationRow
  <2>3. \A r \in Regs : Enters(r) => r = q
    BY <2>1 DEF Enters
  <2>4. arg[t].to = "open" =>
           (Enters(q) <=> before.active /\ before.state \in {"draft", "cancel"})
    BY <2>1, <2>2 DEF Enters, HoldsSeat, SeatState, RegState
  <2>5. QED
    BY <2>0, <2>1, <2>3, <2>4 DEF OpenEntry
<1>4. CASE \E t \in Txs, q \in Regs : RegisterCommit(t, q)
  BY <1>2, <1>4, RegisterWrites
<1>5. CASE \E t \in Txs : TransitionCommit(t)
  BY <1>3, <1>5, TransitionWrites
<1>6. ASSUME NEW q \in Regs, Archive(q)
      PROVE  ~OpenEntry(e) /\ mail_done' = mail_done
  BY <1>1, <1>6 DEF TypeOK, RegistrationRow, Archive, OpenEntry, Enters, HoldsSeat
<1>7. ASSUME NEW d \in Events, CloseMails(d)
      PROVE  ~OpenEntry(e) /\ (mail_done[e] => mail_done'[e])
  BY <1>1, <1>7 DEF TypeOK, CloseMails, OpenEntry, Enters
<1>8. CASE registrations' = registrations /\ mail_done' = mail_done
  BY <1>8 DEF OpenEntry, Enters
<1>9. QED
  BY <1>4, <1>5, <1>6, <1>7, <1>8, RowWriters

\* The after_sub schedulers of an event are re-opened by register_core and
\* transition exactly when a row enters 'open': no attendee is missed, and a
\* commit that confirms nobody re-opens nothing.
THEOREM ArmsExactly == Spec => ArmsOnEntryToOpen
<1>1. ASSUME IInv, [Next]_vars
      PROVE  \A e \in Events :
                /\ OpenEntry(e) => ~mail_done'[e]
                /\ mail_done[e] /\ ~mail_done'[e] => OpenEntry(e)
  BY <1>1, ArmsExactlyOnEntry
<1>2. QED
  BY SeatEngineSafety, <1>1, PTL DEF Spec, ArmsOnEntryToOpen, OpenEntry

\* An insert commits in an event that was not cancelled when the register
\* read it and cannot have been since.
LEMMA InsertsWhereAdmitted ==
    ASSUME IInv, [Next]_vars, NEW r \in Regs, registrations[r].state = "absent"
    PROVE  \/ registrations'[r].state = "absent"
           \/ events'[registrations'[r].event].phase # "cancel"
<1>1. TypeOK
  BY DEF IInv
<1>2. ASSUME NEW t \in Txs, NEW q \in Regs, RegisterCommit(t, q)
      PROVE  \/ registrations'[r].state = "absent"
             \/ events'[registrations'[r].event].phase # "cancel"
  <2>1. events' = events /\ events[arg[t].event].phase # "cancel"
    BY <1>2 DEF IInv, AdmittedEventStands, RegisterCommit
  <2>2. QED
    BY <1>2, <2>1, RegisterWrites
<1>3. ASSUME NEW t \in Txs, TransitionCommit(t)
      PROVE  registrations'[r].state = "absent"
  BY <1>3, TransitionWrites
<1>4. ASSUME NEW q \in Regs, Archive(q)
      PROVE  registrations'[r].state = "absent"
  BY <1>1, <1>4 DEF TypeOK, RegistrationRow, Archive
<1>5. ASSUME NEW d \in Events, CloseMails(d)
      PROVE  registrations'[r].state = "absent"
  BY <1>5 DEF CloseMails
<1>6. CASE registrations' = registrations /\ mail_done' = mail_done
  BY <1>6
<1>7. QED
  BY <1>2, <1>3, <1>4, <1>5, <1>6, RowWriters

\* A cancellation that races a register waits for the row lock or is seen by
\* it: no registration is ever inserted in a cancelled event.
THEOREM CancelledStaysEmpty == Spec => CancelledEventTakesNoRow
<1>1. ASSUME IInv, [Next]_vars
      PROVE  \A r \in Regs : registrations[r].state = "absent" =>
                \/ registrations'[r].state = "absent"
                \/ events'[registrations'[r].event].phase # "cancel"
  BY <1>1, InsertsWhereAdmitted
<1>2. QED
  BY SeatEngineSafety, <1>1, PTL DEF Spec, CancelledEventTakesNoRow

-----------------------------------------------------------------------------
(* Refinement of the book of held seats                                    *)

SeatOf(row) == IF HoldsSeat(row) THEN [event |-> row.event, slot |-> row.slot] ELSE NoReg

BookOf == [r \in Regs |-> SeatOf(registrations[r])]

CapsOf == [e \in Events |-> [seats_limited |-> events[e].seats_limited,
                             seats_max |-> events[e].seats_max]]

\* A commit that makes a row hold a seat takes it in the book, with room.
LEMMA EntryTakes ==
    ASSUME IInv, [Next]_vars, NEW r \in Regs, Enters(r)
    PROVE  Book!BookNext
<1>1. PICK t \in Txs : /\ pc[t] = "counted"
                       /\ registrations'[r].event = arg[t].event
                       /\ registrations'[r].slot = arg[t].slot
  BY EntryIsCounted
<1>2. events' = events /\ \A q \in Regs \ {r} : registrations'[q] = registrations[q]
  BY EntryIsCounted
<1>3. PICK seat \in [event : Events, slot : SlotRef] :
         seat = [event |-> registrations'[r].event, slot |-> registrations'[r].slot]
  BY <1>1 DEF IInv, TypeOK, Arg
<1>4. BookOf[r] = NoReg /\ BookOf' = [BookOf EXCEPT ![r] = seat] /\ CapsOf' = CapsOf
  <2>1. BookOf[r] = NoReg /\ CapsOf' = CapsOf
    BY <1>2 DEF BookOf, SeatOf, CapsOf, Enters
  <2>2. \A q \in Regs : BookOf'[q] = IF q = r THEN seat ELSE BookOf[q]
    BY <1>2, <1>3 DEF BookOf, SeatOf, Enters
  <2>3. BookOf' = [q \in Regs |-> BookOf'[q]] /\ BookOf = [q \in Regs |-> BookOf[q]]
    BY DEF BookOf
  <2>4. QED
    BY <2>1, <2>2, <2>3
<1>5. {q \in Regs : /\ BookOf[q] # NoReg /\ BookOf[q].event = seat.event
                    /\ seat.slot = NoSlot \/ BookOf[q].slot = seat.slot}
         = Holding(seat.event, seat.slot)
  <2>1. ASSUME NEW q \in Regs
        PROVE  /\ BookOf[q] # NoReg <=> HoldsSeat(registrations[q])
               /\ HoldsSeat(registrations[q]) =>
                     /\ BookOf[q].event = registrations[q].event
                     /\ BookOf[q].slot = registrations[q].slot
    <3>1. registrations[q] \in RegistrationRow
      BY DEF IInv, TypeOK
    <3>2. [event |-> registrations[q].event, slot |-> registrations[q].slot]
             \in [event : Events, slot : Slots \cup {NoSlot}]
      BY <3>1 DEF RegistrationRow, SlotRef
    <3>3. QED
      BY <3>2, SeatEngineAssumption DEF BookOf, SeatOf
  <2>2. QED
    BY <2>1 DEF Holding
<1>6. ~Exhausted(events[seat.event], Cardinality(Holding(seat.event, seat.slot)))
  BY <1>3, EntryWithinCap
<1>7. LET cap == CapsOf[seat.event] IN
      cap.seats_limited /\ cap.seats_max > 0 =>
         Cardinality(Holding(seat.event, seat.slot)) < cap.seats_max
  <2>1. events[seat.event] \in EventRow /\ seat.event \in Events
    BY <1>3 DEF IInv, TypeOK
  <2>2. Cardinality(Holding(seat.event, seat.slot)) \in Nat
    BY RegCardinality DEF Holding
  <2>3. QED
    BY <1>6, <2>1, <2>2 DEF Exhausted, CapsOf, EventRow
<1>8. Book!Room(seat)
  <2>1. Book!Rivals(seat) = Holding(seat.event, seat.slot)
    BY <1>5 DEF Book!Rivals, BookOf, SeatOf
  <2>2. Book!Cardinality(Book!Rivals(seat)) = Cardinality(Holding(seat.event, seat.slot))
    BY <2>1 DEF Book!Cardinality, Cardinality
  <2>3. QED
    BY <1>7, <2>2 DEF Book!Room, CapsOf
<1>9. Book!Take(r, seat)
  BY <1>4, <1>8 DEF Book!Take, BookOf, SeatOf, CapsOf
<1>10. QED
  BY <1>3, <1>9 DEF Book!BookNext

\* A commit that makes no row hold a seat frees one or leaves the book alone.
LEMMA OtherwiseVacates ==
    ASSUME IInv, NEW r \in Regs, events' = events,
           \A q \in Regs \ {r} : registrations'[q] = registrations[q],
           HoldsSeat(registrations'[r]) => SeatOf(registrations'[r]) = SeatOf(registrations[r])
    PROVE  Book!BookNext
<1>1. CASE HoldsSeat(registrations'[r])
  <2>1. BookOf' = BookOf
    BY <1>1 DEF BookOf, SeatOf
  <2>2. QED
    BY <2>1 DEF Book!BookNext, Book!Reconfigure, BookOf, SeatOf
<1>2. CASE ~HoldsSeat(registrations'[r])
  <2>1. BookOf' = [BookOf EXCEPT ![r] = NoReg] /\ CapsOf' = CapsOf
    BY <1>2 DEF BookOf, SeatOf, CapsOf
  <2>2. Book!Vacate(r)
    BY <2>1 DEF Book!Vacate, BookOf, SeatOf, CapsOf
  <2>3. QED
    BY <2>2 DEF Book!BookNext
<1>3. QED
  BY <1>1, <1>2

LEMMA NextImplementsBook ==
    IInv /\ [Next]_vars => [Book!BookNext]_(Book!bookVars)
<1> SUFFICES ASSUME IInv, [Next]_vars
             PROVE  Book!BookNext
  OBVIOUS
<1>1. TypeOK
  BY DEF IInv
<1>2. ASSUME NEW r \in Regs, Enters(r)
      PROVE  Book!BookNext
  BY <1>2, EntryTakes
<1>3. ASSUME NEW t \in Txs, NEW r \in Regs, RegisterCommit(t, r), ~Enters(r)
      PROVE  Book!BookNext
  <2>1. /\ events' = events /\ \A q \in Regs \ {r} : registrations'[q] = registrations[q]
        /\ registrations[r].state = "absent"
    BY <1>1, <1>3 DEF TypeOK, RegisterCommit
  <2>2. ~HoldsSeat(registrations'[r])
    BY <1>3, <2>1 DEF Enters, HoldsSeat, SeatState
  <2>3. QED
    BY <2>1, <2>2, OtherwiseVacates
<1>4. ASSUME NEW t \in Txs, TransitionCommit(t), \A r \in Regs : ~Enters(r)
      PROVE  Book!BookNext
  <2> DEFINE r == arg[t].reg
  <2>1. r \in Regs
    BY <1>4 DEF IInv, RegistrationLockHeld, TransitionCommit, InTransition
  <2>2. /\ events' = events /\ \A q \in Regs \ {r} : registrations'[q] = registrations[q]
        /\ registrations'[r].event = registrations[r].event
        /\ registrations'[r].slot = registrations[r].slot
    BY <1>1, <1>4, <2>1 DEF TypeOK, TransitionCommit, RegistrationRow
  <2>3. HoldsSeat(registrations'[r]) => SeatOf(registrations'[r]) = SeatOf(registrations[r])
    BY <1>4, <2>1, <2>2 DEF Enters, SeatOf
  <2>4. QED
    BY <2>1, <2>2, <2>3, OtherwiseVacates
<1>5. ASSUME NEW r \in Regs, Archive(r)
      PROVE  Book!BookNext
  <2>1. /\ events' = events /\ \A q \in Regs \ {r} : registrations'[q] = registrations[q]
        /\ registrations'[r].active = FALSE
    BY <1>1, <1>5 DEF TypeOK, RegistrationRow, Archive
  <2>2. QED
    BY <2>1, OtherwiseVacates DEF HoldsSeat
<1>6. CASE registrations' = registrations
  <2>1. BookOf' = BookOf
    BY <1>6 DEF BookOf, SeatOf
  <2>2. QED
    BY <2>1 DEF Book!BookNext, Book!Reconfigure, BookOf, SeatOf
<1>7. \/ \E t \in Txs, q \in Regs : RegisterCommit(t, q)
      \/ \E t \in Txs : TransitionCommit(t)
      \/ \E q \in Regs : Archive(q)
      \/ registrations' = registrations
  BY DEF Next, Begin, Continue, RegisterLock, TransitionBegin, DeskScan, DeskTransition,
         LockRegistration, CountRoom, CountExhausted, TransitionLockEvent, ArmRequest,
         DeadlockVictim, Environment, PatchEvent, MarkDone, CancelEvent, EventUpdate, CloseMails, CloseLeads, vars, rows
<1>8. QED
  BY <1>2, <1>3, <1>4, <1>5, <1>6, <1>7

\* The row locks, the count and the late commit implement the book in which
\* looking for room and taking a seat are one step.
THEOREM SeatEngineImplementsBook == Spec => ImplementsBook
<1>1. Init => Book!BookInit
  BY BlankTypes DEF Init, Book!BookInit, HoldsSeat, SeatState
<1>2. QED
  BY SeatEngineSafety, <1>1, NextImplementsBook, PTL DEF Spec, ImplementsBook, Book!BookSpec

=============================================================================
