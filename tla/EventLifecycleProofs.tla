------------------------ MODULE EventLifecycleProofs ------------------------
(***************************************************************************)
(* What the runs check of EventLifecycle on small instances, for any       *)
(* number of events, stages, types, lines and sessions.                    *)
(***************************************************************************)
EXTENDS EventLifecycle, WellFoundedInduction, TLAPS

-----------------------------------------------------------------------------
(* The first stage                                                         *)

\* Numbers that are there have a least one.
LEMMA LeastIsThere ==
    ASSUME NEW N \in SUBSET Nat, N # {}
    PROVE  \E n \in N : \A k \in N : n <= k
  <1> DEFINE Less == OpToRel(<, Nat)
  <1>1. PICK n \in N : \A k \in N : ~(<<k, n>> \in Less)
    <2> HIDE DEF Less
    <2> QED  BY NatLessThanWellFounded, WFMin DEF Less
  <1>2. \A k \in N : n <= k
    <2> TAKE k \in N
    <2>1. k \in Nat /\ n \in Nat
      OBVIOUS
    <2>2. k < n => <<k, n>> \in Less
      BY <2>1 DEF OpToRel
    <2>3. ~(k < n)
      BY <1>1, <2>2
    <2> QED  BY <2>1, <2>3
  <1> QED  BY <1>2

\* ORDER BY sequence, id LIMIT 1 finds a row in a table that has one.
LEMMA FirstIsThere ==
    ASSUME sequence \in [Stages -> Nat], NEW S \in SUBSET Stages, S # {}
    PROVE  First(S) \in S
  <1>1. PICK n \in {sequence[s] : s \in S} : \A k \in {sequence[s] : s \in S} : n <= k
    <2>1. {sequence[s] : s \in S} \in SUBSET Nat /\ {sequence[s] : s \in S} # {}
      OBVIOUS
    <2> QED  BY <2>1, LeastIsThere
  <1> DEFINE Ties == {s \in S : sequence[s] = n}
  <1>2. PICK i \in {Id[s] : s \in Ties} : \A k \in {Id[s] : s \in Ties} : i <= k
    <2>1. {Id[s] : s \in Ties} \in SUBSET Nat /\ {Id[s] : s \in Ties} # {}
      BY <1>1, EventLifecycleAssumption DEF EventLifecycleAssumption
    <2> QED  BY <2>1, LeastIsThere
  <1>3. PICK s \in S : sequence[s] = n /\ Id[s] = i
    BY <1>2
  <1>4. \A o \in S : Precedes(s, o)
    <2> TAKE o \in S
    <2>1. n \in Nat /\ sequence[o] \in Nat /\ n <= sequence[o]
      BY <1>1
    <2>2. sequence[o] = n => Id[s] <= Id[o]
      BY <1>2, <1>3
    <2> QED  BY <1>3, <2>1, <2>2 DEF Precedes
  <1> QED  BY <1>4 DEF First

\* What the assumption says of the constants.
LEMMA Constants ==
    /\ MaxTime \in Nat \ {0} /\ date_begin = 1 /\ Dates = 1..MaxTime /\ date_begin \in Dates
    /\ NoEvent \notin Events /\ NoStage \notin Stages /\ NoType \notin Types
    /\ PipeEnd \subseteq Stages /\ None \notin Stages /\ None \notin Types /\ None \notin Nat
  BY EventLifecycleAssumption DEF EventLifecycleAssumption, date_begin, Dates

\* A session that carries nothing has its type.
LEMMA IdleType ==
    /\ Idle \in Carried /\ Idle.event = NoEvent /\ ~Idle.fresh /\ Idle.rows = {}
    /\ Idle.turned = {}
    /\ NoRow \in EventRow /\ ~NoRow.there
  BY Constants DEF Idle, Carried, NoRow, EventRow

USE DEF pipeline

-----------------------------------------------------------------------------
(* The initial states                                                      *)

\* The invariant holds at the start: no session carries anything.
LEMMA InitInv == Init => IInv
  <1> SUFFICES ASSUME Init PROVE IInv
    OBVIOUS
  <1> USE Constants, IdleType
  <1>1. StagesThere \in SUBSET Stages
    BY DEF StagesThere
  <1>2. \A e \in Born : First(StagesThere) \in StagesThere
    <2> SUFFICES ASSUME Born # {} PROVE First(StagesThere) \in StagesThere
      OBVIOUS
    <2>1. StagesThere # {} /\ sequence \in [Stages -> Nat]
      BY DEF Init, StagesThere
    <2> QED  BY <1>1, <2>1, FirstIsThere
  <1>3. \A e \in Events : /\ events[e] \in EventRow
                          /\ events[e].there => events[e].stage_id \in StagesThere
    BY <1>1, <1>2 DEF Init, EventRow, NoRow
  <1>4. TypeOK
    BY <1>3 DEF Init, TypeOK, RowState, Labels
  <1>5. SessionOK
    BY DEF Init, SessionOK
  <1>6. StageOfEveryEvent
    BY <1>3 DEF Init, StageOfEveryEvent
  <1>7. ClaimStaysDue /\ ClaimsDisjoint
    BY DEF Init, ClaimStaysDue, ClaimsDisjoint
  <1> QED  BY <1>4, <1>5, <1>6, <1>7 DEF IInv

-----------------------------------------------------------------------------
(* Steps of a session that write no table                                  *)

\* What must hold of the transaction t that session p is to carry at a place.
MayCarry(p, label, t) ==
    /\ label \in Labels /\ t \in Carried
    /\ label = "mark" => t.event \in Events
    /\ label \in {"insert", "create"} =>
          /\ t.event \in Events /\ t.stage \in Stages /\ ~events[t.event].there
          /\ \A q \in Sessions : tx[q].event = t.event => q = p
    /\ t.event = NoEvent \/ \A q \in Sessions \ {p} :
          pc[q] \in {"insert", "create"} => tx[q].event # t.event
    /\ t.fresh => label \in {"insert", "create"}
    /\ t.rows # {} => label = "sweep"
    /\ label = "create" /\ ~t.fresh => t.stage \in StagesThere
    /\ \A e \in t.rows :
          /\ Overdue(e) /\ events[e].stage_id \notin pipe_end \ t.turned
          /\ \A q \in Sessions \ {p} : e \notin tx[q].rows

\* A step that only moves a session on keeps the invariant.
LEMMA SessionStep ==
    ASSUME IInv, NEW p \in Sessions, NEW label, NEW t,
           MayCarry(p, label, t), Go(p, label, t), UNCHANGED <<now, tables>>
    PROVE  IInv'
  <1> USE Constants DEF MayCarry
  <1>1. /\ pc' \in [Sessions -> Labels] /\ tx' \in [Sessions -> Carried]
        /\ pc'[p] = label /\ tx'[p] = t
        /\ \A q \in Sessions \ {p} : pc'[q] = pc[q] /\ tx'[q] = tx[q]
    BY DEF IInv, TypeOK, Go
  <1>2. /\ now' = now /\ UNCHANGED pipeline /\ type_lines' = type_lines
        /\ events' = events /\ applied' = applied /\ StagesThere' = StagesThere
    BY DEF tables, StagesThere
  <1>3. TypeOK'
    BY <1>1, <1>2 DEF IInv, TypeOK
  <1>4. SessionOK'
    BY <1>1, <1>2 DEF IInv, SessionOK
  <1>5. StageOfEveryEvent'
    BY <1>1, <1>2 DEF IInv, StageOfEveryEvent
  <1>6. \A e \in Events : Overdue(e) <=> Overdue(e)'
    BY <1>2 DEF Overdue
  <1>7. ClaimStaysDue'
    BY <1>1, <1>2, <1>6 DEF IInv, ClaimStaysDue, StaysDue, Carried
  <1>8. ClaimsDisjoint'
    BY <1>1 DEF IInv, ClaimsDisjoint
  <1> QED  BY <1>3, <1>4, <1>5, <1>7, <1>8 DEF IInv

\* Whoever is done, fails or dies may go idle.
LEMMA EndStep ==
    ASSUME IInv, NEW p \in Sessions, End(p), UNCHANGED <<now, tables>>
    PROVE  IInv'
  <1>1. MayCarry(p, "idle", Idle)
    BY IdleType DEF MayCarry, Labels
  <1> QED  BY <1>1, SessionStep DEF End

\* A create takes an event that is not there and that nobody carries.
LEMMA CreateBeginKeeps ==
    ASSUME IInv, NEW p \in Sessions, NEW e \in Events, NEW t \in Types \cup {NoType},
           NEW d \in 0..MaxTime, CreateBegin(p, e, t, d)
    PROVE  IInv'
  <1> USE Constants, IdleType
  <1>1. StagesThere # {} => First(StagesThere) \in Stages
    <2>1. StagesThere \in SUBSET Stages /\ sequence \in [Stages -> Nat]
      BY DEF StagesThere, IInv, TypeOK
    <2> QED  BY <2>1, FirstIsThere
  <1>2. PICK s \in Stages :
          Go(p, "insert", [Idle EXCEPT !.event = e, !.stage = s, !.type = t, !.date_end = d,
                                       !.fresh = StagesThere = {}])
    BY <1>1 DEF CreateBegin
  <1> DEFINE f == StagesThere = {}
             c == [Idle EXCEPT !.event = e, !.stage = s, !.type = t, !.date_end = d, !.fresh = f]
  <1>3. c \in Carried /\ c.event = e /\ c.stage = s /\ c.rows = {}
    <2>1. f \in BOOLEAN
      OBVIOUS
    <2>2. d \in Dates
      BY DEF CreateBegin
    <2> HIDE DEF f
    <2> QED  BY <2>1, <2>2 DEF Idle, Carried
  <1>4. MayCarry(p, "insert", c)
    <2> HIDE DEF c
    <2> QED  BY <1>3 DEF MayCarry, CreateBegin, Labels
  <1>5. UNCHANGED <<now, tables>>
    BY DEF CreateBegin
  <1> QED  BY <1>2, <1>4, <1>5, SessionStep

\* From the insert on a create holds a stage that is in the table, or its own.
LEMMA CreateInsertKeeps ==
    ASSUME IInv, NEW p \in Sessions, CreateInsert(p)
    PROVE  IInv'
  <1> USE Constants
  <1> DEFINE c == [tx[p] EXCEPT !.lines = Copied(tx[p].type)]
  <1>1. tx[p] \in Carried /\ Copied(tx[p].type) \in SUBSET Lines
    BY DEF IInv, TypeOK, Carried, Copied
  <1>2. /\ c \in Carried /\ c.event = tx[p].event /\ c.stage = tx[p].stage
        /\ c.rows = tx[p].rows /\ c.fresh = tx[p].fresh
    BY <1>1 DEF Carried
  <1>3. MayCarry(p, "create", c)
    <2> HIDE DEF c
    <2> QED  BY <1>2 DEF MayCarry, CreateInsert, Labels, IInv, SessionOK, StagesThere
  <1> QED  BY <1>3, SessionStep DEF CreateInsert

\* mark_done reads a stage of the table, or none.
LEMMA MarkDoneReadKeeps ==
    ASSUME IInv, NEW p \in Sessions, NEW e \in Events, MarkDoneRead(p, e)
    PROVE  IInv'
  <1> USE Constants, IdleType
  <1> DEFINE ends == StagesThere \cap pipe_end
             s == IF ends = {} THEN NoStage ELSE First(ends)
             c == [Idle EXCEPT !.event = e, !.stage = s]
  <1>1. s \in Stages \cup {NoStage}
    <2>1. ends \in SUBSET Stages /\ sequence \in [Stages -> Nat]
      BY DEF StagesThere, IInv, TypeOK
    <2> HIDE DEF ends
    <2>2. ends # {} => First(ends) \in ends
      BY <2>1, FirstIsThere
    <2> QED  BY <2>1, <2>2
  <1>2. c \in Carried /\ c.event = e /\ ~c.fresh /\ c.rows = {}
    <2> HIDE DEF s
    <2> QED  BY <1>1 DEF Idle, Carried
  <1>3. MayCarry(p, "mark", c)
    <2> HIDE DEF c
    <2> QED  BY <1>2 DEF MayCarry, MarkDoneRead, Labels, IInv, SessionOK
  <1>4. Go(p, "mark", c) /\ UNCHANGED <<now, tables>>
    BY DEF MarkDoneRead
  <1> HIDE DEF c
  <1> QED  BY <1>3, <1>4, SessionStep

\* A sweep claims events that are due and that no other sweep holds.
LEMMA SweepClaimKeeps ==
    ASSUME IInv, NEW p \in Sessions, SweepClaim(p)
    PROVE  IInv'
  <1> USE Constants, IdleType
  <1>1. PICK S \in SUBSET {e \in Events : SweepDue(e) /\ ~Locked(e)} :
          Go(p, "sweep", [Idle EXCEPT !.rows = S])
    BY DEF SweepClaim
  <1> DEFINE c == [Idle EXCEPT !.rows = S]
  <1>2. c \in Carried /\ c.event = NoEvent /\ ~c.fresh /\ c.rows = S
    BY DEF Idle, Carried
  <1>3. \A e \in S : /\ Overdue(e) /\ events[e].stage_id \notin pipe_end
                     /\ \A q \in Sessions : e \notin tx[q].rows
    <2> TAKE e \in S
    <2>1. events[e].kanban_state \in {"normal", "done", "cancel"}
      BY DEF IInv, TypeOK, EventRow
    <2> QED  BY <2>1 DEF SweepDue, Locked, Overdue
  <1>4. MayCarry(p, "sweep", c)
    <2> HIDE DEF c
    <2> QED  BY <1>2, <1>3 DEF MayCarry, Labels
  <1>5. UNCHANGED <<now, tables>>
    BY DEF SweepClaim
  <1> QED  BY <1>1, <1>4, <1>5, SessionStep

\* A cascade carries schedulers and a line, and no claim.
LEMMA CascadeMailsKeeps ==
    ASSUME IInv, NEW p \in Sessions, NEW l \in Lines, CascadeMails(p, l)
    PROVE  IInv'
  <1> USE Constants, IdleType
  <1> DEFINE c == [Idle EXCEPT !.lines = {l}, !.mails = {e \in Events : l \in applied[e]}]
  <1>1. c \in Carried /\ c.event = NoEvent /\ ~c.fresh /\ c.rows = {}
    BY DEF Idle, Carried
  <1>2. MayCarry(p, "cascade", c)
    <2> HIDE DEF c
    <2> QED  BY <1>1 DEF MayCarry, Labels
  <1>3. Go(p, "cascade", c) /\ UNCHANGED <<now, tables>>
    BY DEF CascadeMails
  <1> HIDE DEF c
  <1> QED  BY <1>2, <1>3, SessionStep

-----------------------------------------------------------------------------
(* Steps that write an event row                                           *)

\* A statement that writes a row nobody has locked, and may end its session.
LEMMA RowWrite ==
    ASSUME IInv, NEW e \in Events, NEW r \in EventRow, Writable(e),
           r.there, r.stage_id \in StagesThere,
           events' = [events EXCEPT ![e] = r],
           UNCHANGED <<now, pipeline, type_lines, applied>>,
           UNCHANGED <<pc, tx>> \/ \E p \in Sessions : End(p)
    PROVE  IInv'
  <1> USE Constants, IdleType
  <1>1. /\ events' \in [Events -> EventRow] /\ events'[e] = r
        /\ \A o \in Events \ {e} : events'[o] = events[o]
        /\ StagesThere' = StagesThere
    BY DEF IInv, TypeOK, StagesThere
  <1>2. /\ pc' \in [Sessions -> Labels] /\ tx' \in [Sessions -> Carried]
        /\ \A p \in Sessions : \/ pc'[p] = pc[p] /\ tx'[p] = tx[p]
                               \/ pc'[p] = "idle" /\ tx'[p] = Idle
    <2>1. pc \in [Sessions -> Labels] /\ tx \in [Sessions -> Carried]
      BY DEF IInv, TypeOK
    <2>2. CASE UNCHANGED <<pc, tx>>
      BY <2>1, <2>2
    <2>3. ASSUME NEW q \in Sessions,
                 pc' = [pc EXCEPT ![q] = "idle"], tx' = [tx EXCEPT ![q] = Idle]
          PROVE  <1>2
      <3>1. pc' \in [Sessions -> Labels]
        BY <2>1, <2>3 DEF Labels
      <3>2. tx' \in [Sessions -> Carried]
        BY <2>1, <2>3
      <3>3. \A p \in Sessions : \/ pc'[p] = pc[p] /\ tx'[p] = tx[p]
                                \/ pc'[p] = "idle" /\ tx'[p] = Idle
        BY <2>1, <2>3
      <3> QED  BY <3>1, <3>2, <3>3
    <2> QED  BY <2>2, <2>3 DEF End, Go
  <1>3. \A p \in Sessions : e \notin tx'[p].rows
    BY <1>2 DEF Writable, Locked
  <1>4. \A p \in Sessions : pc'[p] \in {"insert", "create"} => tx'[p].event # e
    BY <1>2 DEF Writable, IInv, SessionOK
  <1>5. TypeOK'
    BY <1>1, <1>2 DEF IInv, TypeOK
  <1>6. SessionOK'
    BY <1>1, <1>2, <1>4 DEF IInv, SessionOK
  <1>7. StageOfEveryEvent'
    BY <1>1, <1>2 DEF IInv, StageOfEveryEvent
  <1>8. ClaimStaysDue'
    BY <1>1, <1>2, <1>3 DEF IInv, ClaimStaysDue, StaysDue, Overdue
  <1>9. ClaimsDisjoint'
    BY <1>2 DEF IInv, ClaimsDisjoint
  <1> QED  BY <1>5, <1>6, <1>7, <1>8, <1>9 DEF IInv

\* A patch moves an unlocked event to a stage that is in the table.
LEMMA PatchKeeps ==
    ASSUME IInv, NEW e \in Events, NEW patch \in Patches, Patch(e, patch)
    PROVE  IInv'
  <1> USE Constants
  <1> DEFINE r == [events[e] EXCEPT !.event_type_id = COALESCE(patch.event_type_id, @),
                                    !.stage_id = COALESCE(patch.stage_id, @),
                                    !.date_end = COALESCE(patch.date_end, @)]
  <1>1. events[e] \in EventRow /\ events[e].there /\ events[e].stage_id \in StagesThere
    BY DEF IInv, TypeOK, Patch, Writable, StageOfEveryEvent
  <1>2. /\ patch.event_type_id \in Types \cup {None}
        /\ patch.stage_id \in Stages \cup {None}
        /\ patch.date_end \in (0..MaxTime) \cup {None}
    BY EventLifecycleAssumption DEF EventLifecycleAssumption
  <1>3. COALESCE(patch.event_type_id, events[e].event_type_id) \in Types \cup {NoType}
    BY <1>1, <1>2 DEF COALESCE, EventRow
  <1>4. COALESCE(patch.stage_id, events[e].stage_id) \in StagesThere
    BY <1>1, <1>2 DEF COALESCE, Patch, StagesThere
  <1>5. COALESCE(patch.date_end, events[e].date_end) \in Dates
    BY <1>1, <1>2 DEF COALESCE, Patch, EventRow
  <1>6. r \in EventRow /\ r.there /\ r.stage_id \in StagesThere
    BY <1>1, <1>3, <1>4, <1>5 DEF EventRow, StagesThere
  <1>7. events' = [events EXCEPT ![e] = r]
    BY DEF Patch, IInv, TypeOK
  <1>8. Writable(e) /\ UNCHANGED <<now, pipeline, type_lines, applied, pc, tx>>
    BY DEF Patch
  <1> HIDE DEF r
  <1> QED  BY <1>6, <1>7, <1>8, RowWrite

\* Publish, unpublish and the host's cancel.
LEMMA FlagKeeps ==
    ASSUME IInv, NEW e \in Events, Publish(e) \/ Unpublish(e) \/ Cancel(e)
    PROVE  IInv'
  <1> USE Constants
  <1>1. /\ events[e] \in EventRow /\ events[e].there /\ events[e].stage_id \in StagesThere
        /\ now \in 1..MaxTime + 1 /\ Writable(e)
    BY DEF IInv, TypeOK, Publish, Unpublish, Cancel, Writable, StageOfEveryEvent
  <1>2. CASE Publish(e)
    <2> DEFINE r == [events[e] EXCEPT !.is_published = TRUE,
                                      !.date_publish = COALESCE(@, now)]
    <2>1. r \in EventRow /\ r.there /\ r.stage_id \in StagesThere
      BY <1>1 DEF EventRow, COALESCE
    <2>2. events' = [events EXCEPT ![e] = r] /\ UNCHANGED <<now, pipeline, type_lines, applied, pc, tx>>
      BY <1>2 DEF Publish
    <2> HIDE DEF r
    <2> QED  BY <1>1, <2>1, <2>2, RowWrite
  <1>3. CASE Unpublish(e)
    <2> DEFINE r == [events[e] EXCEPT !.is_published = FALSE]
    <2>1. r \in EventRow /\ r.there /\ r.stage_id \in StagesThere
      BY <1>1 DEF EventRow
    <2>2. events' = [events EXCEPT ![e] = r] /\ UNCHANGED <<now, pipeline, type_lines, applied, pc, tx>>
      BY <1>3 DEF Unpublish
    <2> HIDE DEF r
    <2> QED  BY <1>1, <2>1, <2>2, RowWrite
  <1>4. CASE Cancel(e)
    <2> DEFINE r == [events[e] EXCEPT !.kanban_state = "cancel"]
    <2>1. r \in EventRow /\ r.there /\ r.stage_id \in StagesThere
      BY <1>1 DEF EventRow
    <2>2. events' = [events EXCEPT ![e] = r] /\ UNCHANGED <<now, pipeline, type_lines, applied, pc, tx>>
      BY <1>4 DEF Cancel
    <2> HIDE DEF r
    <2> QED  BY <1>1, <2>1, <2>2, RowWrite
  <1> QED  BY <1>2, <1>3, <1>4

\* mark_done writes an unlocked event; its stage is in the table, or the event's own.
LEMMA MarkDoneWriteKeeps ==
    ASSUME IInv, NEW p \in Sessions, MarkDoneWrite(p)
    PROVE  IInv'
  <1> USE Constants
  <1>1. PICK e \in Events : e = tx[p].event
    BY DEF IInv, SessionOK, MarkDoneWrite
  <1> DEFINE s == IF tx[p].stage = NoStage THEN events[e].stage_id ELSE tx[p].stage
             r == [events[e] EXCEPT !.kanban_state = "done", !.stage_id = s]
  <1>2. events[e] \in EventRow /\ events[e].there /\ Writable(e)
    BY <1>1 DEF IInv, TypeOK, MarkDoneWrite, Writable
  <1>3. s \in StagesThere
    BY <1>1, <1>2 DEF IInv, TypeOK, Carried, MarkDoneWrite, StageOfEveryEvent, StagesThere
  <1>4. r \in EventRow /\ r.there /\ r.stage_id \in StagesThere
    <2> HIDE DEF s
    <2> QED  BY <1>2, <1>3 DEF EventRow, StagesThere
  <1>5. events' = [events EXCEPT ![e] = r]
    BY <1>1 DEF MarkDoneWrite, IInv, TypeOK
  <1>6. End(p) /\ UNCHANGED <<now, pipeline, type_lines, applied>>
    BY DEF MarkDoneWrite
  <1> HIDE DEF r
  <1> QED  BY <1>2, <1>4, <1>5, <1>6, RowWrite

\* The row, its lines and a fresh stage become visible together; the event was
\* not there, so no sweep holds it and no other create carries it.
LEMMA CreateCommitKeeps ==
    ASSUME IInv, NEW p \in Sessions, CreateCommit(p)
    PROVE  IInv'
  <1> USE Constants, IdleType
  <1>1. PICK e \in Events, s \in Stages : e = tx[p].event /\ s = tx[p].stage
    BY DEF IInv, SessionOK, CreateCommit
  <1>2. /\ tx[p] \in Carried /\ ~events[e].there
        /\ \A q \in Sessions : tx[q].event = e => q = p
    BY <1>1 DEF IInv, TypeOK, SessionOK, CreateCommit
  <1> DEFINE r == [NoRow EXCEPT !.there = TRUE, !.event_type_id = tx[p].type,
                                !.stage_id = s, !.date_end = tx[p].date_end]
  <1>3. r \in EventRow /\ r.there /\ r.stage_id = s
    BY <1>2 DEF EventRow, NoRow, Carried
  <1>4. events' = [events EXCEPT ![e] = r]
    BY <1>1 DEF CreateCommit
  <1> HIDE DEF r
  <1>5. /\ events' \in [Events -> EventRow] /\ events'[e] = r
        /\ \A o \in Events \ {e} : events'[o] = events[o]
    BY <1>3, <1>4 DEF IInv, TypeOK
  <1>6. /\ stages' \in [Stages -> RowState] /\ StagesThere \subseteq StagesThere'
        /\ s \in StagesThere'
    BY <1>1 DEF CreateCommit, IInv, TypeOK, RowState, StagesThere, StageOfEveryEvent
  <1>7. /\ pc' \in [Sessions -> Labels] /\ tx' \in [Sessions -> Carried]
        /\ pc'[p] = "idle" /\ tx'[p] = Idle
        /\ \A q \in Sessions \ {p} : pc'[q] = pc[q] /\ tx'[q] = tx[q]
    BY DEF CreateCommit, IInv, TypeOK, End, Go, Labels
  <1>8. /\ applied' \in [Events -> SUBSET Lines] /\ now' = now /\ type_lines' = type_lines
        /\ UNCHANGED <<sequence, pipe_end>>
    BY <1>2 DEF CreateCommit, IInv, TypeOK, Carried
  <1>9. TypeOK'
    BY <1>5, <1>6, <1>7, <1>8 DEF IInv, TypeOK
  <1>10. SessionOK'
    BY <1>2, <1>5, <1>7 DEF IInv, SessionOK
  <1>11. StageOfEveryEvent'
    BY <1>3, <1>5, <1>6, <1>7 DEF IInv, StageOfEveryEvent
  <1>12. ClaimStaysDue'
    BY <1>2, <1>5, <1>7, <1>8 DEF IInv, ClaimStaysDue, StaysDue, Overdue
  <1>13. ClaimsDisjoint'
    BY <1>7 DEF IInv, ClaimsDisjoint
  <1> QED  BY <1>9, <1>10, <1>11, <1>12, <1>13 DEF IInv

\* A sweep closes the rows it holds; no other sweep holds any of them.
LEMMA SweepCommitKeeps ==
    ASSUME IInv, NEW p \in Sessions, SweepCommit(p)
    PROVE  IInv'
  <1> USE Constants, IdleType
  <1>1. /\ events' \in [Events -> EventRow]
        /\ \A e \in Events : /\ events'[e].there = events[e].there
                             /\ events'[e].stage_id = events[e].stage_id
                             /\ e \notin tx[p].rows => events'[e] = events[e]
    <2> DEFINE done(e) == [events[e] EXCEPT !.kanban_state = "done"]
    <2>1. \A e \in Events : /\ events[e] \in EventRow /\ done(e) \in EventRow
                            /\ done(e).there = events[e].there
                            /\ done(e).stage_id = events[e].stage_id
      BY DEF IInv, TypeOK, EventRow
    <2>2. events' = [e \in Events |-> IF e \in tx[p].rows THEN done(e) ELSE events[e]]
      BY DEF SweepCommit
    <2> HIDE DEF done
    <2> QED  BY <2>1, <2>2
  <1>2. /\ pc' \in [Sessions -> Labels] /\ tx' \in [Sessions -> Carried]
        /\ pc'[p] = "idle" /\ tx'[p] = Idle
        /\ \A q \in Sessions \ {p} : pc'[q] = pc[q] /\ tx'[q] = tx[q]
    BY DEF SweepCommit, IInv, TypeOK, End, Go, Labels
  <1>3. /\ now' = now /\ UNCHANGED pipeline /\ type_lines' = type_lines /\ applied' = applied
        /\ StagesThere' = StagesThere
    BY DEF SweepCommit, StagesThere
  <1>4. TypeOK'
    BY <1>1, <1>2, <1>3 DEF IInv, TypeOK
  <1>5. SessionOK'
    BY <1>1, <1>2 DEF IInv, SessionOK
  <1>6. StageOfEveryEvent'
    BY <1>1, <1>2, <1>3 DEF IInv, StageOfEveryEvent
  <1>7. ClaimStaysDue'
    <2> SUFFICES ASSUME NEW q \in Sessions, NEW e \in Events, e \in tx'[q].rows
                 PROVE  StaysDue(q, e)'
      BY DEF ClaimStaysDue
    <2>1. q # p /\ e \in tx[q].rows
      BY <1>2
    <2>2. e \notin tx[p].rows /\ StaysDue(q, e)
      BY <2>1 DEF IInv, ClaimsDisjoint, ClaimStaysDue
    <2> QED  BY <1>1, <1>2, <1>3, <2>1, <2>2 DEF StaysDue, Overdue
  <1>8. ClaimsDisjoint'
    BY <1>2 DEF IInv, ClaimsDisjoint
  <1> QED  BY <1>4, <1>5, <1>6, <1>7, <1>8 DEF IInv

\* A cascade deletes lines, of which the invariant says their type alone.
LEMMA CascadeCommitKeeps ==
    ASSUME IInv, NEW p \in Sessions, CascadeCommit(p)
    PROVE  IInv'
  <1> USE Constants, IdleType
  <1>1. /\ applied' \in [Events -> SUBSET Lines] /\ type_lines' \in [Types -> SUBSET Lines]
        /\ now' = now /\ UNCHANGED pipeline /\ events' = events /\ StagesThere' = StagesThere
    BY DEF CascadeCommit, IInv, TypeOK, StagesThere
  <1>2. /\ pc' \in [Sessions -> Labels] /\ tx' \in [Sessions -> Carried]
        /\ pc'[p] = "idle" /\ tx'[p] = Idle
        /\ \A q \in Sessions \ {p} : pc'[q] = pc[q] /\ tx'[q] = tx[q]
    BY DEF CascadeCommit, IInv, TypeOK, End, Go, Labels
  <1>3. TypeOK'
    BY <1>1, <1>2 DEF IInv, TypeOK
  <1>4. SessionOK' /\ StageOfEveryEvent'
    BY <1>1, <1>2 DEF IInv, SessionOK, StageOfEveryEvent
  <1>5. ClaimStaysDue' /\ ClaimsDisjoint'
    BY <1>1, <1>2 DEF IInv, ClaimStaysDue, ClaimsDisjoint, StaysDue, Overdue
  <1> QED  BY <1>3, <1>4, <1>5 DEF IInv

-----------------------------------------------------------------------------
(* Steps that leave the sessions alone                                     *)

\* So does an edit of a type's lines.
LEMMA EditLineKeeps ==
    ASSUME IInv, NEW t \in Types, NEW l \in Lines, EditLine(t, l)
    PROVE  IInv'
  <1>1. type_lines' \in [Types -> SUBSET Lines]
    BY DEF EditLine, IInv, TypeOK
  <1>2. UNCHANGED <<now, pipeline, events, applied, pc, tx>>
    BY DEF EditLine
  <1> QED
    BY <1>1, <1>2 DEF IInv, TypeOK, SessionOK, StageOfEveryEvent, StagesThere,
                      ClaimStaysDue, ClaimsDisjoint, StaysDue, Overdue

\* A stage in use is never purged: an event or an open create holds on to it.
LEMMA StageKeeps ==
    ASSUME IInv, NEW s \in Stages, EditStage(s) \/ PurgeStage(s)
    PROVE  IInv'
  <1>1. UNCHANGED <<now, sequence, pipe_end, type_lines, events, applied, pc, tx>>
    BY DEF EditStage, PurgeStage
  <1>2. /\ stages' \in [Stages -> RowState]
        /\ \A o \in Stages \ {s} : stages'[o] = stages[o]
    BY DEF EditStage, PurgeStage, IInv, TypeOK, RowState
  <1>3. \/ s \in StagesThere'
        \/ /\ \A e \in Events : events[e].stage_id # s
           /\ \A p \in Sessions : pc[p] = "create" => tx[p].stage # s
    BY DEF EditStage, PurgeStage, IInv, TypeOK, StagesThere
  <1>4. StageOfEveryEvent'
    BY <1>1, <1>2, <1>3 DEF IInv, StageOfEveryEvent, StagesThere
  <1>5. TypeOK'
    BY <1>1, <1>2 DEF IInv, TypeOK
  <1>6. SessionOK' /\ ClaimStaysDue' /\ ClaimsDisjoint'
    BY <1>1 DEF IInv, SessionOK, ClaimStaysDue, ClaimsDisjoint, StaysDue, Overdue
  <1> QED  BY <1>4, <1>5, <1>6 DEF IInv

\* A stage may be made terminal under a sweep, which then has it in turned.
LEMMA PatchStageKeeps ==
    ASSUME IInv, NEW s \in Stages, NEW n \in Sequences, NEW ends \in BOOLEAN,
           PatchStage(s, n, ends)
    PROVE  IInv'
  <1>1. /\ UNCHANGED <<now, stages, type_lines, events, applied, pc>>
        /\ StagesThere' = StagesThere
    BY DEF PatchStage, StagesThere
  <1>2. /\ sequence' \in [Stages -> Nat] /\ pipe_end' \subseteq Stages
        /\ pipe_end' = IF ends THEN pipe_end \cup {s} ELSE pipe_end \ {s}
    BY EventLifecycleAssumption DEF EventLifecycleAssumption, PatchStage, IInv, TypeOK
  <1>3. ASSUME NEW p \in Sessions
        PROVE  /\ tx'[p] \in Carried
               /\ tx'[p].event = tx[p].event /\ tx'[p].stage = tx[p].stage
               /\ tx'[p].fresh = tx[p].fresh /\ tx'[p].rows = tx[p].rows
               /\ tx'[p].turned = IF ends /\ tx[p].rows # {} THEN tx[p].turned \cup {s}
                                  ELSE tx[p].turned
    <2> DEFINE t == [tx[p] EXCEPT !.turned = tx[p].turned \cup {s}]
    <2>1. tx[p] \in Carried
      BY DEF IInv, TypeOK
    <2>2. /\ t \in Carried /\ t.event = tx[p].event /\ t.stage = tx[p].stage
          /\ t.fresh = tx[p].fresh /\ t.rows = tx[p].rows /\ t.turned = tx[p].turned \cup {s}
      BY <2>1 DEF Carried
    <2>3. tx'[p] = IF ends /\ tx[p].rows # {} THEN t ELSE tx[p]
      BY DEF PatchStage
    <2> HIDE DEF t
    <2> QED  BY <2>1, <2>2, <2>3
  <1>4. tx' \in [Sessions -> Carried]
    BY <1>3 DEF PatchStage
  <1>5. TypeOK'
    BY <1>1, <1>2, <1>4 DEF IInv, TypeOK
  <1>6. SessionOK'
    <2>1. UNCHANGED <<pc, events>> /\ SessionOK
      BY <1>1 DEF IInv
    <2>2. \A p \in Sessions : /\ tx'[p].event = tx[p].event /\ tx'[p].stage = tx[p].stage
                              /\ tx'[p].fresh = tx[p].fresh /\ tx'[p].rows = tx[p].rows
      BY <1>3
    <2> QED  BY <2>1, <2>2 DEF SessionOK
  <1>7. StageOfEveryEvent' /\ ClaimsDisjoint'
    BY <1>1, <1>3 DEF IInv, StageOfEveryEvent, ClaimsDisjoint
  <1>8. ClaimStaysDue'
    BY <1>1, <1>2, <1>3 DEF IInv, ClaimStaysDue, StaysDue, Overdue
  <1> QED  BY <1>5, <1>6, <1>7, <1>8 DEF IInv

\* An event that is overdue stays so while time passes.
LEMMA TickKeeps ==
    ASSUME IInv, Tick
    PROVE  IInv'
  <1> USE Constants
  <1>1. now \in Nat /\ now' = now + 1 /\ now' \in 1..MaxTime + 1
    BY DEF IInv, TypeOK, Tick
  <1>2. UNCHANGED <<pipeline, type_lines, events, applied, pc, tx>>
    BY DEF Tick, tables
  <1>3. \A e \in Events : Overdue(e) => Overdue(e)'
    <2> TAKE e \in Events
    <2>1. events[e].date_end \in Nat
      BY DEF IInv, TypeOK, EventRow
    <2> QED  BY <1>1, <1>2, <2>1 DEF Overdue
  <1>4. TypeOK'
    BY <1>1, <1>2 DEF IInv, TypeOK
  <1>5. SessionOK' /\ StageOfEveryEvent'
    BY <1>2 DEF IInv, SessionOK, StageOfEveryEvent, StagesThere
  <1>6. ClaimStaysDue' /\ ClaimsDisjoint'
    BY <1>2, <1>3 DEF IInv, ClaimStaysDue, StaysDue, ClaimsDisjoint
  <1> QED  BY <1>4, <1>5, <1>6 DEF IInv

-----------------------------------------------------------------------------
(* Every step                                                              *)

\* A step that changes nothing keeps the invariant.
LEMMA StutterKeeps ==
    ASSUME IInv, UNCHANGED vars
    PROVE  IInv'
  BY DEF vars, IInv, TypeOK, SessionOK, StageOfEveryEvent, StagesThere,
         ClaimStaysDue, ClaimsDisjoint, StaysDue, Overdue

\* The later steps of a transaction.
LEMMA StepKeeps ==
    ASSUME IInv, NEW p \in Sessions, Step(p) \/ SweepClaim(p) \/ Crash(p)
    PROVE  IInv'
  <1>1. CASE CreateInsert(p)
    BY <1>1, CreateInsertKeeps
  <1>2. CASE CreateFails(p)
    BY <1>2, EndStep DEF CreateFails
  <1>3. CASE CreateCommit(p)
    BY <1>3, CreateCommitKeeps
  <1>4. CASE MarkDoneWrite(p)
    BY <1>4, MarkDoneWriteKeeps
  <1>5. CASE MarkDoneFails(p)
    BY <1>5, EndStep DEF MarkDoneFails
  <1>6. CASE SweepClaim(p)
    BY <1>6, SweepClaimKeeps
  <1>7. CASE SweepCommit(p)
    BY <1>7, SweepCommitKeeps
  <1>8. CASE CascadeCommit(p)
    BY <1>8, CascadeCommitKeeps
  <1>9. CASE Crash(p)
    BY <1>9, EndStep DEF Crash
  <1> QED
    BY <1>1, <1>2, <1>3, <1>4, <1>5, <1>6, <1>7, <1>8, <1>9 DEF Step

\* The verbs that begin, and those of one statement.
LEMMA VerbKeeps ==
    ASSUME IInv, Verbs
    PROVE  IInv'
  <1>1. CASE \E p \in Sessions, e \in Events : MarkDoneRead(p, e)
    BY <1>1, MarkDoneReadKeeps
  <1>2. CASE \E p \in Sessions, e \in Events, t \in Types \cup {NoType}, d \in 0..MaxTime :
               CreateBegin(p, e, t, d)
    BY <1>2, CreateBeginKeeps
  <1>3. CASE \E p \in Sessions, l \in Lines : CascadeMails(p, l)
    BY <1>3, CascadeMailsKeeps
  <1>4. CASE \E e \in Events : Unpublish(e) \/ Cancel(e)
    BY <1>4, FlagKeeps
  <1>5. CASE \E e \in Events, patch \in Patches : Patch(e, patch)
    BY <1>5, PatchKeeps
  <1>6. CASE \E e \in Billed : Publish(e)
    BY <1>6, FlagKeeps, EventLifecycleAssumption DEF EventLifecycleAssumption
  <1> QED  BY <1>1, <1>2, <1>3, <1>4, <1>5, <1>6 DEF Verbs

\* Every step keeps the invariant.
LEMMA NextInv == IInv /\ [Next]_vars => IInv'
  <1> SUFFICES ASSUME IInv, [Next]_vars PROVE IInv'
    OBVIOUS
  <1>1. CASE \E p \in Sessions : Step(p) \/ SweepClaim(p) \/ Crash(p)
    BY <1>1, StepKeeps
  <1>2. CASE Verbs
    BY <1>2, VerbKeeps
  <1>3. CASE Routes
    <2>1. CASE \E t \in Types, l \in Lines : EditLine(t, l)
      BY <2>1, EditLineKeeps
    <2>2. CASE \E s \in StageEdits : EditStage(s) \/ PurgeStage(s)
      BY <2>2, StageKeeps, EventLifecycleAssumption DEF EventLifecycleAssumption
    <2>3. CASE \E s \in StageEdits, n \in Sequences, ends \in BOOLEAN : PatchStage(s, n, ends)
      BY <2>3, PatchStageKeeps, EventLifecycleAssumption DEF EventLifecycleAssumption
    <2> QED  BY <1>3, <2>1, <2>2, <2>3 DEF Routes
  <1>4. CASE Tick
    BY <1>4, TickKeeps
  <1>5. CASE UNCHANGED vars
    BY <1>5, StutterKeeps
  <1> QED  BY <1>1, <1>2, <1>3, <1>4, <1>5 DEF Next

-----------------------------------------------------------------------------
(* The theorems                                                            *)

\* In every reachable state no event rests in a stage that was purged, what a
\* sweep has claimed is still overdue, and in a terminal stage only if an officer
\* made it one since the claim, and no two sweeps hold the same event: the
\* row locks of sweep_mark_done and the foreign key of create suffice against
\* any number of sessions, crashes and edits of the stages.
THEOREM EventSafety == Spec => []IInv
  <1> QED  BY InitInv, NextInv, PTL DEF Spec

\* A sweep leaves its place by its commit or by a crash.
LEMMA SweepEnds ==
    ASSUME IInv, Next, NEW p \in Sessions, pc[p] = "sweep", pc'[p] # "sweep"
    PROVE  SweepCommit(p) \/ Crash(p)
  <1>1. ASSUME NEW q \in Sessions, NEW label, NEW t, Go(q, label, t)
        PROVE  q = p
    BY <1>1 DEF Go, IInv, TypeOK
  <1>2. \A q \in Sessions : End(q) => q = p
    BY <1>1 DEF End
  <1>3. \A q \in Sessions : Step(q) \/ SweepClaim(q) \/ Crash(q) => q = p
    BY <1>1, <1>2 DEF Step, CreateInsert, CreateFails, CreateCommit, MarkDoneWrite, MarkDoneFails,
                      SweepCommit, CascadeCommit, SweepClaim, Crash
  <1>4. ~Verbs
    <2>1. \A q \in Sessions, e \in Events : ~MarkDoneRead(q, e)
      BY <1>1 DEF MarkDoneRead
    <2>2. \A q \in Sessions, e \in Events, t \in Types \cup {NoType}, d \in 0..MaxTime :
             ~CreateBegin(q, e, t, d)
      BY <1>1 DEF CreateBegin
    <2>3. \A q \in Sessions, l \in Lines : ~CascadeMails(q, l)
      BY <1>1 DEF CascadeMails
    <2>4. \A e : ~Publish(e) /\ ~Unpublish(e) /\ ~Cancel(e) /\ \A patch : ~Patch(e, patch)
      BY DEF Publish, Unpublish, Cancel, Patch
    <2> QED  BY <2>1, <2>2, <2>3, <2>4 DEF Verbs
  <1>5. ~Routes /\ ~Tick
    BY DEF Routes, EditLine, EditStage, PurgeStage, PatchStage, Tick
  <1>6. Step(p) \/ SweepClaim(p) \/ Crash(p)
    BY <1>3, <1>4, <1>5 DEF Next
  <1> QED
    BY <1>6 DEF Step, CreateInsert, CreateFails, CreateCommit, MarkDoneWrite, MarkDoneFails,
                CascadeCommit, SweepClaim

\* Whatever happened between the claim of sweep_mark_done and its commit, an
\* event it closes is overdue and not cancelled, and in no pipe_end stage unless
\* its stage was made one in between.
THEOREM SweepIsExact == Spec => SweepClosesOnlyTheDue
  <1> DEFINE A == \A p \in Sessions, e \in Events :
                pc[p] = "sweep" /\ pc'[p] = "idle" /\ events'[e] # events[e] => StaysDue(p, e)
  <1>1. IInv /\ [Next]_vars => [A]_vars
    <2> SUFFICES ASSUME IInv, Next, NEW p \in Sessions, NEW e \in Events,
                        pc[p] = "sweep", pc'[p] = "idle", events'[e] # events[e]
                 PROVE  StaysDue(p, e)
      OBVIOUS
    <2>1. SweepCommit(p)
      BY SweepEnds DEF Crash, tables
    <2>2. e \in tx[p].rows
      BY <2>1 DEF SweepCommit
    <2> QED  BY <2>2 DEF IInv, ClaimStaysDue
  <1>2. [][A]_vars <=> SweepClosesOnlyTheDue
    BY DEF SweepClosesOnlyTheDue
  <1> HIDE DEF A
  <1> QED  BY <1>1, <1>2, EventSafety, PTL DEF Spec

\* The template-apply of create never re-propagates: no patch of the type, no
\* edit of its lines and no second create adds a line to an event that is there.
THEOREM AppliesOnce == Spec => AppliedOnce
  <1> DEFINE A == \A e \in Events : events[e].there => applied'[e] \subseteq applied[e]
  <1>1. IInv /\ [Next]_vars => [A]_vars
    <2> SUFFICES ASSUME IInv, Next, NEW e \in Events, events[e].there,
                        applied' # applied
                 PROVE  applied'[e] \subseteq applied[e]
      OBVIOUS
    <2>1. ~Verbs /\ ~Routes /\ ~Tick
      BY DEF Verbs, Routes, Tick, MarkDoneRead, CreateBegin, CascadeMails, Publish, Unpublish,
             Cancel, Patch, EditLine, EditStage, PurgeStage, PatchStage, tables
    <2>2. PICK p \in Sessions : CreateCommit(p) \/ CascadeCommit(p)
      BY <2>1 DEF Next, Step, CreateInsert, CreateFails, MarkDoneWrite, MarkDoneFails, SweepCommit,
                  SweepClaim, Crash, tables
    <2>3. CASE CreateCommit(p)
      <3>1. tx[p].event # e
        BY <2>3 DEF CreateCommit, IInv, SessionOK
      <3> QED  BY <2>3, <3>1 DEF CreateCommit, IInv, TypeOK
    <2>4. CASE CascadeCommit(p)
      BY <2>4 DEF CascadeCommit
    <2> QED  BY <2>2, <2>3, <2>4
  <1>2. [][A]_vars <=> AppliedOnce
    BY DEF AppliedOnce
  <1> HIDE DEF A
  <1> QED  BY <1>1, <1>2, EventSafety, PTL DEF Spec
=============================================================================
