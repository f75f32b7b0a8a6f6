--------------------------- MODULE EventLifecycle ---------------------------
(***************************************************************************)
(* The life of an event row: the verbs of                                  *)
(* src/src/application/service/event_service.rs over the statements of     *)
(* src/src/infrastructure/persistence/event_command_repository.rs, and the *)
(* daily done sweep and the template cascade of scheduler_repository.rs,   *)
(* run by several sessions at the same time.                               *)
(*                                                                         *)
(* A transaction of several statements is a session that reads at one step *)
(* and commits at a later one; under READ COMMITTED each statement sees    *)
(* what others committed in between.  A verb of one statement is one       *)
(* action.  An UPDATE of a row that an open transaction has locked waits:  *)
(* its action is disabled.  Stages and the lines of an event type are      *)
(* edited through the generated routes, whose soft delete leaves the row   *)
(* in the table ("trashed"); no verb reads the mark, so for lines it is    *)
(* left out.  Columns no guard reads are left out.                         *)
(***************************************************************************)
EXTENDS Naturals, FiniteSets

CONSTANTS
    Events,
    Born,           \* events that exist at the start, in some stage
    Stages,
    PipeEnd,        \* stages whose pipe_end is set at first
    Id,             \* place of a stage in the order of ids
    Sequences,      \* sequence numbers an officer gives a stage
    StageEdits,     \* bounds the stages the generated routes edit
    Billed,         \* bounds the events an officer publishes
    Types,
    Lines,          \* mail and booth lines a type may hold
    MailLines,      \* those that name a mail template
    Creates,        \* the events officers create, each with a type or none
    Patches,        \* what officers send to PATCH, absent arms as None
    Sessions,
    SweepLimit,     \* LIMIT of the done sweep
    MaxTime,        \* bounds the clock
    NoEvent, NoStage, NoType, None

date_begin == 1     \* of every event
Dates == date_begin..MaxTime

ASSUME EventLifecycleAssumption ==
    /\ Born \subseteq Events /\ PipeEnd \subseteq Stages /\ MailLines \subseteq Lines
    /\ StageEdits \subseteq Stages /\ Billed \subseteq Events
    /\ Id \in [Stages -> Nat] /\ \A a, b \in Stages : Id[a] = Id[b] => a = b
    /\ Sequences \subseteq Nat
    /\ MaxTime \in Nat \ {0} /\ SweepLimit \in Nat \ {0}
    /\ NoEvent \notin Events /\ NoStage \notin Stages /\ NoType \notin Types
    /\ None \notin Nat \cup Stages \cup Types
    /\ Patches \subseteq [event_type_id : Types \cup {None}, stage_id : Stages \cup {None},
                          date_end : (0..MaxTime) \cup {None}]

VARIABLES
    now,            \* now(), in some unit
    stages,         \* of each stage: "absent", "live" or "trashed"
    sequence,       \* of each stage
    pipe_end,       \* the stages that are terminal
    type_lines,     \* lines of each type
    events,
    applied,        \* lines copied onto the event and still there
    pc, tx          \* of each session: its place and what it carries

pipeline == <<stages, sequence, pipe_end>>
tables == <<pipeline, type_lines, events, applied>>
vars == <<now, pipeline, type_lines, events, applied, pc, tx>>

-----------------------------------------------------------------------------
(* Rows                                                                    *)

RowState == {"absent", "live", "trashed"}

\* The columns of event.events that a guard reads.
EventRow == [there : BOOLEAN, event_type_id : Types \cup {NoType},
             stage_id : Stages \cup {NoStage}, date_end : Dates,
             kanban_state : {"normal", "done", "cancel"},
             is_published : BOOLEAN, date_publish : (1..MaxTime + 1) \cup {None}]

NoRow == [there |-> FALSE, event_type_id |-> NoType, stage_id |-> NoStage,
          date_end |-> date_begin,
          kanban_state |-> "normal", is_published |-> FALSE, date_publish |-> None]

\* rows are a sweep's claim; turned, which no guard reads, the stages that were
\* made terminal since.
Idle == [event |-> NoEvent, stage |-> NoStage, fresh |-> FALSE, type |-> NoType,
         date_end |-> date_begin, lines |-> {}, mails |-> {}, rows |-> {}, turned |-> {}]

COALESCE(a, b) == IF a = None THEN b ELSE a

\* The claim takes no lock.
Locked_Broken(e) == FALSE

\* FOR UPDATE: a row an open transaction has claimed.
Locked(e) == \E p \in Sessions : e \in tx[p].rows

\* SELECT ... FROM event.stages: the verbs do not read metadata.
StagesThere == {s \in Stages : stages[s] # "absent"}

\* ORDER BY sequence, id.
Precedes(s, o) ==
    \/ sequence[s] < sequence[o]
    \/ sequence[s] = sequence[o] /\ Id[s] <= Id[o]
First(S) == CHOOSE s \in S : \A o \in S : Precedes(s, o)

Go(p, label, t) == pc' = [pc EXCEPT ![p] = label] /\ tx' = [tx EXCEPT ![p] = t]
End(p) == Go(p, "idle", Idle)

-----------------------------------------------------------------------------
(* Create                                                                  *)

\* The service refuses a date_end before date_begin; the transaction reads the
\* first stage, or inserts 'New' when there is none.
CreateBegin(p, e, t, d) ==
    /\ pc[p] = "idle" /\ ~events[e].there
    /\ \A q \in Sessions : tx[q].event # e
    /\ d >= date_begin
    /\ \E s \in IF StagesThere # {} THEN {First(StagesThere)}
              ELSE {s \in Stages : sequence[s] = 1 /\ s \notin pipe_end} :
          /\ \A q \in Sessions : tx[q].fresh => tx[q].stage # s
          /\ Go(p, "insert", [Idle EXCEPT !.event = e, !.stage = s, !.type = t, !.date_end = d,
                                          !.fresh = StagesThere = {}])
    /\ UNCHANGED <<now, tables>>

\* The lines INSERT ... SELECT copies.
Copied(t) == IF t = NoType THEN {} ELSE type_lines[t]

\* INSERT INTO event.events with its foreign key, then the one template-apply.
CreateInsert(p) ==
    /\ pc[p] = "insert"
    /\ tx[p].fresh \/ stages[tx[p].stage] # "absent"
    /\ Go(p, "create", [tx[p] EXCEPT !.lines = Copied(tx[p].type)])
    /\ UNCHANGED <<now, tables>>

\* The stage was purged after it was read: the transaction rolls back.
CreateFails(p) ==
    /\ pc[p] = "insert"
    /\ ~tx[p].fresh /\ stages[tx[p].stage] = "absent"
    /\ End(p)
    /\ UNCHANGED <<now, tables>>

CreateCommit(p) ==
    /\ pc[p] = "create"
    /\ events' = [events EXCEPT ![tx[p].event] =
          [NoRow EXCEPT !.there = TRUE, !.event_type_id = tx[p].type,
                        !.stage_id = tx[p].stage, !.date_end = tx[p].date_end]]
    /\ applied' = [applied EXCEPT ![tx[p].event] = tx[p].lines]
    /\ stages' = [stages EXCEPT ![tx[p].stage] = IF tx[p].fresh THEN "live" ELSE @]
    /\ End(p)
    /\ UNCHANGED <<now, sequence, pipe_end, type_lines>>

-----------------------------------------------------------------------------
(* Verbs of one statement                                                  *)

\* An UPDATE waits for the transaction that holds the row.
Writable(e) == events[e].there /\ ~Locked(e)

\* A type patched onto the event brings its lines with it.
Patch_Broken(e, patch) ==
    /\ Writable(e)
    /\ events' = [events EXCEPT ![e].event_type_id = COALESCE(patch.event_type_id, @)]
    /\ applied' = [applied EXCEPT ![e] =
                      @ \cup Copied(COALESCE(patch.event_type_id, events[e].event_type_id))]
    /\ UNCHANGED <<now, pipeline, type_lines, pc, tx>>

\* The whitelisted patch: the foreign key and events_date_order refuse, an
\* absent arm keeps the stored value, kanban_state and the publish pair have
\* no arm.
Patch(e, patch) ==
    /\ Writable(e)
    /\ patch.stage_id # None => stages[patch.stage_id] # "absent"
    /\ patch.date_end # None => patch.date_end >= date_begin
    /\ events' = [events EXCEPT
          ![e].event_type_id = COALESCE(patch.event_type_id, @),
          ![e].stage_id = COALESCE(patch.stage_id, @),
          ![e].date_end = COALESCE(patch.date_end, @)]
    /\ UNCHANGED <<now, pipeline, type_lines, applied, pc, tx>>

Publish(e) ==
    /\ Writable(e)
    /\ events' = [events EXCEPT ![e].is_published = TRUE,
                                ![e].date_publish = COALESCE(@, now)]
    /\ UNCHANGED <<now, pipeline, type_lines, applied, pc, tx>>

Unpublish(e) ==
    /\ Writable(e)
    /\ events' = [events EXCEPT ![e].is_published = FALSE]
    /\ UNCHANGED <<now, pipeline, type_lines, applied, pc, tx>>

\* The host's writer of the cancellation signal; no verb of the module is one.
Cancel(e) ==
    /\ Writable(e)
    /\ events' = [events EXCEPT ![e].kanban_state = "cancel"]
    /\ UNCHANGED <<now, pipeline, type_lines, applied, pc, tx>>

-----------------------------------------------------------------------------
(* Mark done, by hand and by the sweep                                     *)

MarkDoneRead(p, e) ==
    /\ pc[p] = "idle" /\ events[e].there
    /\ LET ends == StagesThere \cap pipe_end
       IN  Go(p, "mark", [Idle EXCEPT !.event = e,
                                      !.stage = IF ends = {} THEN NoStage ELSE First(ends)])
    /\ UNCHANGED <<now, tables>>

\* kanban_state = 'done' and stage_id = COALESCE(pipe_end, stage_id).
MarkDoneWrite(p) ==
    /\ pc[p] = "mark" /\ Writable(tx[p].event)
    /\ tx[p].stage # NoStage => stages[tx[p].stage] # "absent"
    /\ events' = [events EXCEPT ![tx[p].event].kanban_state = "done",
          ![tx[p].event].stage_id = IF tx[p].stage = NoStage THEN @ ELSE tx[p].stage]
    /\ End(p)
    /\ UNCHANGED <<now, pipeline, type_lines, applied>>

\* The pipe_end stage was purged after it was read: the foreign key refuses.
MarkDoneFails(p) ==
    /\ pc[p] = "mark"
    /\ tx[p].stage # NoStage /\ stages[tx[p].stage] = "absent"
    /\ End(p)
    /\ UNCHANGED <<now, tables>>

\* EXISTS for NOT EXISTS: the sweep takes what rests in a pipe_end stage.
SweepDue_Inverted(e) ==
    /\ events[e].there /\ events[e].kanban_state \notin {"done", "cancel"}
    /\ events[e].date_end < now
    /\ events[e].stage_id \in pipe_end

\* The WHERE clause of the sweep's claim.
SweepDue(e) ==
    /\ events[e].there /\ events[e].kanban_state \notin {"done", "cancel"}
    /\ events[e].date_end < now
    /\ events[e].stage_id \notin pipe_end

\* ORDER BY date_end LIMIT SweepLimit FOR UPDATE SKIP LOCKED.
SweepClaim(p) ==
    /\ pc[p] = "idle"
    /\ LET due == {e \in Events : SweepDue(e) /\ ~Locked(e)}
       IN  \E S \in SUBSET due :
             /\ S # {}
             /\ Cardinality(S) = SweepLimit \/ (S = due /\ Cardinality(S) < SweepLimit)
             /\ \A e \in S, o \in due \ S : events[e].date_end <= events[o].date_end
             /\ Go(p, "sweep", [Idle EXCEPT !.rows = S])
    /\ UNCHANGED <<now, tables>>

\* The update of the claimed rows becomes visible: kanban_state alone.
SweepCommit(p) ==
    /\ pc[p] = "sweep"
    /\ events' = [e \in Events |->
          IF e \in tx[p].rows THEN [events[e] EXCEPT !.kanban_state = "done"] ELSE events[e]]
    /\ End(p)
    /\ UNCHANGED <<now, pipeline, type_lines, applied>>

-----------------------------------------------------------------------------
(* The template cascade, and the generated routes of stages and lines      *)

\* DELETE FROM event.mails: the rows committed so far that name the template.
CascadeMails(p, l) ==
    /\ pc[p] = "idle" /\ l \in MailLines
    /\ Go(p, "cascade", [Idle EXCEPT !.lines = {l},
                                     !.mails = {e \in Events : l \in applied[e]}])
    /\ UNCHANGED <<now, tables>>

\* DELETE FROM event.type_mails, and commit.
CascadeCommit(p) ==
    /\ pc[p] = "cascade"
    /\ applied' = [e \in Events |->
          IF e \in tx[p].mails THEN applied[e] \ tx[p].lines ELSE applied[e]]
    /\ type_lines' = [t \in Types |-> type_lines[t] \ tx[p].lines]
    /\ End(p)
    /\ UNCHANGED <<now, pipeline, events>>

\* A line is created, or purged from the trash.
EditLine(t, l) ==
    /\ type_lines' = [type_lines EXCEPT ![t] = IF l \in @ THEN @ \ {l} ELSE @ \cup {l}]
    /\ UNCHANGED <<now, pipeline, events, applied, pc, tx>>

\* A stage is created or restored, or put in the trash.
EditStage(s) ==
    /\ \A p \in Sessions : tx[p].fresh => tx[p].stage # s
    /\ stages' = [stages EXCEPT ![s] = IF @ = "live" THEN "trashed" ELSE "live"]
    /\ UNCHANGED <<now, sequence, pipe_end, type_lines, events, applied, pc, tx>>

\* A stage is given a sequence number and made terminal or not; a stage that is
\* not in the table has the columns its create will give it.  No lock of a
\* sweep or of a create keeps the row.
PatchStage(s, n, ends) ==
    /\ \A p \in Sessions : tx[p].fresh => tx[p].stage # s
    /\ sequence' = [sequence EXCEPT ![s] = n]
    /\ pipe_end' = IF ends THEN pipe_end \cup {s} ELSE pipe_end \ {s}
    /\ tx' = [p \in Sessions |->
          IF ends /\ tx[p].rows # {} THEN [tx[p] EXCEPT !.turned = @ \cup {s}] ELSE tx[p]]
    /\ UNCHANGED <<now, stages, type_lines, events, applied, pc>>

\* A purge ignores the event that an open transaction has inserted.
PurgeStage_Broken(s) ==
    /\ stages[s] = "trashed"
    /\ \A e \in Events : events[e].stage_id # s
    /\ stages' = [stages EXCEPT ![s] = "absent"]
    /\ UNCHANGED <<now, sequence, pipe_end, type_lines, events, applied, pc, tx>>

\* The row leaves the trash for good.  The foreign key is RESTRICT, and an
\* open transaction that inserted an event holds a share lock on its stage.
PurgeStage(s) ==
    /\ stages[s] = "trashed"
    /\ \A e \in Events : events[e].stage_id # s
    /\ \A p \in Sessions : pc[p] = "create" => tx[p].stage # s
    /\ stages' = [stages EXCEPT ![s] = "absent"]
    /\ UNCHANGED <<now, sequence, pipe_end, type_lines, events, applied, pc, tx>>

-----------------------------------------------------------------------------

\* A host dies: its transaction rolls back.
Crash(p) ==
    /\ pc[p] # "idle"
    /\ End(p)
    /\ UNCHANGED <<now, tables>>

Tick ==
    /\ now <= MaxTime
    /\ now' = now + 1
    /\ UNCHANGED <<tables, pc, tx>>

Init ==
    /\ now = 1
    /\ sequence = [s \in Stages |-> 1] /\ pipe_end = PipeEnd
    /\ stages \in {f \in [Stages -> {"absent", "live"}] : Born # {} => "live" \in {f[s] : s \in Stages}}
    /\ type_lines = [t \in Types |-> Lines]
    /\ events = [e \in Events |->
          IF e \in Born THEN [NoRow EXCEPT !.there = TRUE, !.stage_id = First(StagesThere)]
          ELSE NoRow]
    /\ applied = [e \in Events |-> {}]
    /\ pc = [p \in Sessions |-> "idle"]
    /\ tx = [p \in Sessions |-> Idle]

\* A transaction once begun.
Step(p) ==
    \/ CreateInsert(p) \/ CreateFails(p) \/ CreateCommit(p)
    \/ MarkDoneWrite(p) \/ MarkDoneFails(p)
    \/ SweepCommit(p) \/ CascadeCommit(p)

Verbs ==
    \/ \E p \in Sessions, e \in Events :
          MarkDoneRead(p, e)
          \/ \E t \in Types \cup {NoType}, d \in 0..MaxTime :
                <<e, t>> \in Creates /\ CreateBegin(p, e, t, d)
    \/ \E p \in Sessions, l \in Lines : CascadeMails(p, l)
    \/ \E e \in Events :
          Unpublish(e) \/ Cancel(e) \/ \E patch \in Patches : Patch(e, patch)
    \/ \E e \in Billed : Publish(e)

Routes ==
    \/ \E t \in Types, l \in Lines : EditLine(t, l)
    \/ \E s \in StageEdits :
          EditStage(s) \/ PurgeStage(s)
          \/ \E n \in Sequences, ends \in BOOLEAN : PatchStage(s, n, ends)

Next ==
    \/ \E p \in Sessions : Step(p) \/ SweepClaim(p) \/ Crash(p)
    \/ Verbs \/ Routes \/ Tick

Spec == Init /\ [][Next]_vars

\* The host runs the daily sweep for ever, a transaction ends, and not every
\* sweep dies before its commit.
FairSpec ==
    /\ Spec
    /\ SF_vars(\E p \in Sessions : SweepClaim(p)) /\ SF_vars(\E p \in Sessions : SweepCommit(p))
    /\ \A p \in Sessions : WF_vars(Step(p))

-----------------------------------------------------------------------------
(* Types and the inductive invariant                                       *)

Labels == {"idle", "insert", "create", "mark", "sweep", "cascade"}

Carried == [event : Events \cup {NoEvent}, stage : Stages \cup {NoStage}, fresh : BOOLEAN,
            type : Types \cup {NoType}, date_end : Dates, lines : SUBSET Lines,
            mails : SUBSET Events, rows : SUBSET Events, turned : SUBSET Stages]

\* Every variable has its type.
TypeOK ==
    /\ now \in 1..MaxTime + 1
    /\ stages \in [Stages -> RowState]
    /\ sequence \in [Stages -> Nat] /\ pipe_end \subseteq Stages
    /\ type_lines \in [Types -> SUBSET Lines]
    /\ events \in [Events -> EventRow]
    /\ applied \in [Events -> SUBSET Lines]
    /\ pc \in [Sessions -> Labels]
    /\ tx \in [Sessions -> Carried]

\* What a session carries at each place.
SessionOK ==
    \A p \in Sessions :
        /\ pc[p] = "mark" => tx[p].event \in Events
        /\ pc[p] \in {"insert", "create"} =>
              /\ tx[p].event \in Events /\ tx[p].stage \in Stages
              /\ ~events[tx[p].event].there
              /\ \A q \in Sessions : tx[q].event = tx[p].event => q = p
        /\ tx[p].fresh => pc[p] \in {"insert", "create"}
        /\ tx[p].rows # {} => pc[p] = "sweep"

\* No event rests in a stage that was purged, and none will once the open
\* creates commit: the purge meets the share lock of a create.
StageOfEveryEvent ==
    /\ \A e \in Events : events[e].there => events[e].stage_id \in StagesThere
    /\ \A p \in Sessions : pc[p] = "create" /\ ~tx[p].fresh => tx[p].stage \in StagesThere

\* An event that is over and that nobody has closed or cancelled ...
Overdue(e) ==
    events[e].there /\ events[e].kanban_state = "normal" /\ events[e].date_end < now

\* ... and that rests in no terminal stage.
Over(e) == Overdue(e) /\ events[e].stage_id \notin pipe_end

\* What a sweep has claimed stays overdue until it commits: the row lock keeps
\* an officer's patch of the dates or of the stage, a cancellation and the other
\* sweeps away.  Only its stage may be made terminal, by a patch of the stage.
StaysDue(p, e) == Overdue(e) /\ events[e].stage_id \notin pipe_end \ tx[p].turned
ClaimStaysDue == \A p \in Sessions, e \in Events : e \in tx[p].rows => StaysDue(p, e)

\* Two sweeps never hold the same event.
ClaimsDisjoint == \A p, q \in Sessions : p # q => tx[p].rows \cap tx[q].rows = {}

IInv == TypeOK /\ SessionOK /\ StageOfEveryEvent /\ ClaimStaysDue /\ ClaimsDisjoint

-----------------------------------------------------------------------------
(* Properties                                                              *)

\* An event the sweep closes is overdue at the moment it is closed, whatever
\* happened since the claim, and in no terminal stage unless an officer made the
\* stage one in between.
SweepClosesOnlyTheDue ==
    [][\A p \in Sessions, e \in Events :
          pc[p] = "sweep" /\ pc'[p] = "idle" /\ events'[e] # events[e] => StaysDue(p, e)]_vars

\* event_command_repository.rs: the template-apply "never re-propagates": no
\* patch of the type and no edit of its lines adds a line to an event that
\* exists.
AppliedOnce == [][\A e \in Events : events[e].there => applied'[e] \subseteq applied[e]]_vars

\* No event stays due for ever: bounded batches, two sweeps, crashes and
\* officers who move events about leave none behind.
NoEventStaysDue == \A e \in Events : []<>~Over(e)

\* scheduler_repository.rs, the sweep: it takes events "not resting in a
\* pipe_end stage".
SweepSparesPipeEnd ==
    [][\A p \in Sessions, e \in Events :
          pc[p] = "sweep" /\ pc'[p] = "idle" /\ events'[e] # events[e] =>
              events[e].stage_id \notin pipe_end]_vars

\* spec.md, the done sweep: an event that is over "gets the `mark_done` VERB
\* (full write + audit), never a raw UPDATE"; the verb moves the event to the
\* first pipe_end stage, so a done event rests in one.
DoneRestsInPipeEnd ==
    [][\A e \in Events :
          events[e].kanban_state # "done" /\ events'[e].kanban_state = "done"
          /\ StagesThere \cap pipe_end # {} => events'[e].stage_id \in pipe_end]_vars

\* spec.md, kanban_state: "`cancel` is sticky", "cancel never wipes".
CancelSticks ==
    [][\A e \in Events : events[e].kanban_state = "cancel" =>
          events'[e].kanban_state = "cancel"]_vars

\* RULE_FORMAT_MODELS.md, soft delete: the repository layer filters deleted
\* rows "automatically on read queries": a create never starts in a trashed
\* stage while a live one is there.
TrashedIsNotRead ==
    [][\A p \in Sessions : pc[p] = "idle" /\ pc'[p] = "insert" /\ ~tx'[p].fresh =>
          stages[tx'[p].stage] = "live"]_vars

\* event_command_repository.rs: 'New' is inserted when there is no stage: of
\* two first creates one finds the stage of the other.
OneFirstStage ==
    [][\A p \in Sessions : pc[p] = "create" /\ pc'[p] = "idle" /\ tx[p].fresh => StagesThere = {}]_vars

\* spec-overlay.md, the template cascade: once it has committed no scheduler
\* row names the template, unless the type got the line again.
CascadeLeavesNone ==
    [][\A p \in Sessions, l \in Lines :
          pc[p] = "create" /\ pc'[p] = "idle" /\ l \in tx[p].lines \cap MailLines => l \in type_lines[tx[p].type]]_vars
=============================================================================
