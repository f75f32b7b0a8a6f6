--------------------------- MODULE MailScheduler ---------------------------
(***************************************************************************)
(* The self-arming scheduler of one event: the passes of                   *)
(* src/src/application/service/scheduler_service.rs over the statements of *)
(* src/src/infrastructure/persistence/scheduler_repository.rs, run by      *)
(* several hosts and by the officer's "run" button at the same time.       *)
(*                                                                         *)
(* A pass holds no lock and no transaction from one statement to the next: *)
(* each action below is one statement, or one call of a host port, and     *)
(* what a pass carries from one to the next may be stale.  Every writer of *)
(* scheduled_date writes now(), so a scheduler row is always due; its      *)
(* failure marker is written and never read, and left out.  An archived    *)
(* registration is ineligible and keeps its receipts, as a draft one does, *)
(* and is not told apart from it.                                          *)
(***************************************************************************)
EXTENDS Naturals, FiniteSets

CONSTANTS
    Mails,          \* scheduler rows of the event
    AfterSub,       \* those of interval_kind 'after_sub'
    Untemplated,    \* those whose template_ref is empty at first
    Regs,
    Early,          \* registered before the passes start
    Invalid,        \* registrations with no usable recipient
    Deletable,      \* those whose template the template store may delete
    OfficerStates,  \* states the officer moves registrations to
    Batch,          \* EVENT_MAIL_BATCH
    Passes,
    Dates,          \* instants the officer sets date_end to
    MaxTime,        \* bounds the clock
    MaxCrashes,     \* bounds the crashes of a behaviour
    NoMail, NoReg

ASSUME MailSchedulerAssumption ==
    /\ AfterSub \subseteq Mails /\ Untemplated \subseteq Mails 
    /\ Deletable \subseteq Mails /\ NoMail \notin Mails
    /\ Early \subseteq Regs /\ Invalid \subseteq Regs /\ NoReg \notin Regs
    /\ OfficerStates \subseteq {"draft", "open", "done", "cancel"}
    /\ Batch \in Nat \ {0} /\ MaxCrashes \in Nat /\ MaxTime \in Nat /\ Dates \subseteq Nat

VARIABLES
    registrations,  \* state of each, or "absent"
    mails,          \* rows: exists, template, mail_done
    receipts,       \* per scheduler and registration
    handed,         \* messages the host queue accepted: 0, 1, or 2 for more
    now,            \* the clock
    date_end,       \* when the event is to end
    dates,          \* every date_end the event has had
    cancelled,
    pc, walk,       \* of each pass: its place and what it carries
    crashes

clock == <<now, date_end, dates>>
event == <<registrations, clock, cancelled>>
vars == <<registrations, mails, receipts, handed, clock, cancelled, pc, walk, crashes>>

-----------------------------------------------------------------------------

RegState == {"absent", "draft", "open", "done", "cancel"}
Receipt  == {"missing", "later", "due", "queued", "dropped"}
Unsent   == {"later", "due"}
Settled  == {"queued", "dropped"}

Eligible(r) == registrations[r] \in {"open", "done"}

\* What the statements select, for a scheduler.
Unreached(s) == {r \in Regs : Eligible(r) /\ receipts[s][r] \notin Settled}
Missing(s)   == {r \in Regs : mails[s].exists /\ Eligible(r) /\ receipts[s][r] = "missing"}
Due(s)       == {r \in Regs : Eligible(r) /\ receipts[s][r] = "due"}

\* A LIMIT of Batch rows, in an order left open.
Batches(S) ==
    {B \in SUBSET S : Cardinality(B) = IF Cardinality(S) < Batch THEN Cardinality(S) ELSE Batch}

\* doomed is what the propagation's subquery found; todo and templated come
\* from the claim; date_end from the read of the event (0 before it); batch,
\* full and gone from the last read of receipts (gone: those deleted since);
\* reg is between its enqueue and its mark; done is what the recompute found.
Idle == [doomed |-> {}, todo |-> {}, templated |-> {}, mail |-> NoMail, date_end |-> 0,
         batch |-> {}, full |-> FALSE, gone |-> {}, reg |-> NoReg, done |-> FALSE]

Goto(p, label) == pc' = [pc EXCEPT ![p] = label]
Stop(p) == Goto(p, "idle") /\ walk' = [walk EXCEPT ![p] = Idle]

-----------------------------------------------------------------------------
(* A pass                                                                  *)

\* propagate_cancellations: the subquery finds, in the snapshot of the
\* statement, the unsent receipts of cancelled registrations ...
PropagateRead(p) ==
    /\ pc[p] = "idle"
    /\ walk' = [walk EXCEPT ![p].doomed =
           {d \in Mails \X Regs : /\ registrations[d[2]] = "cancel"
                                /\ receipts[d[1]][d[2]] \in Unsent}]
    /\ Goto(p, "propagate")
    /\ UNCHANGED <<event, mails, receipts, handed, crashes>>

\* ... and the delete takes them by their ids, settled meanwhile or not.  A pass
\* that has read or doomed one of them finds no row of its id any more.
PropagateDelete(p) ==
    LET doomed == walk[p].doomed IN
    /\ pc[p] = "propagate"
    /\ receipts' = [s \in Mails |->
           [r \in Regs |-> IF <<s, r>> \in doomed THEN "missing" ELSE receipts[s][r]]]
    /\ walk' = [q \in Passes |->
           [walk[q] EXCEPT !.doomed = @ \ doomed,
                           !.gone = @ \cup {r \in walk[q].batch : <<walk[q].mail, r>> \in doomed}]]
    /\ Goto(p, "claim")
    /\ UNCHANGED <<event, mails, handed, crashes>>

\* The claim domain: not done, and somebody eligible not reached.
Claimable(s) == mails[s].exists /\ ~mails[s].mail_done /\ Unreached(s) # {}

\* claim_due; the row locks end with the statement.
ClaimDue(p) ==
    LET claimed == {s \in Mails : ~cancelled /\ Claimable(s)} IN
    /\ pc[p] = "claim"
    /\ walk' = [walk EXCEPT ![p].todo = claimed,
                            ![p].templated = {s \in claimed : mails[s].template # "none"}]
    /\ Goto(p, "next")
    /\ UNCHANGED <<event, mails, receipts, handed, crashes>>

\* run_one begins: a row without a template is recorded and left.
StartRow(p) ==
    /\ pc[p] = "next"
    /\ \E s \in walk[p].todo :
          \/ /\ s \in walk[p].templated
             /\ walk' = [walk EXCEPT ![p].todo = @ \ {s}, ![p].templated = @ \ {s},
                                     ![p].mail = s]
             /\ Goto(p, "stage")
          \/ /\ s \notin walk[p].templated
             /\ walk' = [walk EXCEPT ![p].todo = @ \ {s}]
             /\ UNCHANGED pc
    /\ UNCHANGED <<event, mails, receipts, handed, crashes>>

EndPass(p) ==
    /\ \/ pc[p] = "next" /\ walk[p].todo = {}
       \/ pc[p] = "aborted"
    /\ Stop(p)
    /\ UNCHANGED <<event, mails, receipts, handed, crashes>>

\* run_scheduler_by_id: the officer's button, past the claim domain.
RunById(p, s) ==
    /\ pc[p] = "idle" /\ mails[s].exists /\ mails[s].template # "none"
    /\ walk' = [walk EXCEPT ![p].mail = s]
    /\ Goto(p, "stage")
    /\ UNCHANGED <<event, mails, receipts, handed, crashes>>

\* materialize_receipts: the anti-join reads a snapshot ...
Stage(p) ==
    /\ pc[p] = "stage"
    /\ \E B \in Batches(Missing(walk[p].mail)) : walk' = [walk EXCEPT ![p].batch = B]
    /\ Goto(p, "insert")
    /\ UNCHANGED <<event, mails, receipts, handed, crashes>>

Insertable(p) ==
    \/ walk[p].batch = {}
    \/ /\ mails[walk[p].mail].exists
       /\ \A r \in walk[p].batch : receipts[walk[p].mail][r] = "missing"

\* ... and the insert finds the pairs still free, each due now or later, or
\* fails on the unique index and takes the pass with it.
InsertReceipts(p) ==
    /\ pc[p] = "insert" /\ Insertable(p)
    /\ \E ripe \in SUBSET walk[p].batch :
          receipts' = [receipts EXCEPT ![walk[p].mail] =
              [r \in Regs |-> IF r \in ripe THEN "due"
                              ELSE IF r \in walk[p].batch THEN "later" ELSE @[r]]]
    /\ walk' = [walk EXCEPT ![p].batch = {}]
    /\ Goto(p, "find")
    /\ UNCHANGED <<event, mails, handed, crashes>>

UniqueViolation(p) ==
    /\ pc[p] = "insert" /\ ~Insertable(p)
    /\ Goto(p, "aborted")
    /\ UNCHANGED <<event, mails, receipts, handed, walk, crashes>>

\* The event is read once for the whole walk.
ReadEvent(p) ==
    /\ pc[p] = "find"
    /\ walk' = [walk EXCEPT ![p].date_end = date_end]
    /\ Goto(p, "read")
    /\ UNCHANGED <<event, mails, receipts, handed, crashes>>

\* due_receipts, read again for as long as it fills the batch.
ReadDue(p) ==
    /\ pc[p] = "read"
    /\ \E B \in Batches(Due(walk[p].mail)) :
          /\ walk' = [walk EXCEPT ![p].batch = B, ![p].gone = {},
                                  ![p].full = (Cardinality(B) = Batch)]
          /\ Goto(p, IF B = {} THEN "recompute" ELSE "walk")
    /\ UNCHANGED <<event, mails, receipts, handed, crashes>>

\* A flip without AND NOT mail_sent.
Settle_Broken(p, s, r, outcome) ==
    receipts' = IF r \in walk[p].gone THEN receipts
                ELSE [receipts EXCEPT ![s][r] = outcome]

\* UPDATE ... WHERE id = $1 AND NOT mail_sent.
Settle(p, s, r, outcome) ==
    receipts' = IF r \in walk[p].gone \/ receipts[s][r] \in Settled THEN receipts
                ELSE [receipts EXCEPT ![s][r] = outcome]

\* The window check: the clock of now, the date_end of the walk.
Over(p) == walk[p].date_end <= now

\* The window closed: the receipt is visibly dropped.
Drop(p) ==
    /\ pc[p] = "walk" /\ Over(p)
    /\ \E r \in walk[p].batch :
          /\ Settle(p, walk[p].mail, r, "dropped")
          /\ walk' = [walk EXCEPT ![p].batch = @ \ {r}]
    /\ UNCHANGED <<event, mails, handed, pc, crashes>>

\* A failure taken for a send.
Fail_Broken(p) ==
    /\ pc[p] = "walk" /\ ~Over(p)
    /\ \E r \in walk[p].batch :
          /\ walk' = [walk EXCEPT ![p].batch = @ \ {r}]
          /\ Settle(p, walk[p].mail, r, "queued")
    /\ UNCHANGED <<event, mails, handed, pc, crashes>>

\* A render failure, an invalid recipient or a refused enqueue is recorded,
\* the receipt left unsent.
Fail(p) ==
    /\ pc[p] = "walk" /\ ~Over(p)
    /\ \E r \in walk[p].batch : walk' = [walk EXCEPT ![p].batch = @ \ {r}]
    /\ UNCHANGED <<event, mails, receipts, handed, pc, crashes>>

\* The host queue takes the message ...
Enqueue(p) ==
    /\ pc[p] = "walk" /\ ~Over(p) /\ mails[walk[p].mail].template = "live"
    /\ \E r \in walk[p].batch \ Invalid :
          /\ handed' = [handed EXCEPT ![walk[p].mail][r] = IF @ = 2 THEN 2 ELSE @ + 1]
          /\ walk' = [walk EXCEPT ![p].reg = r]
    /\ Goto(p, "mark")
    /\ UNCHANGED <<event, mails, receipts, crashes>>

\* A hand-over that is not recorded.
Mark_Broken(p) ==
    /\ pc[p] = "mark"
    /\ walk' = [walk EXCEPT ![p].batch = @ \ {walk[p].reg}, ![p].reg = NoReg]
    /\ Goto(p, "walk")
    /\ UNCHANGED <<event, mails, receipts, handed, crashes>>

\* ... and the receipt is marked queued, in a statement of its own.
Mark(p) ==
    /\ pc[p] = "mark"
    /\ Settle(p, walk[p].mail, walk[p].reg, "queued")
    /\ walk' = [walk EXCEPT ![p].batch = @ \ {walk[p].reg}, ![p].reg = NoReg]
    /\ Goto(p, "walk")
    /\ UNCHANGED <<event, mails, handed, crashes>>

BatchWalked(p) ==
    /\ pc[p] = "walk" /\ walk[p].batch = {}
    /\ Goto(p, IF walk[p].full THEN "read" ELSE "recompute")
    /\ walk' = [walk EXCEPT ![p].full = FALSE, ![p].gone = {}]
    /\ UNCHANGED <<event, mails, receipts, handed, crashes>>

\* A recompute that looks at receipts only, not at who has none.
RecomputeRead_Broken(p) ==
    /\ pc[p] = "recompute"
    /\ walk' = [walk EXCEPT ![p].done = \A r \in Regs : receipts[walk[p].mail][r] \notin Unsent]
    /\ Goto(p, "write")
    /\ UNCHANGED <<event, mails, receipts, handed, crashes>>

\* recompute_mail_done: the subquery reads the statement's snapshot, and an
\* arm that commits before the row is locked does not change its verdict.
RecomputeRead(p) ==
    /\ pc[p] = "recompute"
    /\ walk' = [walk EXCEPT ![p].done =
           mails[walk[p].mail].exists => Unreached(walk[p].mail) = {}]
    /\ Goto(p, "write")
    /\ UNCHANGED <<event, mails, receipts, handed, crashes>>

RecomputeWrite(p) ==
    LET s == walk[p].mail IN
    /\ pc[p] = "write"
    /\ mails' = [mails EXCEPT ![s].mail_done = mails[s].exists /\ walk[p].done]
    /\ Goto(p, "close")
    /\ UNCHANGED <<event, receipts, handed, walk, crashes>>

\* clear_failure, and the overflow re-arm, which writes scheduled_date.
CloseRow(p) ==
    /\ pc[p] = "close"
    /\ walk' = [walk EXCEPT ![p] = [Idle EXCEPT !.todo = walk[p].todo,
                                                !.templated = walk[p].templated]]
    /\ Goto(p, "next")
    /\ UNCHANGED <<event, mails, receipts, handed, crashes>>

\* The host dies, or loses its connection, between two statements.
Crash(p) ==
    /\ pc[p] # "idle" /\ crashes < MaxCrashes
    /\ crashes' = crashes + 1
    /\ Stop(p)
    /\ UNCHANGED <<event, mails, receipts, handed>>

-----------------------------------------------------------------------------
(* The verbs around the passes                                             *)

\* An entry to 'open' re-opens the after_sub schedulers.
ArmAfterSub ==
    mails' = [s \in Mails |-> IF s \in AfterSub THEN [mails[s] EXCEPT !.mail_done = FALSE]
                                                ELSE mails[s]]

Register(r) ==
    /\ registrations[r] = "absent" /\ ~cancelled
    /\ registrations' = [registrations EXCEPT ![r] = "open"]
    /\ ArmAfterSub
    /\ UNCHANGED <<receipts, handed, clock, cancelled, pc, walk, crashes>>

Transition(r, to) ==
    /\ registrations[r] # "absent"
    /\ registrations' = [registrations EXCEPT ![r] = to]
    /\ \/ to = "open" /\ registrations[r] \in {"draft", "cancel"} /\ ArmAfterSub
       \/ ~(to = "open" /\ registrations[r] \in {"draft", "cancel"}) /\ UNCHANGED mails
    /\ UNCHANGED <<receipts, handed, clock, cancelled, pc, walk, crashes>>

\* The officer gives a row the template it lacks.
FixTemplate(s) ==
    /\ mails[s].exists /\ mails[s].template # "live"
    /\ mails' = [mails EXCEPT ![s].template = "live"]
    /\ UNCHANGED <<event, receipts, handed, pc, walk, crashes>>

\* on_template_deleted, called by the store for a template it deleted: the
\* foreign key of the receipts refuses the delete of a row that has any.
TemplateDeleted(s) ==
    /\ s \in Deletable /\ mails[s].exists /\ mails[s].template = "live"
    /\ mails' = [mails EXCEPT ![s] =
           IF \A r \in Regs : receipts[s][r] = "missing"
           THEN [exists |-> FALSE, template |-> "gone", mail_done |-> FALSE]
           ELSE [@ EXCEPT !.template = "gone"]]
    /\ UNCHANGED <<event, receipts, handed, pc, walk, crashes>>

CancelEvent ==
    /\ ~cancelled /\ cancelled' = TRUE
    /\ UNCHANGED <<registrations, mails, receipts, handed, clock, pc, walk, crashes>>

\* The officer's patch moves the end of the event, earlier or later.
PatchEvent(d) ==
    /\ date_end' = d /\ dates' = dates \cup {d}
    /\ UNCHANGED <<registrations, mails, receipts, handed, now, cancelled, pc, walk, crashes>>

\* Time: a receipt falls due, the clock goes on.
FallDue(s, r) ==
    /\ receipts[s][r] = "later"
    /\ receipts' = [receipts EXCEPT ![s][r] = "due"]
    /\ UNCHANGED <<event, mails, handed, pc, walk, crashes>>

Tick ==
    /\ now < MaxTime /\ now' = now + 1
    /\ UNCHANGED <<registrations, mails, receipts, handed, date_end, dates, cancelled, pc, walk,
                   crashes>>

-----------------------------------------------------------------------------

Init ==
    /\ registrations = [r \in Regs |-> IF r \in Early THEN "open" ELSE "absent"]
    /\ mails = [s \in Mails |-> [exists |-> TRUE,
                                 template |-> IF s \in Untemplated THEN "none" ELSE "live",
                                 mail_done |-> FALSE]]
    /\ receipts = [s \in Mails |-> [r \in Regs |-> "missing"]]
    /\ handed = [s \in Mails |-> [r \in Regs |-> 0]]
    /\ now = 0 /\ date_end \in Dates /\ dates = {date_end} /\ cancelled = FALSE
    /\ pc = [p \in Passes |-> "idle"]
    /\ walk = [p \in Passes |-> Idle]
    /\ crashes = 0

\* A pass once begun, whatever it meets.
Step(p) ==
    \/ PropagateDelete(p) \/ ClaimDue(p) \/ StartRow(p) \/ EndPass(p)
    \/ Stage(p) \/ InsertReceipts(p) \/ UniqueViolation(p) \/ ReadEvent(p)
    \/ ReadDue(p) \/ Drop(p) \/ Fail(p) \/ Enqueue(p) \/ Mark(p) \/ BatchWalked(p)
    \/ RecomputeRead(p) \/ RecomputeWrite(p) \/ CloseRow(p)

Verbs ==
    \/ \E r \in Regs : Register(r) \/ \E to \in OfficerStates : Transition(r, to)
    \/ \E s \in Mails : FixTemplate(s) \/ TemplateDeleted(s)
    \/ CancelEvent \/ \E d \in Dates : PatchEvent(d)

Time == Tick \/ \E s \in Mails, r \in Regs : FallDue(s, r)

Next ==
    \/ \E p \in Passes :
          PropagateRead(p) \/ Step(p) \/ Crash(p) \/ \E s \in Mails : RunById(p, s)
    \/ Verbs \/ Time

Spec == Init /\ [][Next]_vars

\* The host ticks the cron for ever, a pass runs on, receipts fall due, and
\* the mail queue does not refuse a message for ever.
FairSpec ==
    /\ Spec
    /\ \A p \in Passes : SF_vars(PropagateRead(p)) /\ WF_vars(Step(p)) /\ SF_vars(Enqueue(p))
    /\ \A s \in Mails, r \in Regs : WF_vars(FallDue(s, r))

-----------------------------------------------------------------------------
(* Types and the inductive invariant                                       *)

Walk == [doomed : SUBSET (Mails \X Regs), todo : SUBSET Mails, templated : SUBSET Mails,
         mail : Mails \cup {NoMail}, date_end : Dates \cup {0}, batch : SUBSET Regs,
         full : BOOLEAN, gone : SUBSET Regs, reg : Regs \cup {NoReg}, done : BOOLEAN]

Labels == {"idle", "propagate", "claim", "next", "stage", "insert", "aborted", "find", "read",
           "walk", "mark", "recompute", "write", "close"}

\* Every variable has its type.
TypeOK ==
    /\ registrations \in [Regs -> RegState]
    /\ mails \in [Mails -> [exists : BOOLEAN, template : {"none", "live", "gone"},
                            mail_done : BOOLEAN]]
    /\ receipts \in [Mails -> [Regs -> Receipt]]
    /\ handed \in [Mails -> [Regs -> 0..2]]
    /\ now \in 0..MaxTime /\ date_end \in dates /\ dates \subseteq Dates
    /\ cancelled \in BOOLEAN
    /\ pc \in [Passes -> Labels]
    /\ walk \in [Passes -> Walk]
    /\ crashes \in 0..MaxCrashes

\* A pass at work on a row knows it, one that walks has a date the event has
\* had, and one that marks has handed over.
WalkOK ==
    \A p \in Passes :
        /\ pc[p] \in Labels \ {"idle", "propagate", "claim", "next", "aborted"} =>
              walk[p].mail \in Mails
        /\ pc[p] \in {"read", "walk", "mark"} => walk[p].date_end \in dates
        /\ pc[p] = "mark" => walk[p].reg \in Regs /\ handed[walk[p].mail][walk[p].reg] > 0

\* At least once: no receipt says 'queued' of a message no queue accepted, and
\* none is dropped before some end the event was given is past, whatever the
\* passes interleave and wherever the officer moves the end meanwhile.
ReceiptsTellTheTruth ==
    \A s \in Mails, r \in Regs :
        /\ receipts[s][r] = "queued" => handed[s][r] > 0
        /\ receipts[s][r] = "dropped" => \E d \in dates : d <= now

IInv == TypeOK /\ WalkOK /\ ReceiptsTellTheTruth

-----------------------------------------------------------------------------
(* Properties                                                              *)

\* A settled receipt keeps its first outcome through passes that race on it, a
\* cancellation and a crash.  It goes only with a propagation that found it
\* unsent before it was settled.
OutcomeIsKept ==
    [][\A s \in Mails, r \in Regs :
          receipts[s][r] \in Settled =>
              \/ receipts'[s][r] = receipts[s][r]
              \/ /\ receipts'[s][r] = "missing"
                 /\ \E p \in Passes : pc[p] = "propagate" /\ <<s, r>> \in walk[p].doomed]_vars

\* While no template is deleted, the passes reach everybody who was
\* registered before they started, through batches that overflow and passes
\* that abort each other, unless the event is cancelled.
EarlyReached ==
    \A s \in Mails \ Untemplated, r \in Early \ Invalid :
        <>(receipts[s][r] \in Settled \/ cancelled)

\* scheduler_repository.rs: "Terminal" of an outcome: a settled receipt stays.
SettledIsFinal ==
    [][\A s \in Mails, r \in Regs :
          receipts[s][r] \in Settled => receipts'[s][r] = receipts[s][r]]_vars

\* scheduler_service.rs: "a finished event visibly drops the receipt": the
\* event is over when one is dropped.
DropsAreLate ==
    [][\A s \in Mails, r \in Regs :
          receipts[s][r] \in Unsent /\ receipts'[s][r] = "dropped" => date_end <= now]_vars

\* spec.md, completion: "TRUE exactly when NO eligible registration lacks a
\* sent/settled receipt", a late registrant re-opening the scheduler.
MailDoneIsTrue == \A s \in Mails : mails[s].mail_done => Unreached(s) = {}

\* spec.md: "A late registrant re-opens the scheduler: a new eligible row
\* flips completion false again".
EntryReopens ==
    [][\A r \in Regs, s \in AfterSub :
          ~Eligible(r) /\ Eligible(r)' => ~mails'[s].mail_done]_vars

\* scheduler_service.rs, the officer's button: "worst case it duplicates
\* nothing; the mail_sent flip is first-writer-wins".
NothingDuplicated == \A s \in Mails, r \in Regs : handed[s][r] < 2

\* scheduler_service.rs: "no failure wedges a scheduler": a pass ends.
EveryPassEnds == \A p \in Passes : pc[p] # "idle" ~> pc[p] = "idle"

\* scheduler_service.rs: "safe to run concurrently on two hosts": no pass is
\* stopped by another one that works on the same row.
NoPassStopsAnother == \A p \in Passes : pc[p] = "aborted" => ~mails[walk[p].mail].exists

\* spec-overlay.md, the template cascade: a deleted template takes its
\* dependent scheduler rows.
TemplateTakesSchedulers == \A s \in Mails : mails[s].exists => mails[s].template # "gone"

\* spec.md: "pending (unsent) receipt rows of registrations that left
\* eligibility are DELETED at the next scheduler pass".
LeaversLoseTheirReceipts ==
    [][\A p \in Passes : pc[p] = "propagate" /\ pc'[p] = "claim" =>
          \A s \in Mails, r \in Regs : ~Eligible(r) => receipts'[s][r] \notin Unsent]_vars
=============================================================================
