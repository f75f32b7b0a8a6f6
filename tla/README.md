# Verification project for backbone-events

`backbone-events` is the events module of a host application: it registers
attendees under a seat cap, reacts to sale orders, sends reminder mails,
generates sales leads and books exhibition booths. It is a library over one
PostgreSQL database. But for the counters of the public surface nothing in the
process is shared between requests: the races of this program are races between
READ COMMITTED transactions, between two statements of a pass that runs outside
a transaction, between the load and the write of a generated route, or between
this program and what the host delivers to it. The modules here model those
races.

Paths below are relative to the repository. The files of the core logic are in
`src/infrastructure/persistence/` (the statements) and
`src/application/service/` (the order in which they run). About 43,000 lines of
Rust are in `src/`; most of them are generated entity types, DTOs and CRUD
services, which `Schema` and `TableStore` take as one system of layers, and
about 6,000 lines carry the behaviour written by hand.

- [1. The system](#1-the-system)
- [2. How the code is modelled](#2-how-the-code-is-modelled)
- [3. The modules](#3-the-modules)
- [4. What the runs check and show](#4-what-the-runs-check-and-show)
- [5. Where the code and its documents disagree](#5-where-the-code-and-its-documents-disagree)
- [6. Fairness](#6-fairness)
- [7. What is proved](#7-what-is-proved)
- [8. What is not modelled](#8-what-is-not-modelled)
- [9. Plan](#9-plan)
- [10. Running it](#10-running-it)

## 1. The system

| Component | Files | State | Operations |
|---|---|---|---|
| Seat engine | `seat_repository.rs`, `registration_service.rs`, `desk_service.rs`, `seat_service.rs` | `event.events` (stage, slots, cap), `event.registrations`, the `done` flags of the schedulers and lead requests it re-arms | register, confirm, set to draft, cancel, mark done, desk scan |
| Sale seam | `sale_seam_repository.rs`, `sale_seam_service.rs` | `event.seam_inbox` (the inbox), the order link and sale status of a registration | on order confirmed, cancelled, paid |
| Mail and sms scheduler | `scheduler_repository.rs`, `scheduler_service.rs`, the template and sms ports | `event.mails`, `event.mail_registrations` (receipts), the host's queue | the cron pass, the officer's run, the template cascade, the done sweep |
| Lead generation | `lead_generation_service.rs`, `lead_command_repository.rs`, `lead_sink.rs` | `event.lead_rules`, `lead_requests`, `lead_provenances`, the junction, the host's leads | rule verbs, the cron pass, the officer's run, relink after a merge |
| Booths | `booth_command_repository.rs`, `booth_command_service.rs` | `event.booths`, `event.booth_bookings` | book, confirm, release, withdraw, delete, paid latch |
| Event lifecycle | `event_command_repository.rs`, `event_service.rs`, the sweep and the cascade in `scheduler_repository.rs` | `event.events`, `event.stages`, the lines of the types and what they left on an event | create with the template apply, patch, publish, unpublish, mark done, the daily sweep, template cascade |
| Intake and capability | `intake_service.rs`, `capability.rs`, `my_tickets_service.rs`, `ics_service.rs`, `public_routes.rs` | rate windows in the process, signed tokens outside it | public register, calendar feed, ticket report |
| Generated services | `domain/entity/`, `presentation/dto/`, `application/service/*_service.rs`, `presentation/http/*_handler.rs`, `lib.rs` | every table | create, replace, patch, delete, restore, purge |
| HTTP surface | `admin_routes.rs`, `public_routes.rs` | none | parses the officer's forms, calls one verb each |
| Migrations | `migrations/` | constraints | the checks, keys and unique indexes every writer meets |
| Request pool and audit, seeders | `request_pool.rs`, `audit.rs`, `seeders/` | none the logic reads | |

How they interact:

- **Shared rows.** The seat engine and the sale seam write the same
  registration rows. The seat engine takes the event's row lock before it
  counts; the heals of the seam do not.
- **Arming.** Whoever makes a registration eligible writes `mail_done = false`
  and `done = false` on scheduler and lead request rows in its own transaction.
  The passes set them back. This is the only signal from the verbs to the
  passes, so a lost one is a registrant nobody reaches.
- **Host ports.** The passes call the mail queue, the sms queue and the lead
  sink between two database statements. A crash or an error there leaves the
  database behind the host.
- **Two surfaces on one row.** Generated routes and hand-written verbs write
  the same tables. The guard of the row rules stands before the first, the
  constraints of the database before both, and a generated update writes back
  a whole row it loaded before.
- **The published flag.** Tokens given to the public outlive what officers do
  to the event; each public read asks the event again.
- **Deliveries.** The host hands over order facts at least once, with a
  delivery id; the inbox row and the effects commit together.

What is hard, and what makes each component correct:

| Component | Hard behaviour | Correct when |
|---|---|---|
| Seat engine | two registers, or a register and a confirm, count at the same time; the two kinds of verb lock event and registration in opposite orders, and one inserts the event's lead request without the event's lock; a cap patched under a count | no seat is taken beyond the cap in force; verbs end; an entry re-arms the schedulers |
| Sale seam | duplicated, repeated and reordered facts; many seats in one transaction; two orders over the same events in opposite orders; an event cancelled or its sale shut under them | an order mints all or nothing, once, within the caps; who paid is not left held; every fact is consumed that is not refused for good |
| Scheduler | two hosts on one row, without a lock from one statement to the next; a crash between the queue and its receipt; an end of the event that moves; a delete that acts on an older read; more registrants than a batch | receipts tell the truth and are final; everybody is reached; a pass ends |
| Lead generation | leases that expire; arms that land in mid-walk; a crash between the sink and its row; merges in the host | one lead per group; nobody leaves the queue untold; everybody is reached; a pass ends |
| Event lifecycle | the sweep against officers who move what it claimed, or make its stage terminal; stages purged under a create; a template deleted while it is copied | the sweep closes only what is over; no event is left without its stage; a type is applied once; no event stays due |
| Public surface | a burst across the end of a window, hits that reach the lock out of order; an event unpublished under a request | budgets hold, refusals are earned; a served read was granted and the event was public |
| Generated services | a form that bypasses the guard of the row rules; a stale write-back; a reference that goes away | no writer stores what a rule forbids; state columns move by verbs; a form leaves what it does not name |
| Booths | release's old snapshot against a new booking; the confirm that waits for a lock and acts on what it read before | one confirmed booking per booth; no confirmed booking or sale link is lost |

`PROJECT.json` lists the hazards at their lines, with the properties that cover
them.

## 2. How the code is modelled

**Sessions.** A constant set (`Txs`, `Sessions`, `Passes`, `Walkers`) stands
for the concurrent requests and cron ticks. `pc` says where each is in its verb;
`arg`, `delivery` or `walk` is what it carries from one statement to the next,
which may be stale and often is.

**Transactions.** A transaction is split where another session can get in
between: at a row lock, at a statement that takes a fresh snapshot, at the
commit. Under READ COMMITTED the others see its writes at the commit, so the
writes belong to the commit step. A refusal rolls back: the action returns to
`idle` and leaves the rows as they were. Two statements that no other session
can tell apart are one action; the comment at the action says so.

**Passes.** The cron passes run outside a transaction, each statement
auto-committed. There every statement and every call of a host port is an
action of its own.

**Locks.** `eventLock`, `regLock` and `rowLock` hold the session that has the
row. In `BoothBooking` the lock of a row follows from the holder's `pc` and
`arg`, so it needs no variable.

**Walls.** Unique indexes and foreign keys are in the guards of the actions that
meet them, and an insert that would wait in an index for an uncommitted row
waits in the model.

**Data.** Names, addresses, answers, prices and texts are left out. A grand
total is "zero or not" (`FreeOrders`), a rule's predicates are the set of
registrations they accept (`Matches`), a template reference is none, live or
gone.

**Broken variants.** A definition named `X_Broken` (or `X_` and a word) next to
`X` is what a plausible bug would make of it. Nothing uses it: it is there to
show that the property listed with it in `PROJECT.json` fails when it takes the
place of `X`.

## 3. The modules

### SeatEngine, SeatBook, SeatEngineProofs

`SeatEngine` is `register_core` and `transition` of `seat_repository.rs` with
the desk scan of `desk_service.rs` in front.

| In the code | In the model |
|---|---|
| `SELECT ... FOR UPDATE` on the event, the refusals after it | `RegisterLock`, with `RegisterAdmits` |
| the count of held seats, the capacity refusal | `CountRoom`, `CountExhausted` (`Holding`, `Exhausted`) |
| insert, arming, audit, commit | `RegisterCommit` |
| `transition`: the registration's lock | `TransitionBegin`, by `LockRegistration` |
| its second lock, only when the move takes a seat | `TransitionLockEvent` |
| its write and arming | `TransitionCommit` |
| the arm of the lead queue: `INSERT .. ON CONFLICT`, which for the first request of an event takes a key in the index and asks for a share lock of the event row | `ArmRequest`, `ArmServed` (`Arming`), `lead_request`, `leadLock` |
| the database fails a statement of a deadlock | `DeadlockVictim` (`WaitsFor`, `Deadlocked`) |
| the scan: reads, then calls `transition` | `DeskScan`, then `DeskTransition` |
| the officer's patch, the kanban moves, archive | `PatchEvent`, `MarkDone`, `CancelEvent`, `Archive` |
| the passes that close schedulers and lead requests | `CloseMails`, `CloseLeads` |

`SeatBook` is what the engine promises: a book in which counting a scope and
taking a seat in it are one step. The instance `Book` in `SeatEngine` is the
refinement mapping: a registration's entry is the seat its row holds, if its
state is open or done and it is active.

An event's lead request is `"none"` until someone inserts it, then `"armed"` or
`"done"`. While it is there an arm is an update of it and nobody waits. A
transition that inserts it holds no event lock: it holds the key and waits for
a share of the event row, which a register may hold, and the register waits for
the key. `LeadAxes` is which of the rules' triggers are on; `"none"` is an event
created after the rules that cover it, since a rule inserts the requests of the
events it finds.

### SaleSeam, SaleHistory, SaleLedger, SaleSeamProofs

`on_order_confirmed`, `on_order_cancelled` and `on_order_paid`, each one
transaction. `Claim` is the insert into the inbox, `ReadLinked` the read of the
order's rows, `MintSpec` one attendee (event lock, count, insert),
`MintCommit` / `MintRefused` the end (refused for want of a seat, of an event
that is cancelled, or of a ticket whose sale is shut), `HealConfirmed`, `CancelCascade`,
`PaidHeal` and `PaidCommit` the updates, `DeadlockVictim` the abort by the
database of one of two sessions that wait for each other. `Routed` is the
guard the service asks before the transaction, of every confirmed fact: no
attendee of an event sold by slot, since an order names no slots. `SetSale` is
what cancels an event or shuts a sale, and undoes it. The verbs of the
officer and the walk-ins appear as the atomic steps that
`SeatEngineImplementsBook` shows them to be. `Before` restricts which fact
comes first, so that a run can say which of its results depend on the order.

`SaleHistory` adds one variable that no guard reads: `lifted`, the rows whose
seat a heal wrote (`state = 'open'` without a count), as long as they keep it.
`SaleLedger` is what the seam promises: a ledger in which a fact takes effect
once, whole and in one step (`Mint`, `Heal`, `CancelOrder`, `Pay`), between the
officer's and the counter's own entries. The instance `Ledger` in `SaleHistory`
is the refinement mapping: the consumed facts are the inbox, and a row's place
is held, booked (counted), lifted (not counted) or archived. Two things the code
does show in the ledger, because it would not be refined without them. A later
confirmed fact of a paid order sets all its rows to pay again. And a payment
lifts the held rows its first statement found, which an officer's step before
the second may have made fewer than all.

### MailScheduler, MailSchedulerProofs

`run_due_schedulers` and `run_scheduler_by_id` over one event: `PropagateRead`
and `PropagateDelete` (cancellations), `ClaimDue`, then per row `StartRow`,
`Stage`, `InsertReceipts` or `UniqueViolation`, `ReadEvent`, `ReadDue`, per
receipt `Drop`, `Fail`, `Enqueue`, `Mark`, then `BatchWalked`, `RecomputeRead`,
`RecomputeWrite`, `CloseRow`. Two statements of the code are two actions here,
because what they read may be old when they write:

- The propagation is `DELETE ... WHERE id IN (SELECT ... NOT mail_sent ...)`.
  Under READ COMMITTED it waits for a receipt another pass is marking and then
  deletes it by its id, without asking again whether it was sent.
- The recompute's subquery reads the statement's snapshot, and its write waits
  for a register that has armed the row.

The event is read once per row of the walk (`ReadEvent`), and `Drop` compares
the clock with the `date_end` read there, which `PatchEvent` may have moved, to
an earlier or a later instant. `dates` is history: every `date_end` the event
has had. Around the passes: registers, officer's transitions, the template
repair and the template cascade, cancellation, time and crashes.

### LeadQueue, LeadQueueProofs

`run_due_lead_requests` and `run_request_of_event`. `ClaimDue` and `RunRequest`
take the lease; `ReadRules`, `NextRule`, `ReadEligible`, `UpsertProvenance`,
`ReadMembers`, `CreateLead` / `UpdateLead` / `SinkRefuses`, `SetLead`,
`AddJunction`, `BatchDone`, `Finish` are the walk, one action per statement or
sink call. `Expire` is the lease running out, `RelinkLead` the host merging two
leads, `Enter`, `Leave`, `CreateRule`, `PatchRule` and `PatchArms` the verbs
that move eligibility and arm. `walk.late` is history: it records that a lease
expired under a walker, and no guard reads it.

### BoothBooking, BoothBookingProofs

`create_booking` (`CreateCheck` reads without a lock, `CreateInsert` inserts),
`confirm_booking` (`ConfirmLock`, `ConfirmJoin`, `ConfirmFlip`: the booking's
lock, the booth's lock with the pre-check, the flip under the unique index),
`release_booth` (`ReleaseBegin` takes the DELETE's snapshot, `ReleaseRow`
deletes a row once it is free, `ReleaseFlip` writes the booth or rolls back,
`ReleaseVictim` is the deadlock with a confirm), `delete_booking` (`Withdraw`),
`delete_booth` (`DeleteBooth`) and `mark_booths_paid` (`MarkPaid`).

### EventLifecycle, EventLifecycleProofs

The verbs of `event_service.rs` and, from `scheduler_repository.rs`, the sweep
and the cascade.

| In the code | In the model |
|---|---|
| `create`: the read of the first stage or the insert of `'New'` | `CreateBegin` |
| the insert of the event with its keys, the copy of the type's lines | `CreateInsert`, `CreateFails` (`Copied`) |
| the commit that shows the row, the lines and the stage | `CreateCommit` |
| `patch`, `publish`, `unpublish` | `Patch`, `Publish`, `Unpublish` |
| `mark_done`: the read of the pipe_end stage, the update | `MarkDoneRead`, `MarkDoneWrite`, `MarkDoneFails` |
| `sweep_mark_done`: the claim with `FOR UPDATE SKIP LOCKED`, the commit | `SweepClaim` (`SweepDue`), `SweepCommit` |
| `cascade_delete_template_dependents`: its two deletes | `CascadeMails`, `CascadeCommit` |
| the generated routes of stages and lines | `EditStage`, `PatchStage`, `PurgeStage`, `EditLine` |

`Cancel` is the host's: no verb of the module writes `'cancel'`, and all of them
read it. A transaction of a host that dies is rolled back (`Crash`). The insert
of an event and the copy of its lines are one step, and types are never
removed. A patch of a stage moves its `sequence` and its `pipe_end` and waits
for no sweep; `tx.turned` is history, the stages made terminal since a sweep's
claim. `date_begin` is the same for all events; what varies is `date_end`.

### PublicSurface, PublicSurfaceProofs

The anonymous routes over the events of `EventLifecycle`, which go on living
under a request (`Life`). A request is cut at every lock of the windows and at
every read: `IcsToken`, `IcsAddress`, `ReportBegin`, `Verify`, `FindPublished`,
`IntakeIdentity`, `IntakeAddress`. `Hit` is `FixedWindows::allow`; it takes the
clock's reading as an argument, because the code reads the clock before the
lock, and `Lag` says how many instants may lie between. A token is a name whose
claims are set when it is minted, so a token nobody minted is a forgery. What a
host mounts is in `mounted`: the intake router and the public one are exported
apart and share no window. `hits` and `req.public` are history for the
properties.

### Schema, TableStore, TableStoreProofs

`Schema` is what the generated layers know of each table, taken layer by layer
from the files: the columns, references and patchable columns of the entity, the
forms of the DTOs, the row rules of the service. `TableStore` runs them: `Post`, `Load`, `Put`,
`Patch`, `Delete`, `Restore`, `Purge` are the generated routes, whose code is in
the framework and external; `OfficerPost`, `OfficerPatch`, `Sync` are the forms
of `admin_routes.rs` with its parse arms (`Heard`); `Verb` and `VerbDelete` are
the other statements, by the columns they write (`Moved`); `ParentStep` is the
life of the row a reference points to. Behind every writer is the database
(`Database`): each declared rule is a CHECK as well, since the migrations of the
row rules, and each reference a foreign key. A behaviour watches one column of one
table, and the initial states are all of them: a layer touches each column on
its own, apart from the rules over two columns, whose failure is a value
(`"broken"`) of each of the columns.

The `MC...` modules give the constants their small values; each `.cfg` is one
run of TLC.

## 4. What the runs check and show

All bounds are in the `.cfg` files; the numbers below are distinct states.

| Run | Instance | Shows |
|---|---|---|
| `seat_slots` | 2 sessions, 2 registrations, 2 slots, an officer's patches between 1 seat in all and 2 per slot, rules on confirm and done (468,916 up to symmetry) | no interleaving oversells the cap in force, even one that moves below what is taken; nothing enters a cancelled event; schedulers re-open on entries to `open` and on nothing else; the engine implements `SeatBook` |
| `seat_live` | 2 sessions, 2 seats, rules on create and done, fair (196,272) | every verb ends: opposite lock orders wait for each other over an event's first lead request alone, and the database breaks that deadlock |
| `seam_mint` | two orders over the same two events in opposite orders, one event with 2 seats, the other cancelled and taken up again, their facts and one more confirmation in any order, a third order with an attendee of an event sold by slot, a walk-in, fair (3,168) | a fact takes effect whole or not at all: a refused delivery leaves its inbox key free; seats beyond the cap are ones a heal gave; deadlock victims are redelivered and every fact that is not refused for good is consumed |
| `seam_paid` | a pair, all its facts with the payment last, 2 sessions, officer (116,910 up to the names of the sessions) | attendees are minted once; nobody who paid stays held; entries arm the mails; the seam implements `SaleLedger`, so only a cancellation, the officer and the archive take seats away |
| `mail_race` | 2 passes, the button, a crash, a cancellation, an end of the event that moves, a missing and a deleted template (1,310,416 up to the names of the passes) | receipts tell the truth; a settled one stays, but for a propagation that found it unsent before |
| `mail_reach` | 2 passes, 2 registrants, batch of 1, an event that ends, fair (59,995) | what a batch leaves is found later, the early registrant is reached, every pass ends |
| `lead_walks` | 2 walkers, 2 groups, 3 registrations, batch of 2, a crash anywhere (1,049,540) | one lead per group, one more at most for a crash; a junction row is written only for who was delivered; a live lease excludes |
| `lead_reach` | 2 walkers, a crash, merges, fair (33,832) | the early registrant reaches its lead, every pass ends |
| `booth_race` | 2 sessions, 2 booths of 2 events, 3 bookings, 2 lines (789,561) | the wall stands; no confirmed booking and no sale link is lost |
| `event_days` | 2 sessions, 2 events, 2 stages of which one is pipe_end and patched, a type with a line, a sweep of 1, one day, fair (226,224) | no event rests in a purged stage; claims are disjoint and stay due, but for a stage made terminal after the claim; the sweep closes only what is over; a type is applied once; no event stays due |
| `public` | 2 clients, 1 token, windows of 2 instants with budgets 1 and 2, 3 instants, a lag of 1 (512,750) | of any more than twice a budget of hits in a row, the last comes a window after the first, less what a hit may wait for the lock; a refusal was earned; a served read was granted, and its event public during the request |
| `tables` | every column of every table but a registration's partner, 2 clients, 148 initial states (32,327) | no writer stores what a rule forbids, a state column moves by its verb alone, a form leaves what it does not name; the column that is left out is the one `TablesLoose.cfg` is about |

Why the bounds are enough to be worth something. Two sessions are what every
hazard listed takes: a stale read and a writer, two holders of two locks, two
walkers on one row. Two registrations and a cap that moves between one seat in
all and two per slot give a full scope with one more that wants in, a seat
freed in between, and a cap below what is taken. A batch of 1 with two
registrants overflows, a batch of 2 with three has a full and a short one. One crash is enough to leave one dangling lease or
one receipt behind, and the recovery that follows is the next pass, which is
always possible. Three bookings on a booth are one confirmed, one pending and
one created in between. A sweep of 1 with two events leaves one behind, one day
after the begin makes both due, and the second stage is the one a purge can take
away under a create. Windows of two instants over three show a burst that
straddles two windows; budgets of 1 and 2 tell "at most" from "more than". A
hit that waits longer than one instant for the lock is outside the instance, and
`BurstsAreBounded` says what it costs: late hits of one window, the next window
and a third fit into one window's length, so the stretch is shorter by the wait.
The values of `TableStore` are the classes a layer tells apart. For what is proved (section 7) the bounds do not
matter.

The inductive invariants (`IInv` of `SeatEngine`, `SaleSeam`, `MailScheduler`,
`LeadQueue` and `EventLifecycle`, and `BookingInv`), each with its `TypeOK`, are
checked by runs as well, before anything is proved from them.

Deadlock is checked in every run but two: `seam_mint`, where the facts and one
walk-in alone move the system and it stops once all are consumed, and `tables`,
where a table no statement writes and no client may write has no step. Model values
are permuted only where no property is a liveness property.

## 5. Where the code and its documents disagree

Each row is a configuration that checks one property a document, comment or
model file of the repository states, and TLC finds a behaviour of the code that
violates it. Run each with the `MC` module of the same first word (`Seam` for
`MCSaleSeam`, `Tables` for `MCTableStore`, `Event` for `MCEventLifecycle`). The
document is what the property is taken from. These are no runs of `PROJECT.json`:
they say where a property of a passing run ends, and the note of a hazard names
the one that bears on it.

| Configuration | Property | What happens | Document |
|---|---|---|---|
| `SeamHeal.cfg` | `SeatTakenWithinCap` | the paid heal (`sale_seam_repository.rs:381`, and the free heal at `:221`) moves a held draft to `open` with a plain update: a walk-in takes the one seat while the order is held, the paid fact arrives, and the event holds two | `seat_repository.rs:552`, "There is no second seat-taking path" |
| `MailWedge.cfg` | `EveryPassEnds` | the walk leaves its loop only on a batch that is not full (`scheduler_service.rs:275`); a full batch of receipts that cannot be sent stays due and is read again for ever | `scheduler_service.rs:30`, "no failure wedges a scheduler" |
| `LeadStranded.cfg` | `NobodyStranded` | an arm writes only a done request and the finish (`lead_command_repository.rs:481`) writes `done` whatever happened: a walk closes the request over a registration that armed it in mid-walk | `lead_request.model.yaml:52`, "never stranded" |
| `EventDone.cfg` | `DoneRestsInPipeEnd` | the sweep closes an event with an update of `kanban_state` and leaves its stage (`scheduler_repository.rs:474`) | `docs/spec.md:367`, "gets the `mark_done` VERB (full write + audit), never a raw UPDATE" |
| the same, with | `SweepSparesPipeEnd` | an officer makes the stage of a claimed event terminal before the sweep commits (`lib.rs:171` mounts the write routes of stages; the claim at `scheduler_repository.rs:467` locks events only) | `scheduler_repository.rs:456`, "not resting in a pipe_end stage" |
| the same, with | `CancelSticks` | mark_done turns a cancelled event into a done one | `docs/spec.md:346`, "cancel never wipes" |
| the same, with | `TrashedIsNotRead` | an event is born in a stage that lies in the trash; the hand-written reads do not filter | `docs/schema/RULE_FORMAT_MODELS.md:731` |
| the same, with | `OneFirstStage` | two first creates each insert a stage `'New'` | `event_command_repository.rs:118` |
| the same, with | `CascadeLeavesNone` | a create that copied a template's line commits after the cascade of that template | `docs/spec-overlay.md:161` |
| `TablesLoose.cfg` | `OnlyNamedMoves` | a patch of a registration that names no partner fills the nil uuid (`admin_routes.rs:462`), and the fill is once only | `docs/spec.md:391`, "`partner_id` is set by explicit verbs only" |
| the same, with | `PatchKeepsTheRest` | an update of a receipt loads it, the scheduler marks it sent, and the update writes `mail_sent` back as it was (`lib.rs:161` mounts the write routes) | `scheduler_repository.rs:230`, "only the first writer flips the flag" |
| `SeatLive.cfg`, with `Spec` | `DeskChecksInOpenRows` | a cancel commits between the desk's read and its any-to-any transition, which turns the cancelled row into a done one | `desk_service.rs:12` |
| `SeatLive.cfg`, with | `NoVerbsWaitForEachOther` | a check-in inserts the event's first lead request and waits for the event row of a register, which waits for that request (`seat_repository.rs:643`, `:431`) | `seat_repository.rs:558`, "so no cycle exists between the two orders" |
| `SeatSlotless.cfg` | `SingleSlotCountsOverEvent` | a single-slot event keeps a command's slot id and counts per slot | `seat_repository.rs:38` |
| `SeamTwice.cfg` | `MintsOnce` | one order under two delivery ids, consumed at the same time, mints twice | `sale_seam_repository.rs:141` |
| the same, with | `SchedulersReopenOnEntryOnly` | a heal that lifts nothing re-opens completed schedulers | `docs/spec.md:441` |
| `SeamReorder.cfg` | `PaidNeverStrands` | a paid fact before the confirmed fact is consumed with nothing to do | `docs/spec-overlay.md:48` |
| the same, with | `PaidHealArmsLeads` | the paid heal arms the mails only | `sale_seam_service.rs:166` |
| `MailTwice.cfg` | `NothingDuplicated` | two passes hand over one mail twice (`claim_due`'s comment, `scheduler_repository.rs:92`, allows it) | `scheduler_service.rs:303` |
| the same, with | `NoPassStopsAnother` | two passes insert the same receipt, the second ends with its claimed rows unserved | `scheduler_service.rs:113` |
| `MailRace.cfg`, with | `SettledIsFinal` | the delete of a propagation takes a receipt that was settled after its subquery found it unsent (`scheduler_repository.rs:329`) | `scheduler_repository.rs:243`, "Terminal" |
| the same, with | `DropsAreLate` | a receipt is dropped by a `date_end` that an officer moved to later after the row's walk read it (`scheduler_service.rs:155`, `:164`) | `scheduler_service.rs:162`, "a finished event visibly drops the receipt" |
| `MailLate.cfg` | `MailDoneIsTrue` | the recompute closes a row over a register that committed after its snapshot | `scheduler_repository.rs:283` |
| `MailDesk.cfg` | `EntryReopens` | draft to done makes a row eligible and re-opens nothing | `docs/spec.md:712` |
| the same, with | `LeaversLoseTheirReceipts` | a registration set back to draft keeps its pending receipt | `docs/spec.md:716` |
| `MailTemplate.cfg` | `TemplateTakesSchedulers` | a scheduler with receipts outlives its deleted template: the foreign key refuses | `docs/spec-overlay.md:161` |
| `LeadOrder.cfg` | `OneLeadPerGroup` | an order over two events has two leases, and two walkers create its lead | `lead_provenance.model.yaml:21` |
| `LeadLease.cfg` | `LeaseExcludes` | the finish of an outlived walker clears its successor's lease | `lead_request.model.yaml:18` |
| `LeadRelink.cfg` | `RelinkedToTheSurvivor` | a lead is merged away before the row that names it is written | `lead_command_repository.rs:686` |
| `BoothWedge.cfg` | `AvailableIsFree` | a release opens the booth over a booking made and confirmed after its snapshot | `docs/spec-overlay.md:64` |
| `BoothLine.cfg` | `OneEventPerLine` | two creates check one order line before either inserts | `docs/spec-overlay.md:76` |
| `BoothPaid.cfg` | `PaidLatchesTheBooked` | a rebooked booth keeps its first order line, so the second's payment misses it | `sale_seam_repository.rs:347` |

Two things that are no property of a model. The comment of `all_crud_routes`
(`lib.rs:114`) says the generated routes validate nothing and "can create
invalid rows"; they have had a guard and CHECKs behind them since the row rules
were generated, and `RulesHold` shows what they keep. And `PATCH
/admin/registrations/:id` fills only empty fields, where `docs/spec.md:386`
speaks of values edited by hand; an integer of a form is cut to its low 32 bits
(`admin_routes.rs:1020`) and a malformed one counts as left out.

`lead_provenance.model.yaml:15` calls re-runs "idempotent by construction". A
crash between the sink and the provenance row makes a second lead, which is why
`OneLeadPerGroup` allows one lead more for every crash.

Several of these properties hold in a passing run of the same module with the
one circumstance taken away (`OneLeadPerGroup` with one event, `LeaseExcludes`
without slow walks, `MintsOnce` and `PaidNeverStrands` with facts in order).
The pair says what the property depends on.

## 6. Fairness

Safety runs assume none. The liveness runs assume:

- `SeatEngine!FairSpec`: strong fairness of a session that has begun. A waiter
  for a row is in PostgreSQL's queue for that row and is served in turn; new
  arrivals do not overtake it for ever. Two verbs that wait for each other are
  resolved by `DeadlockVictim`, as the database's detector does. That a verb
  begins is not assumed.
- `SaleHistory!HistoryFairSpec`: the host redelivers a fact until it is consumed (strong
  fairness of its claim), and a session queued for a row gets it (strong
  fairness of a mint past its first attendee, which is where a session waits
  with a lock in hand). Sessions that wait for each other are resolved by
  `DeadlockVictim`, never by fairness.
- `MailScheduler!FairSpec`: the cron ticks (strong fairness of `PropagateRead`), a
  running pass goes on, due dates arrive, and the queue does not refuse one
  message for ever. That sends succeed at any given time is not assumed.
- `EventLifecycle!FairSpec`: the host runs the daily sweep for ever (strong
  fairness of a claim by some session: officers may make and unmake due events
  between two sweeps), a transaction once begun ends (weak fairness of a
  session's steps), and not every sweep dies before its commit (strong fairness
  of a `SweepCommit` by some session, which a crash disables).
- `LeadQueue!FairSpec`: the same for the lead pass and the sink, and leases
  expire. Crashes are bounded by `MaxCrashes`; a host that crashed for ever in
  every pass would reach nobody, in the code as in the model.

Nothing is assumed of requests: registers, verbs, merges and patches may happen
or not.

## 7. What is proved

TLAPS proves the following for all values of the constants that satisfy the
assumptions of the modules: `SeatEngineAssumption`, `SaleSeamAssumption`,
`IdAssumption`, `MailSchedulerAssumption`, `LeadAssumption`, `BoothAssumption`,
`EventLifecycleAssumption`, `PublicSurfaceAssumption` and
`TableStoreAssumption`. They say that the constants have their types, that the
id sets counted over are finite, that no two stages have the same place in the
order, that the null values are not ids, that walk-ins are not attendees of an
order and that a delivery id belongs to one order. What some results need
beyond that is a hypothesis in the theorem. Each of these hypotheses has an
instance of a passing run that satisfies it and, where the code breaks the
property without it, a configuration of section 5 that shows so.

**`SeatEngineProofs`** (1,134 obligations).

- `SeatEngineSafety`: `Spec => []IInv`. `TypeOK` alone says nothing of a
  session between its count and its commit. The invariant adds that a session
  past the event lock holds it alone (`EventLockHeld`), that a state verb holds
  its registration alone (`RegistrationLockHeld`), that what it read from the
  row is still there (`LockedRowStable`), that the event a register was admitted
  to is not cancelled under it (`AdmittedEventStands`), that nobody else inserts a
  lead request one session is inserting (`FirstRequestHeld`), and that the room a
  session counted is there until it commits (`CountedRoomHolds`). The last one
  is the heart: any other step that adds a held seat in the same scope needs the
  event's lock, all others only take seats away or touch another event, and
  `RoomMonotone` says that a smaller count leaves room where a larger one did.
  `RegCardinality` needs `Regs` finite.
- `NoOversell`: `Spec => SeatTakenWithinCap`. A step that gives a row a seat is
  a `RegisterCommit` or a `TransitionCommit` of a counted session
  (`EntryIsCounted`); `CountedRoomHolds` bounds the count it leaves
  (`EntryWithinCap`).
- `ArmsExactly`: `Spec => ArmsOnEntryToOpen`. The same two commits write
  `mail_done`, and `LockedRowStable` says that the state they compare with is
  still the row's.
- `CancelledStaysEmpty`: `Spec => CancelledEventTakesNoRow`, from
  `AdmittedEventStands`.
- `SeatEngineImplementsBook`: `Spec => ImplementsBook`. Init maps to an empty
  book; an entry is a `Take` with room (`EntryTakes`), every other step is a
  `Vacate`, a `Reconfigure` or a stutter (`OtherwiseVacates`).

**`SaleSeamProofs`** (3,305 obligations).

- `SaleSeamSafety`: `Spec => []IInv`: an inbox key has one session
  (`ClaimsExclusive`); a session holds the events it minted into and the rows it
  healed, and finds them as it left them (`LocksHeld`); it runs the verb of its
  fact, no further than its specs go (`SessionOK`); an attendee that is there
  belongs to a consumed fact (`MintedIsConsumed`), so that a mint writes over
  nobody.
- `MintsWhole`: `Spec => []MintIsWhole`, in whatever order the facts arrive. It
  needs that every row that is there names its order and that a heal found rows
  (`WholeInv`), and that no step loses a row (`RowsStay`).
- `SeamImplementsLedger`: `HistorySpec => ImplementsLedger`, for any constants
  and any order of the facts. One lemma per transaction says that its last step
  is one step of the ledger (`MintIsOne`, `HealIsOne`, `CancelIsOne`, `PayIsOne`)
  and one per verb of the officer and the counter (`TransitionIsOne`,
  `WalkInIsOne`, `ArchiveIsOne`); all other steps leave inbox and rows alone. Of the
  invariants it needs `MintedIsConsumed` and `WholeInv` (a mint writes over
  nobody, a heal finds rows), `LocksHeld` (what the payment locked is still held
  and unpaid when it commits) and `BookedRoom` (below), which is why the ledger
  may ask a mint to fit.
- `SeatsAreCounted`: `HistorySpec => []SeatsBeyondCapAreLifted`, also for any
  order of the facts: an event is overbooked by no more than the rows its heals
  lifted. What is inductive (`HistoryInv`) is that a session with an event's lock
  has room for the seats already booked and for those it has minted but not
  committed (`BookedRoom`). Whoever adds a booked seat needs that lock
  (`BookedGrows`); a heal does not, but what it adds is lifted.
- `MintsWhole`, `SeamKeepsSeats` and `MintsWithinCap` are proved and no run of
  their own checks them: what they say of a fact's effect the ledger says as
  well.
- `SeamKeepsSeats` (`SeamNeverDemotes`) and `SeamArmsMails` (`EntryArmsMails`),
  each from what the commits of the mint and of the two heals write.
- `OrderMintsOnce`: `ConfirmsInTurn => (Spec => []MintsOnce)`. A host that hands
  over the confirmations of an order one after the other, and redelivers as it
  likes, gets one mint. `OnceInv` says that a mint in progress finds no row of
  its order. Without the hypothesis: `SeamTwice.cfg`.
- `PaidStrandsNobody`: `PaidComesLast => (Spec => []PaidNeverStrands)`. After a
  consumed payment nothing of the order is unpaid and no confirmation is to come
  (`PaidInv`). Without it: `SeamReorder.cfg`.
- `MintsWithinCap`: `MintsBeforeLifts => (Spec => MintWithinCap)`, the bound on
  all seats where `SeatsAreCounted` bounds the counted ones. `RoomKept`
  says that a mint has counted the seats of the events it holds, with its own,
  and that they are still there. It is no invariant once a heal may run beside
  it, since a heal takes no event lock: `SeamHeal.cfg` shows a seat beyond the
  cap that came this way. The hypothesis is about the order in which the host
  hands over its facts; officers, walk-ins and cancels are free.

**`MailSchedulerProofs`** (511 obligations).

- `MailSafety`: `Spec => []IInv`. A pass has handed over the mail it is about to
  mark and walks with a date the event has had (`WalkOK`), and therefore no
  receipt says `queued` of a message no queue took, nor `dropped` before some
  end the event was given is past (`ReceiptsTellTheTruth`): with any number of
  passes, crashes, late marks and patches of the date.
- `OutcomeStays`: `Spec => OutcomeIsKept`. Every writer of a receipt is an
  insert or an update that asks for a pending one, or the delete of a
  propagation (`PropagateKeeps`), which takes what its subquery found.

**`LeadQueueProofs`** (1,399 obligations).

- `LeasesHold`: `~SlowWalks => (Spec => []QueueInv)`. While no walk outlasts its
  lease, two walkers are never on one event and each holds a fresh lease, with
  any merges and crashes. Without it: `LeadLease.cfg`.
- `LeadSafety`: `InOrder => (Spec => []IInv)`, where `InOrder` is `~SlowWalks`,
  `~Merging` and `GroupsOfOneEvent`. What a walker carries of its group and of the
  group's lead from one statement to the next is still so (`GroupKnown`,
  `LeadKnown`), because the lease keeps the event's groups to it alone; and each
  lead beyond the one a row names, or a walker is about to name, was lost by a
  crash (`LostByCrash`, a count that `Crash` and `CreateLead` move).
- `DeliveredBeforeForgotten` (`JunctionIsDelivered`) and `OneLead`
  (`OneLeadPerGroup`) follow from it. Without each part of `InOrder`:
  `LeadLease.cfg`, `LeadRelink.cfg`, `LeadOrder.cfg`.

**`BoothBookingProofs`** (616 obligations).

- `BookingSafety`: `Spec => []BookingInv`. `OneConfirmed` and `TakenIsBooked`
  are not inductive: a release that carries a snapshot across its waits could
  delete a row that another holds. The invariant adds that a booking has one
  holder, who works on the row's booth (`LocksAreExclusive`), and that what a
  verb carries names rows that exist (`Carried`, which includes the foreign
  key).
- `OneConfirmedAlways`: at most one confirmed booking per booth. The unique
  index does it, not the state of the booth, which `BoothWedge.cfg` shows may be
  wrong.
- `ConfirmedKept`: a confirmed booking goes only in the step that releases its
  booth.
- `LinkStays`: `Spec => SaleLinkStays`. A booth with a sale link keeps it, and
  keeps `is_paid`, through releases, new bookings and deletes: `DeleteBooth`
  refuses it, and the confirm's update writes a line only where there is none.

**`EventLifecycleProofs`** (644 obligations).

- `EventSafety`: `Spec => []IInv`. That every event's stage is in the table
  (`StageOfEveryEvent`) is not inductive: a create has inserted its event before
  others see it, so the invariant says the same of the open creates, whose share
  lock the purge meets. That the sweep's claims are disjoint (`ClaimsDisjoint`)
  and stay due (`ClaimStaysDue`) holds because every writer of an event row
  waits for its lock (`Writable`, lemma `RowWrite`); a patch of a stage waits for
  nothing, so a claimed event may come to rest in a terminal stage, and then the
  stage is one the history `turned` names (`PatchStageKeeps`). `SessionOK` says that a
  create carries an event that is not there and that nobody else carries it;
  `CreateCommitKeeps` needs it, since the row it writes must not be a claimed
  one. `FirstIsThere` finds the least stage of a set by the well-foundedness of
  the order.
- `SweepIsExact`: `Spec => SweepClosesOnlyTheDue`. The step that ends a sweep
  changes only claimed rows (`SweepEnds`), and they are due by `ClaimStaysDue`.
- `AppliesOnce`: `Spec => AppliedOnce`. Only the commit of a create adds lines,
  and by `SessionOK` its event is not there yet.

**`PublicSurfaceProofs`** (900 obligations), over `EventLifecycleProofs`.

- `ReadSafety`: `PublicSpec => []ReadInv`. The invariant is what a request in
  flight has established so far and still holds: when it began, every event
  public since, and at its last read a grant that was verified in time and is
  of its route and of a scope that resolves (`RequestKnown`). It stands on `IInv` of the
  events, whose clock never steps back (`ClockGoesOn`).
- `ServesTheGrant` (`ServedIsGranted`) and `ServesThePublic` (`ServedWasPublic`)
  follow: the check and the read are different steps, and the event may be
  unpublished between them.
- `WindowSafety`: `PublicSpec => []WindowInv`. The history of a key's hits is a
  sequence, and the invariant places it about the start of the stored window
  (`HitsPlaced`): the last hits, as many as the window counts, were recorded
  after the start; those before them read a clock before it; and all of these but
  a window's worth read it a window's length earlier still. A hit either joins
  the stored window or opens one at its own reading (`OpenedWindow`), and a
  refused one leaves start and count (`HitKeeps`).
- `BurstsBounded` (`BurstsAreBounded`) and `RefusalsEarned`
  (`RefusedIsOverBudget`) follow from it, for any budgets, window, lag and number
  of clients.
- `EventsLiveOn`: `PublicSpec => Spec`. A request moves no event, so what
  `EventLifecycleProofs` says of the safety of `EventLifecycle!Spec` holds behind
  the public routes.

**`TableStoreProofs`** (401 obligations).

- `StoreSafety`: `Spec => []StoreInv`: stored and loaded values are values the
  column can hold, and an update is in flight only on a table with write routes.
  What a request, a form and a statement may write is a lemma each
  (`PostWrites`, `UpdatesStore`, `OfficerPostWrites`, `OfficerApplies`,
  `VerbWrites`), whatever the table.
- `RulesAlwaysHold`: `Spec => []RulesHold`, for every column. The forms of the
  officer pass no guard, the CHECKs stand behind both ways (`DatabaseKeeps`); a
  row a reference points to goes only when nothing refers to it.
- `StateMovesOnlyByVerb`: `Spec => StateMovesByVerb`. The tables of the state
  columns are looked up in `Schema` (`StateTablesAreReadOnly`): nothing but a
  verb and the officer's forms reaches them, and the forms name none.
- `UnnamedStays`: `OnlyNamedMoves`, for all columns but a registration's
  partner, for which `TablesLoose.cfg` shows a counterexample.

Two statements were corrected by what their proofs need: a form refuses an
integer wider than its column like any value that does not parse (`Parsed` of
`TableStore`: no value of the column's type stands for it), and the bound on
bursts, which is false over a whole window's length once a hit may wait for the
lock longer than one instant, carries the wait as a term of its own
(`BurstsAreBounded`).

Only model-checked: the liveness properties `EveryVerbEnds`,
`EveryFactConsumed`, `EarlyReached` and `EveryPassEnds` of both queues, and
`NoEventStaysDue` (the prover does neither `ENABLED` nor reasoning from
fairness). Every safety property of a run is a theorem, under the hypotheses
named above.

## 8. What is not modelled

- **The text of the calendar file**, pages, lists and the catalogue read: pure
  functions of rows. The exported copies of the types (`src/exports/`) and the
  generated state machine tables are not called by the verbs.
- **Signatures**: a token is accepted if it was minted with these claims. The
  answer without a configured secret and the choice of the caller's address
  behind a proxy are left out.
- **Bulk create and upsert** of the generated routes, which repeat a create or
  an update; the framework they call is external and modelled from how it is
  used.
- **Connection pools**: the heal, the cascade and the paid verb write an audit
  row on a second connection while their transaction holds the first
  (`sale_seam_repository.rs:266`), so that as many deliveries as the pool has
  connections wait for its timeout. The pool is the host's.
- **Seeders**: example rows for development.
- **Migrations over old rows**: the CHECKs of the row rules are skipped with a
  notice where stored rows already break them; the models start without such
  rows.
- **Permissions and conversions** of the generated routes: every client holds all
  permissions, and a conversion passes each field on.
- **Rule verbs in the seat engine**: creating or patching a lead rule inserts the
  first requests of the events it covers as well
  (`lead_command_repository.rs:161`, `:214`, `:348`) and could be a third party
  of the cycle that `NoVerbsWaitForEachOther` shows. `date_closed`, which no verb
  reads, is left out.
- **Audit rows, failure markers, counters in summaries**: written and never
  read by the logic.
- **Row and company scopes**: one tenant is modelled; the policies that filter
  rows are in the host's session settings.
- **The clock**: dates are events that may happen at any time (`FallDue`,
  `EndEvent`, `Expire`), which allows more behaviours than the clock does.
- In `SaleSeam`, slots and tickets of minted rows, which are the register path
  of `SeatEngine`. Which events are sold by slot (`MultiSlots`) and their caps
  (`seats_max`) are constants there; their patches are in `SeatEngine`. The
  other refusals of the register (an event, a ticket or a slot that is gone)
  leave a fact unconsumed as a cancelled event does. An officer's verb is one
  step there, so the wait of a check-in and a mint for each other over a first
  lead request is in `SeatEngine` alone; of the seam it may abort a delivery,
  which is then redelivered. `seam_mint` cancels an event; a shut sale is refused
  in the same place, and only the proofs have both.
- In `MailScheduler`, the cron limit of 1000 rows, of the claim (rows without a
  template come first in every claim, `scheduler_repository.rs:117`, and as many
  of them would starve the others) and of the propagation; in `EventLifecycle`,
  the run gives all stages one sequence number, and reordering them is in
  `EventDone.cfg` and in the proofs; in
  `LeadQueue`, the three trigger flags of a rule and a registration that
  changes its group; in `BoothBooking`, creation and patch of booths, which are
  in `TableStore`.

## 9. Plan

The order follows the weight of the behaviour. Done:

1. `SeatEngine`, `SeatBook`, with proofs.
2. `SaleSeam`, over the atomic verbs that step 1 proves.
3. `MailScheduler`.
4. `LeadQueue`.
5. `BoothBooking`, with proofs.
6. `EventLifecycle`, with proofs.
7. `PublicSurface`, composed with step 6.
8. `Schema` and `TableStore`, the generated layers under the officer's forms and
   the verbs of all the modules above.

9. `SaleHistory` and `SaleLedger`, with proofs: which caps a sale can exceed and
   by how much.

To do:

10. An abstract queue (`armed`, `served`, `closed`) that `MailScheduler` and
    `LeadQueue` both implement where they do, to name what the arming protocol
    promises; `MailLate.cfg` and `LeadStranded.cfg` are where they do not. That
    each arm is answered by a pass that began after it is an invariant of the
    abstract queue, and a refinement where the implementations keep it.

## 10. Running it

In this directory: `tlc -config SeatSlots.cfg MCSeatEngine.tla`, and so for
every pair listed under `runs` in `PROJECT.json`; and one call for each module
of proofs:

    tlapm SeatEngineProofs.tla
    tlapm SaleSeamProofs.tla
    tlapm MailSchedulerProofs.tla
    tlapm LeadQueueProofs.tla
    tlapm BoothBookingProofs.tla
    tlapm EventLifecycleProofs.tla
    tlapm PublicSurfaceProofs.tla
    tlapm TableStoreProofs.tla

No run takes more than two or three minutes with two workers, and no module of
proofs more than ten.
