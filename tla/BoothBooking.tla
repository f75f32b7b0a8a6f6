---------------------------- MODULE BoothBooking ----------------------------
(***************************************************************************)
(* Booths and their bookings: the create, confirm, release, withdraw and   *)
(* delete verbs of the booth command repository and the one-way paid       *)
(* latch, as transactions of READ COMMITTED PostgreSQL.  The database     *)
(* holds three walls: the row locks a verb takes, the partial unique index *)
(* on confirmed bookings and the unique (line, booth) grain.               *)
(*                                                                         *)
(* A session is one HTTP request (or seam delivery); pc says which lock    *)
(* its transaction waits for or what it does next:                         *)
(*   insert  create_booking has checked the line, its INSERT is to come    *)
(*   join    confirm_booking holds the booking row and waits for the booth *)
(*   flip    confirm_booking holds both rows                               *)
(*   rows    release_booth has its DELETE's snapshot and walks the rows    *)
(***************************************************************************)
EXTENDS Naturals, FiniteSets

CONSTANTS
    Sessions,       \* concurrent requests
    Booths,         \* booths, each of one event
    EventOf,        \* booth -> event
    Bookings,       \* booking ids that can be minted
    Lines,          \* sale order lines
    NoLine,         \* NULL in sale_order_line_id
    NoBooth, NoBooking

ASSUME BoothAssumption ==
    /\ DOMAIN EventOf = Booths
    /\ NoLine \notin Lines
    /\ NoBooth \notin Booths
    /\ NoBooking \notin Bookings

VARIABLES
    booth,          \* event.booths: here, state, line, is_paid
    booking,        \* event.booth_bookings: status, booth, line
    paid,           \* the lines a paid call has named so far
    pc, arg         \* what each session's transaction is doing

vars == <<booth, booking, paid, pc, arg>>

Nothing == [booth |-> NoBooth, booking |-> NoBooking, line |-> NoLine,
            rows |-> {}, staged |-> {}]

Init ==
    /\ booth = [b \in Booths |-> [here |-> TRUE, state |-> "available",
                                  line |-> NoLine, is_paid |-> FALSE]]
    /\ booking = [k \in Bookings |-> [status |-> "none", booth |-> NoBooth,
                                      line |-> NoLine]]
    /\ paid = {}
    /\ pc = [s \in Sessions |-> "idle"]
    /\ arg = [s \in Sessions |-> Nothing]

(***************************************************************************)
(* Rows and locks.                                                         *)
(***************************************************************************)
Live(k)      == booking[k].status \in {"pending", "confirmed"}
Confirmed(k) == booking[k].status = "confirmed"
RowsOf(b)    == {k \in Bookings : Live(k) /\ booking[k].booth = b}

\* A booking row is held by the confirm that locked it and by the release
\* that has deleted it without having committed.
Holds(s, k) ==
    \/ pc[s] \in {"join", "flip"} /\ arg[s].booking = k
    \/ pc[s] = "rows" /\ k \in arg[s].staged

BookingFree(k) == \A s \in Sessions : ~Holds(s, k)
BoothFree(b)   == \A s \in Sessions : ~(pc[s] = "flip" /\ arg[s].booth = b)

\* Without the index the pre-check alone decides.
Walled_Broken(k) == FALSE

\* The wall: a second confirmed booking of the booth, even one that an open
\* release has deleted, keeps k from becoming confirmed.
Walled(k) == \E other \in RowsOf(booking[k].booth) \ {k} : Confirmed(other)

Go(s, to, a) == pc' = [pc EXCEPT ![s] = to] /\ arg' = [arg EXCEPT ![s] = a]
End(s)       == Go(s, "idle", Nothing)

(***************************************************************************)
(* create_booking: the cross-event read takes no lock.                     *)
(***************************************************************************)
CrossEvent(l, b) ==
    \E k \in Bookings : /\ Live(k) /\ booking[k].line = l
                        /\ EventOf[booking[k].booth] # EventOf[b]

CreateCheck(s, b, l) ==
    /\ pc[s] = "idle" /\ booth[b].here
    /\ l = NoLine \/ ~CrossEvent(l, b)
    /\ Go(s, "insert", [Nothing EXCEPT !.booth = b, !.line = l])
    /\ UNCHANGED <<booth, booking, paid>>

\* A NULL line never collides at the (line, booth) grain.
Taken(l, b) == {k \in RowsOf(b) : l # NoLine /\ booking[k].line = l}

\* The foreign key's KEY SHARE waits for a confirm that holds the booth, the
\* unique index for a release that has deleted the colliding row.
CreateInsert(s) ==
    LET b == arg[s].booth
        l == arg[s].line
    IN  /\ pc[s] = "insert"
        /\ BoothFree(b)
        /\ \A k \in Taken(l, b) : \A t \in Sessions : k \notin arg[t].staged
        /\ \/ /\ booth[b].here /\ Taken(l, b) = {}
              /\ \E k \in Bookings :
                    /\ booking[k].status = "none"
                    /\ booking' = [booking EXCEPT ![k] =
                          [status |-> "pending", booth |-> b, line |-> l]]
           \/ /\ ~booth[b].here \/ Taken(l, b) # {}
              /\ UNCHANGED booking
        /\ End(s)
        /\ UNCHANGED <<booth, paid>>

\* The pool of fresh ids is the model's bound: a create that finds none left
\* gives up, as one whose connection drops does.
CreateGivesUp(s) ==
    /\ pc[s] = "insert"
    /\ \A k \in Bookings : booking[k].status # "none"
    /\ End(s)
    /\ UNCHANGED <<booth, booking, paid>>

(***************************************************************************)
(* confirm_booking: SELECT ... FOR UPDATE OF bb, b, then the flip.         *)
(***************************************************************************)
\* A confirm that reads without FOR UPDATE OF bb.
ConfirmLock_Broken(s, k) ==
    /\ pc[s] = "idle" /\ Live(k)
    /\ Go(s, "join", [Nothing EXCEPT !.booking = k, !.booth = booking[k].booth])
    /\ UNCHANGED <<booth, booking, paid>>

ConfirmLock(s, k) ==
    /\ pc[s] = "idle" /\ Live(k) /\ BookingFree(k)
    /\ Go(s, "join", [Nothing EXCEPT !.booking = k, !.booth = booking[k].booth])
    /\ UNCHANGED <<booth, booking, paid>>

\* The locked booth is read as it is now: the pre-check.
ConfirmJoin(s) ==
    /\ pc[s] = "join" /\ BoothFree(arg[s].booth)
    /\ \/ booth[arg[s].booth].state = "available" /\ Go(s, "flip", arg[s])
       \/ booth[arg[s].booth].state # "available" /\ End(s)
    /\ UNCHANGED <<booth, booking, paid>>

Coalesce(line, otherwise) == IF line = NoLine THEN otherwise ELSE line

ConfirmFlip(s) ==
    LET k == arg[s].booking
        b == arg[s].booth
    IN  /\ pc[s] = "flip"
        /\ \/ /\ booking[k].status = "pending" /\ ~Walled(k)
              /\ booking' = [booking EXCEPT ![k].status = "confirmed"]
              /\ booth' = [booth EXCEPT
                    ![b].state = "unavailable",
                    ![b].line = Coalesce(@, booking[k].line)]
           \/ /\ booking[k].status # "pending" \/ Walled(k)
              /\ UNCHANGED <<booth, booking>>
        /\ End(s)
        /\ UNCHANGED paid

(***************************************************************************)
(* release_booth: DELETE the bookings, then UPDATE the booth if it is      *)
(* unavailable, else roll back.  The DELETE sees the rows of its snapshot  *)
(* and takes them one by one.                                              *)
(***************************************************************************)
ReleaseBegin(s, b) ==
    /\ pc[s] = "idle" /\ booth[b].here
    /\ Go(s, "rows", [Nothing EXCEPT !.booth = b, !.rows = RowsOf(b)])
    /\ UNCHANGED <<booth, booking, paid>>

ReleaseRow(s) ==
    /\ pc[s] = "rows"
    /\ \E k \in arg[s].rows :
          /\ BookingFree(k)
          /\ Go(s, "rows", [arg[s] EXCEPT
                !.rows = @ \ {k},
                !.staged = @ \cup {j \in {k} : Live(j)}])
    /\ UNCHANGED <<booth, booking, paid>>

ReleaseFlip(s) ==
    LET b == arg[s].booth
    IN  /\ pc[s] = "rows" /\ arg[s].rows = {} /\ BoothFree(b)
        /\ \/ /\ booth[b].here /\ booth[b].state = "unavailable"
              /\ booth' = [booth EXCEPT ![b].state = "available"]
              /\ booking' = [k \in Bookings |->
                    IF k \in arg[s].staged
                    THEN [booking[k] EXCEPT !.status = "gone"]
                    ELSE booking[k]]
           \/ /\ ~booth[b].here \/ booth[b].state # "unavailable"
              /\ UNCHANGED <<booth, booking>>
        /\ End(s)
        /\ UNCHANGED paid

\* A confirm that holds the booth waits in the unique index for the release
\* that waits for the booth: the database ends one of them.  The confirm
\* meets the wall in either case, the release only if it is the one.
ReleaseVictim(s) ==
    /\ pc[s] = "rows" /\ \E k \in arg[s].staged : Confirmed(k)
    /\ \E t \in Sessions : pc[t] = "flip" /\ arg[t].booth = arg[s].booth
    /\ End(s)
    /\ UNCHANGED <<booth, booking, paid>>

(***************************************************************************)
(* The verbs of one statement, or of one lock held to the commit.          *)
(***************************************************************************)
\* An intent withdrawn whatever its status.
Withdraw_Broken(k) ==
    /\ Live(k) /\ BookingFree(k)
    /\ booking' = [booking EXCEPT ![k].status = "gone"]
    /\ UNCHANGED <<booth, paid, pc, arg>>

\* delete_booking
Withdraw(k) ==
    /\ booking[k].status = "pending" /\ BookingFree(k)
    /\ booking' = [booking EXCEPT ![k].status = "gone"]
    /\ UNCHANGED <<booth, paid, pc, arg>>

\* A fence that asks for bookings only.
DeleteBooth_Broken(b) ==
    /\ booth[b].here /\ BoothFree(b) /\ RowsOf(b) = {}
    /\ booth' = [booth EXCEPT ![b].here = FALSE]
    /\ UNCHANGED <<booking, paid, pc, arg>>

\* delete_booth: a row an open release has deleted still counts.
DeleteBooth(b) ==
    /\ booth[b].here /\ BoothFree(b)
    /\ booth[b].line = NoLine /\ RowsOf(b) = {}
    /\ booth' = [booth EXCEPT ![b].here = FALSE]
    /\ UNCHANGED <<booking, paid, pc, arg>>

\* mark_booths_paid and the paid hook: keyed on the booth's own line.
MarkPaid(l) ==
    /\ \A b \in Booths : booth[b].line = l => BoothFree(b)
    /\ booth' = [b \in Booths |->
          IF booth[b].here /\ booth[b].line = l
          THEN [booth[b] EXCEPT !.is_paid = TRUE] ELSE booth[b]]
    /\ paid' = paid \cup {l}
    /\ UNCHANGED <<booking, pc, arg>>

Next ==
    \/ \E s \in Sessions :
          \/ \E b \in Booths : \/ \E l \in Lines \cup {NoLine} : CreateCheck(s, b, l)
                               \/ ReleaseBegin(s, b)
          \/ \E k \in Bookings : ConfirmLock(s, k)
          \/ CreateInsert(s) \/ CreateGivesUp(s)
          \/ ConfirmJoin(s) \/ ConfirmFlip(s)
          \/ ReleaseRow(s) \/ ReleaseFlip(s) \/ ReleaseVictim(s)
    \/ \E k \in Bookings : Withdraw(k)
    \/ \E b \in Booths : DeleteBooth(b)
    \/ \E l \in Lines : MarkPaid(l)

Spec == Init /\ [][Next]_vars

(***************************************************************************)
(* Properties.                                                             *)
(***************************************************************************)
BoothRow   == [here : BOOLEAN, state : {"available", "unavailable"},
               line : Lines \cup {NoLine}, is_paid : BOOLEAN]
BookingRow == [status : {"none", "pending", "confirmed", "gone"},
               booth : Booths \cup {NoBooth}, line : Lines \cup {NoLine}]
Arg        == [booth : Booths \cup {NoBooth}, booking : Bookings \cup {NoBooking},
               line : Lines \cup {NoLine},
               rows : SUBSET Bookings, staged : SUBSET Bookings]

TypeOK ==
    /\ booth \in [Booths -> BoothRow]
    /\ booking \in [Bookings -> BookingRow]
    /\ paid \subseteq Lines
    /\ pc \in [Sessions -> {"idle", "insert", "join", "flip", "rows"}]
    /\ arg \in [Sessions -> Arg]

\* EBS-1: a booth has at most one confirmed booking, though a late release may
\* have opened its state to a second confirm.
OneConfirmed ==
    \A j, k \in Bookings :
        Confirmed(j) /\ Confirmed(k) /\ booking[j].booth = booking[k].booth => j = k

\* An unavailable booth is one that a confirmed booking holds: nobody is
\* refused a booth that nobody has.
TakenIsBooked ==
    \A b \in Booths : booth[b].state = "unavailable" =>
        booth[b].here /\ \E k \in RowsOf(b) : Confirmed(k)

\* A booking row has one holder, which works on the row's booth.
LocksAreExclusive ==
    /\ \A s, t \in Sessions, k \in Bookings : Holds(s, k) /\ Holds(t, k) => s = t
    /\ \A s \in Sessions, k \in Bookings :
          Holds(s, k) => Live(k) /\ booking[k].booth = arg[s].booth

\* What a verb carries from one statement to the next names rows that exist or
\* have existed, and a live booking has its booth: the foreign key.
Carried ==
    /\ \A s \in Sessions :
          /\ pc[s] # "idle" => arg[s].booth \in Booths
          /\ pc[s] \in {"join", "flip"} => arg[s].booking \in Bookings
          /\ pc[s] = "rows" => \A k \in arg[s].rows :
                booking[k].status # "none" /\ booking[k].booth = arg[s].booth
    /\ \A k \in Bookings : Live(k) => /\ booking[k].booth \in Booths
                                      /\ booth[booking[k].booth].here

\* The inductive invariant: the walls rest on the locks and on what a verb
\* carries across its waits.
BookingInv ==
    TypeOK /\ LocksAreExclusive /\ Carried /\ TakenIsBooked /\ OneConfirmed

\* The losing intent survives and the winner's booking is not lost: a
\* confirmed booking goes only as its booth is released.
ConfirmedGoesByRelease ==
    [][\A k \in Bookings : Confirmed(k) /\ booking'[k] # booking[k] =>
          /\ booth[booking[k].booth].state = "unavailable"
          /\ booth'[booking[k].booth].state = "available"]_vars

\* The sale link is history: once a confirmed booking carried an order line to
\* its booth, no release, later booking or delete takes the link away.
SaleLinkStays ==
    [][\A b \in Booths : booth[b].here /\ booth[b].line # NoLine =>
          booth'[b].here /\ booth'[b].line = booth[b].line
          /\ (booth[b].is_paid => booth'[b].is_paid)]_vars

\* What release promises: an available booth has no confirmed booking, so that
\* a confirm of a pending one can succeed.
AvailableIsFree ==
    \A b \in Booths : booth[b].state = "available" =>
        \A k \in RowsOf(b) : ~Confirmed(k)

\* EBS-4: one order line books booths of one event.
OneEventPerLine ==
    \A j, k \in Bookings : Live(j) /\ Live(k) /\ booking[j].line # NoLine
                           /\ booking[j].line = booking[k].line =>
        EventOf[booking[j].booth] = EventOf[booking[k].booth]

\* The paid hook latches every booth with a confirmed booking of the line.
PaidLatchesTheBooked ==
    [][\A l \in paid' \ paid, k \in Bookings :
          Confirmed(k) /\ booking[k].line = l =>
              booth'[booking[k].booth].is_paid]_vars
=============================================================================
