------------------------- MODULE BoothBookingProofs -------------------------
(***************************************************************************)
(* No booth has two confirmed bookings and no sale link is lost, for any   *)
(* number of booths, bookings, lines and sessions.                         *)
(***************************************************************************)
EXTENDS BoothBooking, TLAPS

\* A session that takes its next step is well typed if its argument is.
LEMMA GoTypes ==
    ASSUME TypeOK, NEW s \in Sessions, NEW a \in Arg,
           NEW to \in {"idle", "insert", "join", "flip", "rows"}, Go(s, to, a)
    PROVE  /\ pc' \in [Sessions -> {"idle", "insert", "join", "flip", "rows"}]
           /\ arg' \in [Sessions -> Arg]
  BY DEF TypeOK, Go

LEMMA NothingType == Nothing \in Arg
  BY DEF Nothing, Arg

\* Ending a transaction disturbs neither the locks nor what others carry.
LEMMA EndKeeps ==
    ASSUME BookingInv, NEW s \in Sessions, End(s), UNCHANGED <<booth, booking, paid>>
    PROVE  BookingInv'
<1>1. TypeOK'
  BY NothingType, GoTypes DEF BookingInv, TypeOK, End
<1>2. \A t \in Sessions : pc'[t] # "idle" => t # s /\ pc'[t] = pc[t] /\ arg'[t] = arg[t]
  BY DEF BookingInv, TypeOK, End, Go
<1>3. \A t \in Sessions, k \in Bookings : Holds(t, k)' => Holds(t, k)
  BY <1>2 DEF Holds
<1>4. LocksAreExclusive'
  <2>1. \A t, u \in Sessions, k \in Bookings : Holds(t, k)' /\ Holds(u, k)' => t = u
    BY <1>3 DEF BookingInv, LocksAreExclusive
  <2>2. ASSUME NEW t \in Sessions, NEW k \in Bookings, Holds(t, k)'
        PROVE  Live(k)' /\ booking'[k].booth = arg'[t].booth
    <3>1. Holds(t, k) /\ pc'[t] # "idle"
      BY <1>3, <2>2 DEF Holds
    <3>2. QED
      BY <3>1, <1>2 DEF BookingInv, LocksAreExclusive, Live
  <2>3. QED
    BY <2>1, <2>2 DEF LocksAreExclusive
<1>5. Carried'
  BY <1>2 DEF BookingInv, Carried, Live
<1>6. TakenIsBooked' /\ OneConfirmed'
  BY DEF BookingInv, TakenIsBooked, OneConfirmed, RowsOf, Live, Confirmed
<1>7. QED
  BY <1>1, <1>4, <1>5, <1>6 DEF BookingInv

\* A step that only moves a session on, to a state whose locks nobody else
\* holds, keeps the invariant.
LEMMA GoKeeps ==
    ASSUME BookingInv, NEW s \in Sessions, NEW a \in Arg,
           NEW to \in {"insert", "join", "flip", "rows"}, Go(s, to, a),
           UNCHANGED <<booth, booking, paid>>,
           a.booth \in Booths,
           to \in {"join", "flip"} => a.booking \in Bookings,
           to = "rows" => \A k \in a.rows :
              booking[k].status # "none" /\ booking[k].booth = a.booth,
           \A k \in Bookings : Holds(s, k)' =>
              /\ Live(k) /\ booking[k].booth = a.booth
              /\ \A t \in Sessions \ {s} : ~Holds(t, k)
    PROVE  BookingInv'
<1>1. TypeOK'
  BY GoTypes DEF BookingInv, TypeOK
<1>2. pc'[s] = to /\ arg'[s] = a
  BY DEF BookingInv, TypeOK, Go
<1>3. \A t \in Sessions \ {s} : pc'[t] = pc[t] /\ arg'[t] = arg[t]
  BY DEF BookingInv, TypeOK, Go
<1>4. \A t \in Sessions \ {s}, k \in Bookings : Holds(t, k)' <=> Holds(t, k)
  BY <1>3 DEF Holds
<1>5. LocksAreExclusive'
  <2>1. \A t, u \in Sessions, k \in Bookings : Holds(t, k)' /\ Holds(u, k)' => t = u
    BY <1>4 DEF BookingInv, LocksAreExclusive
  <2>2. ASSUME NEW t \in Sessions, NEW k \in Bookings, Holds(t, k)'
        PROVE  Live(k)' /\ booking'[k].booth = arg'[t].booth
    <3>1. CASE t = s
      BY <3>1, <1>2, <2>2 DEF Live
    <3>2. CASE t # s
      BY <3>2, <1>3, <1>4, <2>2 DEF BookingInv, LocksAreExclusive, Live
    <3>3. QED
      BY <3>1, <3>2
  <2>3. QED
    BY <2>1, <2>2 DEF LocksAreExclusive
<1>6. Carried'
  <2>1. ASSUME NEW t \in Sessions
        PROVE  /\ pc'[t] # "idle" => arg'[t].booth \in Booths
               /\ pc'[t] \in {"join", "flip"} => arg'[t].booking \in Bookings
               /\ pc'[t] = "rows" => \A k \in arg'[t].rows :
                    booking'[k].status # "none" /\ booking'[k].booth = arg'[t].booth
    <3>1. CASE t = s
      BY <3>1, <1>2
    <3>2. CASE t # s
      BY <3>2, <1>3 DEF BookingInv, Carried
    <3>3. QED
      BY <3>1, <3>2
  <2>2. QED
    BY <2>1 DEF BookingInv, Carried, Live
<1>7. TakenIsBooked' /\ OneConfirmed'
  BY DEF BookingInv, TakenIsBooked, OneConfirmed, RowsOf, Live, Confirmed
<1>8. QED
  BY <1>1, <1>5, <1>6, <1>7 DEF BookingInv

\* A write by a transaction that ends, or by a verb of one statement, keeps the
\* locks of the others if it takes no row from under them.
LEMMA WriteKeepsLocks ==
    ASSUME BookingInv,
           \A t \in Sessions : pc'[t] # "idle" => pc'[t] = pc[t] /\ arg'[t] = arg[t],
           \A t \in Sessions, k \in Bookings : Holds(t, k)' => Live(k)',
           \A k \in Bookings : booking[k].status # "none" =>
               booking'[k].status # "none" /\ booking'[k].booth = booking[k].booth,
           \A k \in Bookings : Live(k)' =>
               booking'[k].booth \in Booths /\ booth'[booking'[k].booth].here
    PROVE  LocksAreExclusive' /\ Carried'
<1>1. \A t \in Sessions, k \in Bookings : Holds(t, k)' =>
        Holds(t, k) /\ pc'[t] = pc[t] /\ arg'[t] = arg[t]
  BY DEF Holds
<1>2. LocksAreExclusive'
  <2>1. \A t, u \in Sessions, k \in Bookings : Holds(t, k)' /\ Holds(u, k)' => t = u
    BY <1>1 DEF BookingInv, LocksAreExclusive
  <2>2. ASSUME NEW t \in Sessions, NEW k \in Bookings, Holds(t, k)'
        PROVE  Live(k)' /\ booking'[k].booth = arg'[t].booth
    BY <1>1, <2>2 DEF BookingInv, LocksAreExclusive, Live
  <2>3. QED
    BY <2>1, <2>2 DEF LocksAreExclusive
<1>3. Carried'
  <2>1. ASSUME NEW t \in Sessions, pc'[t] = "rows", NEW k \in arg'[t].rows
        PROVE  booking'[k].status # "none" /\ booking'[k].booth = arg'[t].booth
    <3>1. pc[t] = "rows" /\ arg'[t] = arg[t]
      BY <2>1
    <3>2. k \in Bookings /\ booking[k].status # "none" /\ booking[k].booth = arg[t].booth
      BY <2>1, <3>1 DEF BookingInv, TypeOK, Arg, Carried
    <3>3. QED
      BY <3>1, <3>2
  <2>2. \A t \in Sessions : /\ pc'[t] # "idle" => arg'[t].booth \in Booths
                            /\ pc'[t] \in {"join", "flip"} => arg'[t].booking \in Bookings
    BY DEF BookingInv, Carried
  <2>3. QED
    BY <2>1, <2>2 DEF Carried
<1>4. QED
  BY <1>2, <1>3

\* What the end of a transaction leaves of the sessions.
LEMMA EndSessions ==
    ASSUME TypeOK, NEW s \in Sessions, End(s)
    PROVE  /\ pc' \in [Sessions -> {"idle", "insert", "join", "flip", "rows"}]
           /\ arg' \in [Sessions -> Arg]
           /\ \A t \in Sessions : pc'[t] # "idle" =>
                 t # s /\ pc'[t] = pc[t] /\ arg'[t] = arg[t]
           /\ \A t \in Sessions, k \in Bookings :
                 Holds(t, k)' => t # s /\ Holds(t, k)
  BY NothingType DEF TypeOK, End, Go, Holds

-----------------------------------------------------------------------------
(* The verbs                                                               *)

LEMMA CreateInsertKeeps ==
    ASSUME BookingInv, NEW s \in Sessions, CreateInsert(s)
    PROVE  BookingInv'
<1>1. TypeOK
  BY DEF BookingInv
<1>2. CASE UNCHANGED booking
  BY <1>2, EndKeeps DEF CreateInsert
<1>3. CASE booth[arg[s].booth].here /\ \E k \in Bookings :
              /\ booking[k].status = "none"
              /\ booking' = [booking EXCEPT ![k] =
                    [status |-> "pending", booth |-> arg[s].booth, line |-> arg[s].line]]
  <2>1. PICK k \in Bookings :
              /\ booking[k].status = "none"
              /\ booking' = [booking EXCEPT ![k] =
                    [status |-> "pending", booth |-> arg[s].booth, line |-> arg[s].line]]
    BY <1>3
  <2>2. /\ End(s) /\ UNCHANGED <<booth, paid>>
        /\ arg[s].booth \in Booths /\ arg[s].line \in Lines \cup {NoLine}
    BY <1>1 DEF CreateInsert, BookingInv, TypeOK, Carried, Arg
  <2>3. TypeOK'
    <3>1. booking' \in [Bookings -> BookingRow]
      BY <1>1, <2>1, <2>2 DEF TypeOK, BookingRow
    <3>2. QED
      BY <1>1, <2>2, <3>1, EndSessions DEF TypeOK
  <2>4. \A j \in Bookings : j # k => booking'[j] = booking[j]
    BY <1>1, <2>1 DEF TypeOK
  <2>5. booking'[k].status = "pending" /\ booking'[k].booth = arg[s].booth
    BY <1>1, <2>1 DEF TypeOK
  <2>6. LocksAreExclusive' /\ Carried'
    <3>1. \A t \in Sessions, j \in Bookings : Holds(t, j)' => Live(j)'
      BY <1>1, <2>1, <2>2, <2>4, EndSessions DEF BookingInv, LocksAreExclusive, Live
    <3>2. \A j \in Bookings : Live(j)' =>
            booking'[j].booth \in Booths /\ booth'[booking'[j].booth].here
      BY <1>3, <2>2, <2>4, <2>5 DEF BookingInv, Carried, Live
    <3>3. QED
      BY <1>1, <2>1, <2>2, <2>4, <3>1, <3>2, EndSessions, WriteKeepsLocks
  <2>7. TakenIsBooked'
    BY <2>1, <2>2, <2>4 DEF BookingInv, TakenIsBooked, RowsOf, Live, Confirmed
  <2>8. OneConfirmed'
    BY <2>4, <2>5 DEF BookingInv, OneConfirmed, Confirmed
  <2>9. QED
    BY <2>3, <2>6, <2>7, <2>8 DEF BookingInv
<1>4. QED
  BY <1>2, <1>3 DEF CreateInsert

LEMMA ConfirmFlipKeeps ==
    ASSUME BookingInv, NEW s \in Sessions, ConfirmFlip(s)
    PROVE  BookingInv'
<1>1. TypeOK
  BY DEF BookingInv
<1>2. CASE UNCHANGED <<booth, booking>>
  BY <1>2, EndKeeps DEF ConfirmFlip
<1>3. CASE ~UNCHANGED <<booth, booking>>
  <2>1. PICK k \in Bookings, b \in Booths : k = arg[s].booking /\ b = arg[s].booth
    BY DEF ConfirmFlip, BookingInv, Carried
  <2>2. /\ booking[k].status = "pending" /\ ~Walled(k)
        /\ booking' = [booking EXCEPT ![k].status = "confirmed"]
        /\ booth' = [booth EXCEPT ![b].state = "unavailable",
                                  ![b].line = Coalesce(@, booking[k].line)]
        /\ End(s) /\ UNCHANGED paid
    BY <1>3, <2>1 DEF ConfirmFlip
  <2>3. Holds(s, k) /\ booking[k].booth = b
    BY <2>1 DEF ConfirmFlip, Holds, BookingInv, LocksAreExclusive
  <2>4. TypeOK'
    <3>1. booking' \in [Bookings -> BookingRow]
      BY <1>1, <2>2 DEF TypeOK, BookingRow
    <3>2. Coalesce(booth[b].line, booking[k].line) \in Lines \cup {NoLine}
      BY <1>1 DEF TypeOK, BoothRow, BookingRow, Coalesce
    <3>3. booth' \in [Booths -> BoothRow]
      BY <1>1, <2>2, <3>2 DEF TypeOK, BoothRow
    <3>4. QED
      BY <1>1, <2>2, <3>1, <3>3, EndSessions DEF TypeOK
  <2>5. /\ \A j \in Bookings : j # k => booking'[j] = booking[j]
        /\ booking'[k].status = "confirmed" /\ booking'[k].booth = b
        /\ booking[k].status = "pending"
    BY <1>1, <2>2, <2>3 DEF TypeOK, BookingRow
  <2>6. /\ \A c \in Booths : booth'[c].here = booth[c].here
        /\ \A c \in Booths : c # b => booth'[c] = booth[c]
    BY <1>1, <2>2 DEF TypeOK, BoothRow
  <2>7. LocksAreExclusive' /\ Carried'
    <3>1. \A t \in Sessions, j \in Bookings : Holds(t, j)' => Live(j)'
      BY <1>1, <2>2, <2>5, EndSessions DEF BookingInv, LocksAreExclusive, Live
    <3>2. \A j \in Bookings : Live(j)' =>
            booking'[j].booth \in Booths /\ booth'[booking'[j].booth].here
      BY <2>3, <2>5, <2>6 DEF BookingInv, Carried, Live
    <3>3. QED
      BY <1>1, <2>2, <2>3, <2>5, <3>1, <3>2, EndSessions, WriteKeepsLocks
  <2>8. TakenIsBooked'
    <3>1. booth'[b].here
      BY <2>3, <2>5, <2>6 DEF BookingInv, Carried, Live
    <3>2. QED
      BY <2>5, <2>6, <3>1 DEF BookingInv, TakenIsBooked, RowsOf, Live, Confirmed
  <2>9. OneConfirmed'
    <3>1. \A j \in Bookings \ {k} : Confirmed(j) => booking[j].booth # b
      BY <2>2, <2>3 DEF Walled, RowsOf, Live, Confirmed
    <3>2. QED
      BY <2>5, <3>1 DEF BookingInv, OneConfirmed, Confirmed
  <2>10. QED
    BY <2>4, <2>7, <2>8, <2>9 DEF BookingInv
<1>4. QED
  BY <1>2, <1>3

LEMMA ReleaseFlipKeeps ==
    ASSUME BookingInv, NEW s \in Sessions, ReleaseFlip(s)
    PROVE  BookingInv'
<1>1. TypeOK
  BY DEF BookingInv
<1>2. CASE UNCHANGED <<booth, booking>>
  BY <1>2, EndKeeps DEF ReleaseFlip
<1>3. CASE ~UNCHANGED <<booth, booking>>
  <2>1. PICK b \in Booths : b = arg[s].booth
    BY DEF ReleaseFlip, BookingInv, Carried
  <2>2. /\ booth' = [booth EXCEPT ![b].state = "available"]
        /\ booking' = [k \in Bookings |->
              IF k \in arg[s].staged THEN [booking[k] EXCEPT !.status = "gone"]
              ELSE booking[k]]
        /\ End(s) /\ UNCHANGED paid /\ pc[s] = "rows"
    BY <1>3, <2>1 DEF ReleaseFlip
  <2>3. /\ \A k \in arg[s].staged : k \in Bookings /\ Holds(s, k)
        /\ \A k \in arg[s].staged : Live(k) /\ booking[k].booth = b
    BY <1>1, <2>1, <2>2 DEF TypeOK, Arg, Holds, BookingInv, LocksAreExclusive
  <2>4. TypeOK'
    <3>1. booking' \in [Bookings -> BookingRow]
      BY <1>1, <2>2 DEF TypeOK, BookingRow
    <3>2. booth' \in [Booths -> BoothRow]
      BY <1>1, <2>2 DEF TypeOK, BoothRow
    <3>3. QED
      BY <1>1, <2>2, <3>1, <3>2, EndSessions DEF TypeOK
  <2>5. \A k \in Bookings :
          /\ booking'[k].booth = booking[k].booth
          /\ k \in arg[s].staged => booking'[k].status = "gone"
          /\ k \notin arg[s].staged => booking'[k] = booking[k]
    BY <1>1, <2>2 DEF TypeOK, BookingRow
  <2>6. /\ \A c \in Booths : booth'[c].here = booth[c].here
        /\ \A c \in Booths : c # b => booth'[c] = booth[c]
        /\ booth'[b].state = "available"
    BY <1>1, <2>2 DEF TypeOK, BoothRow
  <2>7. LocksAreExclusive' /\ Carried'
    <3>1. \A t \in Sessions, j \in Bookings : Holds(t, j)' => t # s /\ Holds(t, j)
      BY <1>1, <2>2, EndSessions
    <3>2. \A t \in Sessions, j \in Bookings : Holds(t, j)' => Live(j)'
      BY <2>3, <2>5, <3>1 DEF BookingInv, LocksAreExclusive, Live
    <3>3. \A j \in Bookings : Live(j)' =>
            booking'[j].booth \in Booths /\ booth'[booking'[j].booth].here
      BY <2>5, <2>6 DEF BookingInv, Carried, Live
    <3>4. \A j \in Bookings : booking[j].status # "none" =>
            booking'[j].status # "none" /\ booking'[j].booth = booking[j].booth
      BY <2>5
    <3>5. \A t \in Sessions : pc'[t] # "idle" => pc'[t] = pc[t] /\ arg'[t] = arg[t]
      BY <1>1, <2>2, EndSessions
    <3>6. QED
      BY <3>2, <3>3, <3>4, <3>5, WriteKeepsLocks
  <2>8. TakenIsBooked'
    BY <2>3, <2>5, <2>6 DEF BookingInv, TakenIsBooked, RowsOf, Live, Confirmed
  <2>9. OneConfirmed'
    BY <2>5 DEF BookingInv, OneConfirmed, Confirmed
  <2>10. QED
    BY <2>4, <2>7, <2>8, <2>9 DEF BookingInv
<1>4. QED
  BY <1>2, <1>3

\* A session that waits holds what it held.
LEMMA SameSessions ==
    ASSUME UNCHANGED <<pc, arg>>
    PROVE  \A t \in Sessions, k \in Bookings : Holds(t, k)' => Holds(t, k)
  BY DEF Holds

LEMMA WithdrawKeeps ==
    ASSUME BookingInv, NEW k \in Bookings, Withdraw(k)
    PROVE  BookingInv'
<1>1. TypeOK /\ UNCHANGED <<booth, paid, pc, arg>>
  BY DEF BookingInv, Withdraw
<1>2. booking' \in [Bookings -> BookingRow]
  BY <1>1 DEF Withdraw, TypeOK, BookingRow
<1>3. /\ \A j \in Bookings : j # k => booking'[j] = booking[j]
      /\ booking[k].status = "pending"
      /\ booking'[k].status = "gone" /\ booking'[k].booth = booking[k].booth
  BY <1>1 DEF Withdraw, TypeOK, BookingRow
<1>4. TypeOK'
  BY <1>1, <1>2 DEF TypeOK
<1>5. \A t \in Sessions : ~Holds(t, k)
  BY DEF Withdraw, BookingFree
<1>6. \A t \in Sessions, j \in Bookings : Holds(t, j)' => Live(j)'
  BY <1>1, <1>3, <1>5, SameSessions DEF BookingInv, LocksAreExclusive, Live
<1>7. \A j \in Bookings : Live(j)' =>
        booking'[j].booth \in Booths /\ booth'[booking'[j].booth].here
  BY <1>1, <1>3 DEF BookingInv, Carried, Live
<1>8. LocksAreExclusive' /\ Carried'
  BY <1>1, <1>3, <1>6, <1>7, WriteKeepsLocks
<1>9. TakenIsBooked' /\ OneConfirmed'
  BY <1>1, <1>3 DEF BookingInv, TakenIsBooked, OneConfirmed, RowsOf, Live, Confirmed
<1>10. QED
  BY <1>4, <1>8, <1>9 DEF BookingInv

\* A write of booths that leaves the bookings, states and existence alone where
\* a booking is.
LEMMA BoothWriteKeeps ==
    ASSUME BookingInv, UNCHANGED <<booking, pc, arg>>,
           paid' \subseteq Lines, booth' \in [Booths -> BoothRow],
           \A b \in Booths : booth'[b].state = booth[b].state,
           \A b \in Booths : RowsOf(b) # {} => booth'[b].here = booth[b].here
    PROVE  BookingInv'
<1>1. TypeOK'
  BY DEF BookingInv, TypeOK
<1>2. \A t \in Sessions, j \in Bookings : Holds(t, j)' => Live(j)'
  BY SameSessions DEF BookingInv, LocksAreExclusive, Live
<1>3. \A j \in Bookings : Live(j)' =>
        booking'[j].booth \in Booths /\ booth'[booking'[j].booth].here
  BY DEF BookingInv, Carried, RowsOf, Live
<1>4. LocksAreExclusive' /\ Carried'
  BY <1>2, <1>3, WriteKeepsLocks
<1>5. TakenIsBooked' /\ OneConfirmed'
  BY DEF BookingInv, TakenIsBooked, OneConfirmed, RowsOf, Live, Confirmed
<1>6. QED
  BY <1>1, <1>4, <1>5 DEF BookingInv

LEMMA DeleteBoothKeeps ==
    ASSUME BookingInv, NEW b \in Booths, DeleteBooth(b)
    PROVE  BookingInv'
<1>1. /\ booth' \in [Booths -> BoothRow]
      /\ \A c \in Booths : booth'[c].state = booth[c].state
      /\ \A c \in Booths \ {b} : booth'[c] = booth[c]
  BY DEF DeleteBooth, BookingInv, TypeOK, BoothRow
<1>2. RowsOf(b) = {} /\ UNCHANGED <<booking, paid, pc, arg>> /\ paid \subseteq Lines
  BY DEF DeleteBooth, BookingInv, TypeOK
<1>3. QED
  BY <1>1, <1>2, BoothWriteKeeps

LEMMA MarkPaidKeeps ==
    ASSUME BookingInv, NEW l \in Lines, MarkPaid(l)
    PROVE  BookingInv'
<1>1. /\ booth' \in [Booths -> BoothRow]
      /\ \A c \in Booths : booth'[c].state = booth[c].state /\ booth'[c].here = booth[c].here
  BY DEF MarkPaid, BookingInv, TypeOK, BoothRow
<1>2. UNCHANGED <<booking, pc, arg>> /\ paid' \subseteq Lines
  BY DEF MarkPaid, BookingInv, TypeOK
<1>3. QED
  BY <1>1, <1>2, BoothWriteKeeps

LEMMA CreateCheckKeeps ==
    ASSUME BookingInv, NEW s \in Sessions, NEW b \in Booths, NEW l \in Lines \cup {NoLine},
           CreateCheck(s, b, l)
    PROVE  BookingInv'
<1> DEFINE a == [Nothing EXCEPT !.booth = b, !.line = l]
<1>1. a \in Arg /\ a.booth = b
  BY DEF Nothing, Arg
<1>2. Go(s, "insert", a) /\ UNCHANGED <<booth, booking, paid>>
  BY DEF CreateCheck
<1>3. pc'[s] = "insert"
  BY <1>2 DEF Go, BookingInv, TypeOK
<1> HIDE DEF a
<1>4. QED
  BY <1>1, <1>2, <1>3, GoKeeps DEF Holds

LEMMA ConfirmLockKeeps ==
    ASSUME BookingInv, NEW s \in Sessions, NEW k \in Bookings, ConfirmLock(s, k)
    PROVE  BookingInv'
<1> DEFINE a == [Nothing EXCEPT !.booking = k, !.booth = booking[k].booth]
<1>1. /\ Live(k) /\ BookingFree(k) /\ booking[k].booth \in Booths
      /\ UNCHANGED <<booth, booking, paid>>
  BY DEF ConfirmLock, BookingInv, Carried
<1>2. a \in Arg /\ a.booth = booking[k].booth /\ a.booking = k
  BY <1>1 DEF Nothing, Arg
<1>3. Go(s, "join", a)
  BY DEF ConfirmLock
<1> HIDE DEF a
<1>4. pc'[s] = "join" /\ arg'[s] = a
  BY <1>3 DEF Go, BookingInv, TypeOK
<1>5. \A j \in Bookings : Holds(s, j)' =>
        /\ Live(j) /\ booking[j].booth = a.booth
        /\ \A t \in Sessions \ {s} : ~Holds(t, j)
  BY <1>1, <1>2, <1>4 DEF Holds, BookingFree
<1>6. QED
  BY <1>1, <1>2, <1>3, <1>5, GoKeeps

LEMMA ConfirmJoinKeeps ==
    ASSUME BookingInv, NEW s \in Sessions, ConfirmJoin(s)
    PROVE  BookingInv'
<1>1. CASE End(s)
  BY <1>1, EndKeeps DEF ConfirmJoin
<1>2. CASE Go(s, "flip", arg[s])
  <2>1. /\ pc[s] = "join" /\ arg[s] \in Arg /\ arg[s].booth \in Booths
        /\ arg[s].booking \in Bookings /\ UNCHANGED <<booth, booking, paid>>
    BY DEF ConfirmJoin, BookingInv, Carried, TypeOK
  <2>2. pc'[s] = "flip" /\ arg'[s] = arg[s]
    BY <1>2 DEF Go, BookingInv, TypeOK
  <2>3. \A j \in Bookings : Holds(s, j)' => Holds(s, j)
    BY <2>1, <2>2 DEF Holds
  <2>4. \A j \in Bookings : Holds(s, j)' =>
          /\ Live(j) /\ booking[j].booth = arg[s].booth
          /\ \A t \in Sessions \ {s} : ~Holds(t, j)
    BY <2>3 DEF BookingInv, LocksAreExclusive
  <2>5. QED
    BY <1>2, <2>1, <2>4, GoKeeps
<1>3. QED
  BY <1>1, <1>2 DEF ConfirmJoin

LEMMA ReleaseBeginKeeps ==
    ASSUME BookingInv, NEW s \in Sessions, NEW b \in Booths, ReleaseBegin(s, b)
    PROVE  BookingInv'
<1> DEFINE a == [Nothing EXCEPT !.booth = b, !.rows = RowsOf(b)]
<1>1. a \in Arg /\ a.booth = b /\ a.rows = RowsOf(b) /\ a.staged = {}
  BY DEF Nothing, Arg, RowsOf
<1>2. Go(s, "rows", a) /\ UNCHANGED <<booth, booking, paid>>
  BY DEF ReleaseBegin
<1> HIDE DEF a
<1>3. pc'[s] = "rows" /\ arg'[s] = a
  BY <1>2 DEF Go, BookingInv, TypeOK
<1>4. \A j \in Bookings : ~Holds(s, j)'
  BY <1>1, <1>3 DEF Holds
<1>5. \A k \in a.rows : booking[k].status # "none" /\ booking[k].booth = b
  BY <1>1 DEF RowsOf, Live
<1>6. QED
  BY <1>1, <1>2, <1>4, <1>5, GoKeeps

LEMMA ReleaseRowKeeps ==
    ASSUME BookingInv, NEW s \in Sessions, ReleaseRow(s)
    PROVE  BookingInv'
<1>1. PICK k \in arg[s].rows :
        /\ BookingFree(k)
        /\ Go(s, "rows", [arg[s] EXCEPT !.rows = @ \ {k},
                                       !.staged = @ \cup {j \in {k} : Live(j)}])
  BY DEF ReleaseRow
<1> DEFINE a == [arg[s] EXCEPT !.rows = @ \ {k}, !.staged = @ \cup {j \in {k} : Live(j)}]
<1>2. /\ pc[s] = "rows" /\ arg[s] \in Arg /\ arg[s].booth \in Booths
      /\ UNCHANGED <<booth, booking, paid>>
  BY DEF ReleaseRow, BookingInv, Carried, TypeOK
<1>3. k \in Bookings /\ booking[k].booth = arg[s].booth
  BY <1>2 DEF Arg, BookingInv, Carried
<1>4. /\ a \in Arg /\ a.booth = arg[s].booth
      /\ a.rows \subseteq arg[s].rows
      /\ \A j \in a.staged : j \in arg[s].staged \/ (j = k /\ Live(k))
  BY <1>2, <1>3 DEF Arg
<1>5. Go(s, "rows", a)
  BY <1>1
<1> HIDE DEF a
<1>6. pc'[s] = "rows" /\ arg'[s] = a
  BY <1>5 DEF Go, BookingInv, TypeOK
<1>7. \A j \in Bookings : Holds(s, j)' => Holds(s, j) \/ (j = k /\ Live(k))
  BY <1>2, <1>4, <1>6 DEF Holds
<1>8. \A j \in Bookings : Holds(s, j)' =>
        /\ Live(j) /\ booking[j].booth = a.booth
        /\ \A t \in Sessions \ {s} : ~Holds(t, j)
  BY <1>1, <1>3, <1>4, <1>7 DEF BookingInv, LocksAreExclusive, BookingFree
<1>9. \A j \in a.rows : booking[j].status # "none" /\ booking[j].booth = a.booth
  BY <1>2, <1>4 DEF BookingInv, Carried
<1>10. QED
  BY <1>2, <1>4, <1>5, <1>8, <1>9, GoKeeps

-----------------------------------------------------------------------------
(* The theorems                                                            *)

LEMMA BookingInvInit == Init => BookingInv
  BY NothingType DEF Init, BookingInv, TypeOK, BoothRow, BookingRow, LocksAreExclusive,
     Holds, Carried, TakenIsBooked, OneConfirmed, Live, Confirmed

LEMMA BookingInvStep == BookingInv /\ [Next]_vars => BookingInv'
<1> SUFFICES ASSUME BookingInv, [Next]_vars PROVE BookingInv'
  OBVIOUS
<1>1. ASSUME NEW s \in Sessions, NEW b \in Booths, NEW l \in Lines \cup {NoLine},
             CreateCheck(s, b, l)
      PROVE  BookingInv'
  BY <1>1, CreateCheckKeeps
<1>2. ASSUME NEW s \in Sessions, NEW b \in Booths, ReleaseBegin(s, b) PROVE BookingInv'
  BY <1>2, ReleaseBeginKeeps
<1>3. ASSUME NEW s \in Sessions, NEW k \in Bookings, ConfirmLock(s, k) PROVE BookingInv'
  BY <1>3, ConfirmLockKeeps
<1>4. ASSUME NEW s \in Sessions, CreateInsert(s) PROVE BookingInv'
  BY <1>4, CreateInsertKeeps
<1>5. ASSUME NEW s \in Sessions, CreateGivesUp(s) \/ ReleaseVictim(s) PROVE BookingInv'
  BY <1>5, EndKeeps DEF CreateGivesUp, ReleaseVictim
<1>6. ASSUME NEW s \in Sessions, ConfirmJoin(s) PROVE BookingInv'
  BY <1>6, ConfirmJoinKeeps
<1>7. ASSUME NEW s \in Sessions, ConfirmFlip(s) PROVE BookingInv'
  BY <1>7, ConfirmFlipKeeps
<1>8. ASSUME NEW s \in Sessions, ReleaseRow(s) PROVE BookingInv'
  BY <1>8, ReleaseRowKeeps
<1>9. ASSUME NEW s \in Sessions, ReleaseFlip(s) PROVE BookingInv'
  BY <1>9, ReleaseFlipKeeps
<1>10. ASSUME NEW k \in Bookings, Withdraw(k) PROVE BookingInv'
  BY <1>10, WithdrawKeeps
<1>11. ASSUME NEW b \in Booths, DeleteBooth(b) PROVE BookingInv'
  BY <1>11, DeleteBoothKeeps
<1>12. ASSUME NEW l \in Lines, MarkPaid(l) PROVE BookingInv'
  BY <1>12, MarkPaidKeeps
<1>13. CASE UNCHANGED vars
  <2>1. UNCHANGED <<booth, booking, paid, pc, arg>>
    BY <1>13 DEF vars
  <2>2. paid \subseteq Lines /\ booth \in [Booths -> BoothRow]
    BY DEF BookingInv, TypeOK
  <2>3. QED
    BY <2>1, <2>2, BoothWriteKeeps
<1>14. QED
  BY <1>1, <1>2, <1>3, <1>4, <1>5, <1>6, <1>7, <1>8, <1>9, <1>10, <1>11, <1>12, <1>13
     DEF Next

\* Whatever the interleaving of creates, confirms, releases and deletes, locks
\* are exclusive, an unavailable booth is booked and the wall stands.
THEOREM BookingSafety == Spec => []BookingInv
  BY BookingInvInit, BookingInvStep, PTL DEF Spec

\* EBS-1 for every number of booths, bookings and sessions: one confirmed
\* booking per booth.
THEOREM OneConfirmedAlways == Spec => []OneConfirmed
<1>1. BookingInv => OneConfirmed
  BY DEF BookingInv
<1>2. QED
  BY <1>1, BookingSafety, PTL

LEMMA ConfirmedStep ==
    ASSUME BookingInv, [Next]_vars, NEW k \in Bookings, Confirmed(k), booking'[k] # booking[k]
    PROVE  /\ booth[booking[k].booth].state = "unavailable"
           /\ booth'[booking[k].booth].state = "available"
<1>1. TypeOK
  BY DEF BookingInv
<1>2. ASSUME NEW s \in Sessions, CreateInsert(s) PROVE FALSE
  BY <1>1, <1>2 DEF CreateInsert, TypeOK, Confirmed
<1>3. ASSUME NEW s \in Sessions, ConfirmFlip(s) PROVE FALSE
  <2>1. \A j \in Bookings : j # arg[s].booking => booking'[j] = booking[j]
    BY <1>1, <1>3 DEF ConfirmFlip, TypeOK
  <2>2. booking[arg[s].booking].status = "pending"
    BY <1>3 DEF ConfirmFlip
  <2>3. QED
    BY <2>1, <2>2 DEF Confirmed
<1>4. ASSUME NEW j \in Bookings, Withdraw(j) PROVE FALSE
  <2>1. booking[j].status = "pending" /\ (j # k => booking'[k] = booking[k])
    BY <1>1, <1>4 DEF Withdraw, TypeOK
  <2>2. QED
    BY <2>1 DEF Confirmed
<1>5. ASSUME NEW s \in Sessions, ReleaseFlip(s)
      PROVE  /\ booth[booking[k].booth].state = "unavailable"
             /\ booth'[booking[k].booth].state = "available"
  <2>1. PICK b \in Booths : b = arg[s].booth
    BY <1>5 DEF ReleaseFlip, BookingInv, Carried
  <2>2. /\ booth[b].state = "unavailable"
        /\ booth' = [booth EXCEPT ![b].state = "available"]
        /\ k \in arg[s].staged
    BY <1>1, <1>5, <2>1 DEF ReleaseFlip, TypeOK
  <2>3. booking[k].booth = b
    BY <1>5, <2>1, <2>2 DEF ReleaseFlip, Holds, BookingInv, LocksAreExclusive
  <2>4. booth'[b].state = "available"
    BY <1>1, <2>2 DEF TypeOK, BoothRow
  <2>5. QED
    BY <2>2, <2>3, <2>4
<1>6. CASE UNCHANGED booking
  BY <1>6
<1>7. QED
  BY <1>2, <1>3, <1>4, <1>5, <1>6
     DEF Next, vars, CreateCheck, CreateGivesUp, ConfirmLock, ConfirmJoin, ReleaseBegin,
         ReleaseRow, ReleaseVictim, DeleteBooth, MarkPaid

\* A confirmed booking leaves only in the step that opens its booth again.
THEOREM ConfirmedKept == Spec => ConfirmedGoesByRelease
<1> DEFINE Kept == \A k \in Bookings : Confirmed(k) /\ booking'[k] # booking[k] =>
          /\ booth[booking[k].booth].state = "unavailable"
          /\ booth'[booking[k].booth].state = "available"
<1>1. BookingInv /\ [Next]_vars => [Kept]_vars
  BY ConfirmedStep
<1> HIDE DEF Kept
<1>2. Spec => [][Kept]_vars
  BY <1>1, BookingSafety, PTL DEF Spec
<1>3. QED
  BY <1>2 DEF ConfirmedGoesByRelease, Kept

LEMMA LinkStep ==
    ASSUME BookingInv, [Next]_vars, NEW b \in Booths, booth[b].here, booth[b].line # NoLine
    PROVE  /\ booth'[b].here /\ booth'[b].line = booth[b].line
           /\ booth[b].is_paid => booth'[b].is_paid
<1>1. booth \in [Booths -> BoothRow]
  BY DEF BookingInv, TypeOK
<1> DEFINE Kept(row) == row.here = booth[b].here /\ row.line = booth[b].line
                        /\ (booth[b].is_paid => row.is_paid)
<1>2. Kept(booth[b]) 
  OBVIOUS
<1>3. Kept([booth[b] EXCEPT !.state = "unavailable", !.line = booth[b].line])
      /\ Kept([booth[b] EXCEPT !.state = "available"])
      /\ Kept([booth[b] EXCEPT !.is_paid = TRUE])
  BY <1>1 DEF BoothRow
<1>4. ASSUME NEW s \in Sessions, ConfirmFlip(s) PROVE Kept(booth'[b])
  <2>1. CASE UNCHANGED booth
    BY <1>2, <2>1
  <2>2. CASE /\ arg[s].booth = b
             /\ booth' = [booth EXCEPT ![b].state = "unavailable",
                    ![b].line = Coalesce(@, booking[arg[s].booking].line)]
    <3>1. booth'[b] = [booth[b] EXCEPT !.state = "unavailable", !.line = booth[b].line]
      BY <1>1, <2>2 DEF Coalesce
    <3>2. QED
      BY <1>3, <3>1
  <2>3. CASE /\ arg[s].booth # b
             /\ booth' = [booth EXCEPT ![arg[s].booth].state = "unavailable",
                    ![arg[s].booth].line = Coalesce(@, booking[arg[s].booking].line)]
    <3>1. booth'[b] = booth[b]
      BY <1>1, <2>3
    <3>2. QED
      BY <1>2, <3>1
  <2>4. QED
    BY <1>4, <2>1, <2>2, <2>3 DEF ConfirmFlip
<1>5. ASSUME NEW s \in Sessions, ReleaseFlip(s) PROVE Kept(booth'[b])
  <2>1. booth'[b] = booth[b] \/ booth'[b] = [booth[b] EXCEPT !.state = "available"]
    BY <1>1, <1>5 DEF ReleaseFlip
  <2>2. QED
    BY <1>2, <1>3, <2>1
<1>6. ASSUME NEW c \in Booths, DeleteBooth(c) PROVE Kept(booth'[b])
  <2>1. booth'[b] = booth[b]
    BY <1>1, <1>6 DEF DeleteBooth
  <2>2. QED
    BY <1>2, <2>1
<1>7. ASSUME NEW l \in Lines, MarkPaid(l) PROVE Kept(booth'[b])
  <2>1. booth'[b] = booth[b] \/ booth'[b] = [booth[b] EXCEPT !.is_paid = TRUE]
    BY <1>7 DEF MarkPaid
  <2>2. QED
    BY <1>2, <1>3, <2>1
<1>8. CASE UNCHANGED booth
  BY <1>2, <1>8
<1>9. Kept(booth'[b])
  BY <1>4, <1>5, <1>6, <1>7, <1>8
     DEF Next, vars, CreateCheck, CreateInsert, CreateGivesUp, ConfirmLock, ConfirmJoin,
         ReleaseBegin, ReleaseRow, ReleaseVictim, Withdraw
<1>10. QED
  BY <1>9

\* The sale link is history: whatever confirms, releases, pays and deletes, in
\* any order and under any interleaving, a booth that carries a sale link keeps
\* it, paid or not.
THEOREM LinkStays == Spec => SaleLinkStays
<1> DEFINE Stays == \A b \in Booths : booth[b].here /\ booth[b].line # NoLine =>
          booth'[b].here /\ booth'[b].line = booth[b].line
          /\ (booth[b].is_paid => booth'[b].is_paid)
<1>1. BookingInv /\ [Next]_vars => [Stays]_vars
  BY LinkStep
<1> HIDE DEF Stays
<1>2. Spec => [][Stays]_vars
  BY <1>1, BookingSafety, PTL DEF Spec
<1>3. QED
  BY <1>2 DEF SaleLinkStays, Stays
=============================================================================
