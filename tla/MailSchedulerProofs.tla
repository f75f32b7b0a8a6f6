------------------------ MODULE MailSchedulerProofs ------------------------
(***************************************************************************)
(* A receipt tells what happened to its message, and says it for good, for *)
(* any number of schedulers, registrations, passes and crashes.            *)
(***************************************************************************)
EXTENDS MailScheduler, TLAPS

LEMMA IdleType == Idle \in Walk
  BY DEF Idle, Walk

\* The fields of a walk have their types.
LEMMA WalkType ==
    ASSUME TypeOK, NEW p \in Passes
    PROVE  /\ walk[p] \in Walk
           /\ walk[p].doomed \subseteq Mails \X Regs /\ walk[p].date_end \in Dates \cup {0}
           /\ walk[p].todo \subseteq Mails /\ walk[p].templated \subseteq Mails
           /\ walk[p].mail \in Mails \cup {NoMail} /\ walk[p].batch \subseteq Regs
           /\ walk[p].full \in BOOLEAN /\ walk[p].gone \subseteq Regs
           /\ walk[p].reg \in Regs \cup {NoReg} /\ walk[p].done \in BOOLEAN
  BY DEF TypeOK, Walk

\* The steps of a pass that write no receipt and hand nothing over: the pass
\* moves on with a walk that knows its row wherever it needs one.
LEMMA MoveKeeps ==
    ASSUME IInv, NEW p \in Passes, NEW w \in Walk, NEW label \in Labels \ {"mark"},
           walk' = [walk EXCEPT ![p] = w], pc' = [pc EXCEPT ![p] = label],
           UNCHANGED <<registrations, receipts, handed, now, date_end, dates, cancelled>>,
           mails' \in [Mails -> [exists : BOOLEAN, template : {"none", "live", "gone"},
                                 mail_done : BOOLEAN]],
           crashes' \in 0..MaxCrashes,
           label \notin {"idle", "propagate", "claim", "next", "aborted"} => w.mail \in Mails,
           label \in {"read", "walk"} => w.date_end \in dates
    PROVE  IInv'
<1> USE DEF IInv
<1>1. TypeOK'
  BY DEF TypeOK, Labels
<1>2. WalkOK'
  BY DEF TypeOK, WalkOK
<1>3. ReceiptsTellTheTruth'
  BY DEF ReceiptsTellTheTruth
<1>4. QED
  BY <1>1, <1>2, <1>3

\* The verbs around the passes that leave receipts and walks alone.
LEMMA VerbKeeps ==
    ASSUME IInv, registrations' \in [Regs -> RegState],
           mails' \in [Mails -> [exists : BOOLEAN, template : {"none", "live", "gone"},
                                 mail_done : BOOLEAN]],
           now' \in 0..MaxTime, now' >= now, dates \subseteq dates', date_end' \in dates',
           dates' \subseteq Dates, cancelled' \in BOOLEAN,
           UNCHANGED <<receipts, handed, pc, walk, crashes>>
    PROVE  IInv'
<1> USE DEF IInv
<1>1. TypeOK'
  BY DEF TypeOK
<1>2. WalkOK'
  BY DEF TypeOK, WalkOK
<1>3. ASSUME NEW s \in Mails, NEW r \in Regs, receipts[s][r] = "dropped"
      PROVE  \E d \in dates' : d <= now'
  <2>1. PICK d \in dates : d <= now
    BY <1>3 DEF ReceiptsTellTheTruth
  <2>2. d \in Nat /\ now \in Nat /\ now' \in Nat
    BY MailSchedulerAssumption DEF TypeOK
  <2>3. QED
    BY <2>1, <2>2
<1>4. ReceiptsTellTheTruth'
  BY <1>3 DEF ReceiptsTellTheTruth
<1>5. QED
  BY <1>1, <1>2, <1>4

\* A write to receipts that settles none anew keeps the truth of the others.
LEMMA ReceiptWrite ==
    ASSUME IInv, receipts' \in [Mails -> [Regs -> Receipt]],
           \A s \in Mails, r \in Regs :
               \/ receipts'[s][r] = receipts[s][r]
               \/ receipts'[s][r] \notin Settled
               \/ receipts'[s][r] = "queued" /\ handed[s][r] > 0
               \/ receipts'[s][r] = "dropped" /\ \E d \in dates : d <= now,
           UNCHANGED <<handed, now, dates>>
    PROVE  ReceiptsTellTheTruth'
  BY DEF IInv, ReceiptsTellTheTruth, Settled

LEMMA SettleDoes ==
    ASSUME IInv, NEW p \in Passes, NEW s \in Mails, NEW r \in Regs,
           NEW outcome \in Settled, Settle(p, s, r, outcome)
    PROVE  /\ receipts' \in [Mails -> [Regs -> Receipt]]
           /\ receipts[s][r] \in Settled => receipts' = receipts
           /\ receipts'[s][r] \in {receipts[s][r], outcome}
           /\ \A q \in Mails, u \in Regs : q # s \/ u # r => receipts'[q][u] = receipts[q][u]
  BY DEF IInv, TypeOK, Settle, Settled, Receipt

\* The delete of a propagation takes the receipts it has doomed, and settles none.
LEMMA PropagateKeeps ==
    ASSUME IInv, NEW p \in Passes, PropagateDelete(p)
    PROVE  IInv' /\ \A s \in Mails, r \in Regs :
              \/ receipts'[s][r] = receipts[s][r]
              \/ receipts'[s][r] = "missing" /\ <<s, r>> \in walk[p].doomed
<1> USE DEF IInv
<1> DEFINE doomed == walk[p].doomed
           lost(q) == {r \in walk[q].batch : <<walk[q].mail, r>> \in doomed}
<1>1. /\ pc[p] = "propagate"
      /\ receipts' = [s \in Mails |->
             [r \in Regs |-> IF <<s, r>> \in doomed THEN "missing" ELSE receipts[s][r]]]
      /\ walk' = [q \in Passes |-> [walk[q] EXCEPT !.doomed = @ \ doomed,
                                                   !.gone = @ \cup lost(q)]]
      /\ pc' = [pc EXCEPT ![p] = "claim"]
      /\ UNCHANGED <<registrations, now, date_end, dates, cancelled, mails, handed, crashes>>
  BY DEF PropagateDelete, Goto, event, clock
<1>2. \A s \in Mails, r \in Regs :
        \/ receipts'[s][r] = receipts[s][r]
        \/ receipts'[s][r] = "missing" /\ <<s, r>> \in doomed
  BY <1>1
<1>3. receipts' \in [Mails -> [Regs -> Receipt]]
  BY <1>1 DEF TypeOK, Receipt
<1>4. ASSUME NEW q \in Passes
      PROVE  /\ walk'[q] \in Walk
             /\ walk'[q].mail = walk[q].mail /\ walk'[q].reg = walk[q].reg
             /\ walk'[q].date_end = walk[q].date_end
  <2>1. walk'[q] = [walk[q] EXCEPT !.doomed = walk[q].doomed \ doomed,
                                   !.gone = walk[q].gone \cup lost(q)]
    BY <1>1
  <2>2. (walk[q].doomed \ doomed) \subseteq Mails \X Regs /\ (walk[q].gone \cup lost(q)) \subseteq Regs
    BY WalkType
  <2> HIDE DEF doomed, lost
  <2>3. QED
    BY <2>1, <2>2, WalkType DEF Walk
<1>5. walk' \in [Passes -> Walk]
  BY <1>1, <1>4
<1>6. TypeOK'
  BY <1>1, <1>3, <1>5 DEF TypeOK, Labels
<1>7. WalkOK'
  <2>1. \A q \in Passes : pc'[q] # "claim" => pc'[q] = pc[q]
    BY <1>1 DEF TypeOK
  <2>2. UNCHANGED <<handed, dates>> /\ WalkOK
    BY <1>1
  <2> HIDE DEF doomed, lost, IInv
  <2>3. ASSUME NEW q \in Passes
        PROVE  /\ pc'[q] \in Labels \ {"idle", "propagate", "claim", "next", "aborted"} =>
                      walk'[q].mail \in Mails
               /\ pc'[q] \in {"read", "walk", "mark"} => walk'[q].date_end \in dates'
               /\ pc'[q] = "mark" =>
                      walk'[q].reg \in Regs /\ handed'[walk'[q].mail][walk'[q].reg] > 0
    BY <1>4, <2>1, <2>2 DEF WalkOK
  <2>4. QED
    BY <2>3 DEF WalkOK
<1>8. ReceiptsTellTheTruth'
  BY <1>1, <1>2, <1>3, ReceiptWrite DEF Settled
<1>9. QED
  BY <1>2, <1>6, <1>7, <1>8

\* What a pass does without writing a receipt or handing a message over.
LEMMA QuietKeeps ==
    ASSUME IInv, NEW p \in Passes,
           \/ PropagateRead(p) \/ ClaimDue(p) \/ StartRow(p) \/ EndPass(p) \/ Stage(p)
           \/ UniqueViolation(p) \/ ReadEvent(p) \/ ReadDue(p) \/ Fail(p) \/ BatchWalked(p) \/ RecomputeRead(p)
           \/ RecomputeWrite(p) \/ CloseRow(p) \/ Crash(p) \/ \E s \in Mails : RunById(p, s)
    PROVE  IInv' /\ receipts' = receipts
<1> USE DEF IInv
<1> DEFINE K == /\ UNCHANGED <<registrations, receipts, handed, now, date_end, dates, cancelled>>
                /\ mails' \in [Mails -> [exists : BOOLEAN, template : {"none", "live", "gone"},
                                          mail_done : BOOLEAN]]
                /\ crashes' \in 0..MaxCrashes
           Moves(w, label) == walk' = [walk EXCEPT ![p] = w] /\ pc' = [pc EXCEPT ![p] = label]
<1>1. \A w \in Walk, label \in Labels \ {"mark"} :
        /\ K /\ Moves(w, label)
        /\ label \notin {"idle", "propagate", "claim", "next", "aborted"} => w.mail \in Mails
        /\ label \in {"read", "walk"} => w.date_end \in dates
        => IInv' /\ receipts' = receipts
  BY MoveKeeps
<1>2. /\ mails \in [Mails -> [exists : BOOLEAN, template : {"none", "live", "gone"},
                              mail_done : BOOLEAN]]
      /\ crashes \in 0..MaxCrashes /\ pc \in [Passes -> Labels] /\ walk \in [Passes -> Walk]
      /\ pc[p] \in Labels \ {"idle", "propagate", "claim", "next", "aborted"} =>
            walk[p].mail \in Mails
      /\ pc[p] \in {"read", "walk"} => walk[p].date_end \in dates
      /\ date_end \in dates /\ dates \subseteq Dates
  BY DEF TypeOK, WalkOK
<1>3. walk = [walk EXCEPT ![p] = walk[p]] /\ pc = [pc EXCEPT ![p] = pc[p]]
  BY <1>2
<1>4. CASE ClaimDue(p)
  <2> DEFINE claimed == {s \in Mails : ~cancelled /\ Claimable(s)}
             w == [walk[p] EXCEPT !.todo = claimed,
                                  !.templated = {s \in claimed : mails[s].template # "none"}]
  <2>1. w \in Walk
    BY WalkType DEF Walk
  <2>2. Moves(w, "next") /\ K
    BY <1>2, <1>4 DEF ClaimDue, Goto, event, clock
  <2>3. QED
    BY <1>1, <2>1, <2>2 DEF Labels
<1>5. CASE StartRow(p)
  <2>1. PICK s \in walk[p].todo :
          \/ /\ walk' = [walk EXCEPT ![p].todo = @ \ {s}, ![p].templated = @ \ {s},
                                     ![p].mail = s]
             /\ Goto(p, "stage")
          \/ /\ walk' = [walk EXCEPT ![p].todo = @ \ {s}]
             /\ UNCHANGED pc
    BY <1>5 DEF StartRow
  <2> DEFINE v == [walk[p] EXCEPT !.todo = walk[p].todo \ {s},
                                  !.templated = walk[p].templated \ {s}, !.mail = s]
             w == [walk[p] EXCEPT !.todo = walk[p].todo \ {s}]
  <2>2. s \in Mails /\ v \in Walk /\ w \in Walk /\ v.mail = s
    BY WalkType DEF Walk
  <2>3. K /\ pc[p] = "next"
    BY <1>2, <1>5 DEF StartRow, event, clock
  <2>4. Moves(v, "stage") \/ Moves(w, "next")
    BY <1>2, <1>3, <2>1, <2>3 DEF Goto
  <2>5. QED
    BY <1>1, <2>2, <2>3, <2>4 DEF Labels
<1>6. CASE EndPass(p)
  <2>1. Moves(Idle, "idle") /\ K
    BY <1>2, <1>6 DEF EndPass, Stop, Goto, event, clock
  <2>2. QED
    BY <1>1, <2>1, IdleType DEF Labels
<1>7. CASE Stage(p)
  <2>1. PICK B \in Batches(Missing(walk[p].mail)) : walk' = [walk EXCEPT ![p].batch = B]
    BY <1>7 DEF Stage
  <2> DEFINE w == [walk[p] EXCEPT !.batch = B]
  <2>2. w \in Walk /\ w.mail = walk[p].mail /\ w.date_end = walk[p].date_end
    BY <2>1, WalkType DEF Walk, Batches, Missing
  <2>3. Moves(w, "insert") /\ K /\ w.mail \in Mails
    BY <1>2, <1>7, <2>1, <2>2 DEF Stage, Goto, event, clock
  <2>4. QED
    BY <1>1, <2>2, <2>3 DEF Labels
<1>8. CASE UniqueViolation(p)
  <2>1. Moves(walk[p], "aborted") /\ K
    BY <1>2, <1>3, <1>8 DEF UniqueViolation, Goto, event, clock
  <2>2. QED
    BY <1>1, <1>2, <2>1 DEF Labels
<1>9. CASE ReadDue(p)
  <2>1. PICK B \in Batches(Due(walk[p].mail)) :
          /\ walk' = [walk EXCEPT ![p].batch = B, ![p].gone = {},
                                  ![p].full = (Cardinality(B) = Batch)]
          /\ Goto(p, IF B = {} THEN "recompute" ELSE "walk")
    BY <1>9 DEF ReadDue
  <2> DEFINE w == [walk[p] EXCEPT !.batch = B, !.gone = {}, !.full = (Cardinality(B) = Batch)]
             label == IF B = {} THEN "recompute" ELSE "walk"
  <2>2. w \in Walk /\ w.mail = walk[p].mail /\ w.date_end = walk[p].date_end
    BY <2>1, WalkType DEF Walk, Batches, Due
  <2>3. Moves(w, label) /\ K /\ w.mail \in Mails /\ w.date_end \in dates
    BY <1>2, <1>9, <2>1, <2>2 DEF ReadDue, Goto, event, clock, Labels
  <2>4. label \in Labels \ {"mark"}
    BY DEF Labels
  <2>5. QED
    BY <1>1, <2>2, <2>3, <2>4
<1>10. CASE Fail(p)
  <2>1. PICK r \in walk[p].batch : walk' = [walk EXCEPT ![p].batch = @ \ {r}]
    BY <1>10 DEF Fail
  <2> DEFINE w == [walk[p] EXCEPT !.batch = walk[p].batch \ {r}]
  <2>2. w \in Walk /\ w.mail = walk[p].mail /\ w.date_end = walk[p].date_end
    BY WalkType DEF Walk
  <2>3. Moves(w, "walk") /\ K /\ w.mail \in Mails /\ w.date_end \in dates
    BY <1>2, <1>3, <1>10, <2>1, <2>2 DEF Fail, event, clock, Labels
  <2>4. QED
    BY <1>1, <2>2, <2>3 DEF Labels
<1>11. CASE BatchWalked(p)
  <2> DEFINE w == [walk[p] EXCEPT !.full = FALSE, !.gone = {}]
             label == IF walk[p].full THEN "read" ELSE "recompute"
  <2>1. w \in Walk /\ w.mail = walk[p].mail /\ w.date_end = walk[p].date_end
    BY WalkType DEF Walk
  <2>2. Moves(w, label) /\ K /\ w.mail \in Mails /\ w.date_end \in dates
    BY <1>2, <1>11, <2>1 DEF BatchWalked, Goto, event, clock, Labels
  <2>3. label \in Labels \ {"mark"}
    BY DEF Labels
  <2>4. QED
    BY <1>1, <2>1, <2>2, <2>3
<1>12. CASE RecomputeRead(p)
  <2> DEFINE found == mails[walk[p].mail].exists => Unreached(walk[p].mail) = {}
             w == [walk[p] EXCEPT !.done = found]
  <2>1. w \in Walk /\ w.mail = walk[p].mail /\ w.date_end = walk[p].date_end
    BY WalkType DEF Walk
  <2>2. Moves(w, "write") /\ K /\ w.mail \in Mails
    BY <1>2, <1>12, <2>1 DEF RecomputeRead, Goto, event, clock, Labels
  <2>3. QED
    BY <1>1, <2>1, <2>2 DEF Labels
<1>13. CASE RecomputeWrite(p)
  <2>1. walk[p].mail \in Mails
    BY <1>2, <1>13 DEF RecomputeWrite, Labels
  <2>2. mails' \in [Mails -> [exists : BOOLEAN, template : {"none", "live", "gone"},
                              mail_done : BOOLEAN]]
    BY <1>2, <1>13, <2>1, WalkType DEF RecomputeWrite
  <2>3. Moves(walk[p], "close") /\ K
    BY <1>2, <1>3, <1>13, <2>2 DEF RecomputeWrite, Goto, event, clock
  <2>4. QED
    BY <1>1, <1>2, <2>1, <2>3 DEF Labels
<1>14. CASE CloseRow(p)
  <2> DEFINE w == [Idle EXCEPT !.todo = walk[p].todo, !.templated = walk[p].templated]
  <2>1. w \in Walk
    BY IdleType, WalkType DEF Walk
  <2>2. Moves(w, "next") /\ K
    BY <1>2, <1>14 DEF CloseRow, Goto, event, clock
  <2>3. QED
    BY <1>1, <2>1, <2>2 DEF Labels
<1>15. CASE Crash(p)
  <2>1. crashes' \in 0..MaxCrashes
    BY <1>2, <1>15, MailSchedulerAssumption DEF Crash
  <2>2. Moves(Idle, "idle") /\ K
    BY <1>2, <1>15, <2>1 DEF Crash, Stop, Goto, event, clock
  <2>3. QED
    BY <1>1, <2>2, IdleType DEF Labels
<1>16. CASE \E s \in Mails : RunById(p, s)
  <2>1. PICK s \in Mails : RunById(p, s)
    BY <1>16
  <2> DEFINE w == [walk[p] EXCEPT !.mail = s]
  <2>2. w \in Walk /\ w.mail = s
    BY WalkType DEF Walk
  <2>3. Moves(w, "stage") /\ K
    BY <1>2, <2>1 DEF RunById, Goto, event, clock
  <2>4. QED
    BY <1>1, <2>2, <2>3 DEF Labels
<1>17. CASE PropagateRead(p)
  <2> DEFINE found == {d \in Mails \X Regs : /\ registrations[d[2]] = "cancel"
                                             /\ receipts[d[1]][d[2]] \in Unsent}
             w == [walk[p] EXCEPT !.doomed = found]
  <2>1. w \in Walk
    BY WalkType DEF Walk
  <2>2. Moves(w, "propagate") /\ K
    BY <1>2, <1>17 DEF PropagateRead, Goto, event, clock
  <2>3. QED
    BY <1>1, <2>1, <2>2 DEF Labels
<1>18. CASE ReadEvent(p)
  <2> DEFINE w == [walk[p] EXCEPT !.date_end = date_end]
  <2>1. w \in Walk /\ w.mail = walk[p].mail /\ w.date_end \in dates
    BY <1>2, WalkType DEF Walk
  <2>2. Moves(w, "read") /\ K /\ w.mail \in Mails
    BY <1>2, <1>18, <2>1 DEF ReadEvent, Goto, event, clock, Labels
  <2>3. QED
    BY <1>1, <2>1, <2>2 DEF Labels
<1>19. QED
  BY <1>17, <1>18, <1>4, <1>5, <1>6, <1>7, <1>8, <1>9, <1>10, <1>11, <1>12, <1>13, <1>14, <1>15, <1>16

\* A pass that writes receipts and moves on keeps the invariant if what it
\* settles is so.
LEMMA WritingMoveKeeps ==
    ASSUME IInv, NEW p \in Passes, NEW w \in Walk, NEW label \in {"find", "walk"},
           walk' = [walk EXCEPT ![p] = w], pc' = [pc EXCEPT ![p] = label],
           UNCHANGED <<registrations, mails, handed, now, date_end, dates, cancelled, crashes>>,
           receipts' \in [Mails -> [Regs -> Receipt]], w.mail \in Mails,
           label = "walk" => w.date_end \in dates,
           \A s \in Mails, r \in Regs :
               \/ receipts'[s][r] = receipts[s][r]
               \/ receipts'[s][r] \notin Settled
               \/ receipts'[s][r] = "queued" /\ handed[s][r] > 0
               \/ receipts'[s][r] = "dropped" /\ \E d \in dates : d <= now
    PROVE  IInv'
<1> USE DEF IInv
<1>1. TypeOK'
  BY DEF TypeOK, Labels
<1>2. WalkOK'
  BY DEF TypeOK, WalkOK
<1>3. ReceiptsTellTheTruth'
  BY ReceiptWrite
<1>4. QED
  BY <1>1, <1>2, <1>3

\* Where a pass is at work on a row.
LEMMA AtWork ==
    ASSUME IInv, NEW p \in Passes, pc[p] \in {"insert", "walk", "mark"}
    PROVE  /\ walk[p].mail \in Mails
           /\ pc[p] # "insert" => walk[p].date_end \in dates
  BY DEF IInv, WalkOK, Labels

LEMMA InsertKeeps ==
    ASSUME IInv, NEW p \in Passes, InsertReceipts(p)
    PROVE  IInv' /\ \A s \in Mails, r \in Regs :
              receipts[s][r] \in Settled => receipts'[s][r] = receipts[s][r]
<1> DEFINE m == walk[p].mail
           B == walk[p].batch
           w == [walk[p] EXCEPT !.batch = {}]
<1>1. m \in Mails /\ B \subseteq Regs /\ w \in Walk /\ w.mail = m
  BY AtWork, WalkType DEF InsertReceipts, IInv, Walk
<1>2. PICK ripe \in SUBSET B :
        receipts' = [receipts EXCEPT ![m] =
            [r \in Regs |-> IF r \in ripe THEN "due" ELSE IF r \in B THEN "later"
                                                         ELSE receipts[m][r]]]
  BY DEF InsertReceipts
<1>3. receipts' \in [Mails -> [Regs -> Receipt]]
  <2>1. [r \in Regs |-> IF r \in ripe THEN "due" ELSE IF r \in B THEN "later"
                                                     ELSE receipts[m][r]] \in [Regs -> Receipt]
    BY <1>1 DEF IInv, TypeOK, Receipt
  <2>2. QED
    BY <1>2, <2>1 DEF IInv, TypeOK
<1>4. ASSUME NEW s \in Mails, NEW r \in Regs
      PROVE  /\ \/ receipts'[s][r] = receipts[s][r]
                \/ receipts'[s][r] \notin Settled
             /\ receipts[s][r] \in Settled => receipts'[s][r] = receipts[s][r]
  <2>1. CASE s = m /\ r \in B
    <3>1. receipts[s][r] = "missing"
      BY <2>1 DEF InsertReceipts, Insertable
    <3>2. receipts'[s][r] \in {"due", "later"}
      BY <1>1, <1>2, <2>1 DEF IInv, TypeOK
    <3>3. QED
      BY <3>1, <3>2 DEF Settled
  <2>2. CASE ~(s = m /\ r \in B)
    BY <1>1, <1>2, <2>2 DEF IInv, TypeOK
  <2>3. QED
    BY <2>1, <2>2
<1>5. /\ walk' = [walk EXCEPT ![p] = w] /\ pc' = [pc EXCEPT ![p] = "find"]
      /\ UNCHANGED <<registrations, mails, handed, now, date_end, dates, cancelled, crashes>>
  BY DEF InsertReceipts, Goto, event, clock
<1>6. IInv'
  BY <1>1, <1>3, <1>4, <1>5, WritingMoveKeeps
<1>7. QED
  BY <1>4, <1>6

LEMMA DropKeeps ==
    ASSUME IInv, NEW p \in Passes, Drop(p)
    PROVE  IInv' /\ \A s \in Mails, r \in Regs :
              receipts[s][r] \in Settled => receipts'[s][r] = receipts[s][r]
<1> DEFINE m == walk[p].mail
<1>1. PICK r \in walk[p].batch : /\ Settle(p, m, r, "dropped")
                                /\ walk' = [walk EXCEPT ![p].batch = @ \ {r}]
  BY DEF Drop
<1> DEFINE w == [walk[p] EXCEPT !.batch = walk[p].batch \ {r}]
<1>2. m \in Mails /\ r \in Regs /\ w \in Walk /\ w.mail = m /\ w.date_end \in dates
  BY AtWork, WalkType DEF Drop, IInv, Walk
<1>3. /\ receipts' \in [Mails -> [Regs -> Receipt]]
      /\ receipts[m][r] \in Settled => receipts' = receipts
      /\ receipts'[m][r] \in {receipts[m][r], "dropped"}
      /\ \A q \in Mails, u \in Regs : q # m \/ u # r => receipts'[q][u] = receipts[q][u]
  BY <1>1, <1>2, SettleDoes DEF Settled
<1>4. /\ walk' = [walk EXCEPT ![p] = w] /\ pc' = [pc EXCEPT ![p] = "walk"]
      /\ \E d \in dates : d <= now
      /\ UNCHANGED <<registrations, mails, handed, now, date_end, dates, cancelled, crashes>>
  BY <1>1, AtWork DEF Drop, Over, event, clock, IInv, TypeOK
<1>5. IInv'
  BY <1>2, <1>3, <1>4, WritingMoveKeeps
<1>6. QED
  BY <1>2, <1>3, <1>5

\* The mark: the message was handed over, by this pass.
LEMMA MarkKeeps ==
    ASSUME IInv, NEW p \in Passes, Mark(p)
    PROVE  IInv' /\ \A s \in Mails, r \in Regs :
              receipts[s][r] \in Settled => receipts'[s][r] = receipts[s][r]
<1> DEFINE m == walk[p].mail
           r == walk[p].reg
           w == [walk[p] EXCEPT !.batch = walk[p].batch \ {r}, !.reg = NoReg]
<1>1. /\ m \in Mails /\ r \in Regs /\ handed[m][r] > 0
      /\ w \in Walk /\ w.mail = m /\ w.date_end \in dates
  BY AtWork, WalkType DEF Mark, IInv, WalkOK, Walk
<1>2. /\ receipts' \in [Mails -> [Regs -> Receipt]]
      /\ receipts[m][r] \in Settled => receipts' = receipts
      /\ receipts'[m][r] \in {receipts[m][r], "queued"}
      /\ \A q \in Mails, u \in Regs : q # m \/ u # r => receipts'[q][u] = receipts[q][u]
  BY <1>1, SettleDoes DEF Mark, Settled
<1>3. /\ walk' = [walk EXCEPT ![p] = w] /\ pc' = [pc EXCEPT ![p] = "walk"]
      /\ UNCHANGED <<registrations, mails, handed, now, date_end, dates, cancelled, crashes>>
  BY DEF Mark, Goto, event, clock
<1>4. IInv'
  BY <1>1, <1>2, <1>3, WritingMoveKeeps
<1>5. QED
  BY <1>1, <1>2, <1>4

LEMMA EnqueueKeeps ==
    ASSUME IInv, NEW p \in Passes, Enqueue(p)
    PROVE  IInv' /\ receipts' = receipts
<1> USE DEF IInv
<1> DEFINE m == walk[p].mail
<1>1. PICK r \in walk[p].batch :
        /\ handed' = [handed EXCEPT ![m][r] = IF @ = 2 THEN 2 ELSE @ + 1]
        /\ walk' = [walk EXCEPT ![p].reg = r]
  BY DEF Enqueue
<1>2. /\ m \in Mails /\ r \in Regs /\ handed[m][r] \in 0..2
      /\ walk[p].date_end \in dates
  BY AtWork, WalkType DEF Enqueue, TypeOK
<1>3. /\ handed' \in [Mails -> [Regs -> 0..2]] /\ handed'[m][r] > 0
      /\ \A s \in Mails, u \in Regs : handed[s][u] > 0 => handed'[s][u] > 0
  BY <1>1, <1>2 DEF TypeOK
<1>4. /\ walk' \in [Passes -> Walk] /\ walk'[p].mail = m /\ walk'[p].reg = r
      /\ walk'[p].date_end = walk[p].date_end
      /\ \A q \in Passes \ {p} : walk'[q] = walk[q]
  <2> DEFINE w == [walk[p] EXCEPT !.reg = r]
  <2>1. w \in Walk /\ w.mail = m /\ w.reg = r /\ w.date_end = walk[p].date_end
    BY <1>2, WalkType DEF Walk
  <2>2. walk \in [Passes -> Walk] /\ walk' = [walk EXCEPT ![p] = w]
    BY <1>1 DEF TypeOK
  <2> HIDE DEF w
  <2>3. QED
    BY <2>1, <2>2
<1>5. /\ pc' = [pc EXCEPT ![p] = "mark"]
      /\ UNCHANGED <<registrations, mails, receipts, now, date_end, dates, cancelled, crashes>>
  BY DEF Enqueue, Goto, event, clock
<1>6. TypeOK'
  BY <1>3, <1>4, <1>5 DEF TypeOK, Labels
<1>7. WalkOK'
  <2>1. \A q \in Passes \ {p} : WalkOK!(q)'
    BY <1>3, <1>4, <1>5 DEF WalkOK, TypeOK, Labels
  <2>2. WalkOK!(p)'
    BY <1>2, <1>3, <1>4, <1>5
  <2>3. QED
    BY <2>1, <2>2 DEF WalkOK
<1>8. ReceiptsTellTheTruth'
  BY <1>3, <1>5 DEF ReceiptsTellTheTruth
<1>9. QED
  BY <1>5, <1>6, <1>7, <1>8

LEMMA VerbsKeep ==
    ASSUME IInv, Verbs
    PROVE  IInv' /\ receipts' = receipts
<1> DEFINE Mail == [exists : BOOLEAN, template : {"none", "live", "gone"}, mail_done : BOOLEAN]
<1>1. /\ mails \in [Mails -> Mail] /\ registrations \in [Regs -> RegState]
      /\ cancelled \in BOOLEAN /\ now \in 0..MaxTime /\ now >= now
      /\ date_end \in dates /\ dates \subseteq Dates
  BY MailSchedulerAssumption DEF IInv, TypeOK
<1>2. ArmAfterSub => mails' \in [Mails -> Mail]
  <2>1. \A m \in Mail : [m EXCEPT !.mail_done = FALSE] \in Mail
    OBVIOUS
  <2>2. \A s \in Mails : mails[s] \in Mail
    BY <1>1
  <2> HIDE DEF Mail
  <2>3. QED
    BY <2>1, <2>2 DEF ArmAfterSub
<1>3. ASSUME NEW r \in Regs, Register(r)
      PROVE  IInv' /\ receipts' = receipts
  BY <1>1, <1>2, <1>3, VerbKeeps DEF Register, clock, RegState
<1>4. ASSUME NEW r \in Regs, NEW to \in OfficerStates, Transition(r, to)
      PROVE  IInv' /\ receipts' = receipts
  <2>1. registrations' \in [Regs -> RegState]
    BY <1>1, <1>4, MailSchedulerAssumption DEF Transition, RegState
  <2>2. QED
    BY <1>1, <1>2, <1>4, <2>1, VerbKeeps DEF Transition, clock
<1>5. ASSUME NEW s \in Mails, FixTemplate(s)
      PROVE  IInv' /\ receipts' = receipts
  BY <1>1, <1>5, VerbKeeps DEF FixTemplate, event, clock
<1>6. ASSUME NEW s \in Mails, TemplateDeleted(s)
      PROVE  IInv' /\ receipts' = receipts
  BY <1>1, <1>6, VerbKeeps DEF TemplateDeleted, event, clock
<1>7. CASE CancelEvent
  BY <1>1, <1>7, VerbKeeps DEF CancelEvent, clock
<1>8. ASSUME NEW d \in Dates, PatchEvent(d)
      PROVE  IInv' /\ receipts' = receipts
  BY <1>1, <1>8, VerbKeeps DEF PatchEvent
<1>9. QED
  BY <1>3, <1>4, <1>5, <1>6, <1>7, <1>8 DEF Verbs

LEMMA TimeKeeps ==
    ASSUME IInv, Time
    PROVE  IInv' /\ \A s \in Mails, r \in Regs :
              receipts[s][r] \in Settled => receipts'[s][r] = receipts[s][r]
<1>1. CASE Tick
  BY <1>1, VerbKeeps, MailSchedulerAssumption DEF Tick, IInv, TypeOK
<1>2. ASSUME NEW s \in Mails, NEW r \in Regs, FallDue(s, r)
      PROVE  IInv' /\ \A q \in Mails, u \in Regs :
                receipts[q][u] \in Settled => receipts'[q][u] = receipts[q][u]
  <2>1. /\ receipts[s][r] = "later" /\ receipts' = [receipts EXCEPT ![s][r] = "due"]
        /\ UNCHANGED <<registrations, mails, handed, now, date_end, dates, cancelled, pc, walk, crashes>>
    BY <1>2 DEF FallDue, event, clock
  <2>2. receipts' \in [Mails -> [Regs -> Receipt]]
    BY <2>1 DEF IInv, TypeOK, Receipt
  <2>3. \A q \in Mails, u \in Regs :
          /\ receipts'[q][u] = receipts[q][u] \/ receipts'[q][u] = "due"
          /\ receipts[q][u] \in Settled => receipts'[q][u] = receipts[q][u]
    BY <2>1 DEF IInv, TypeOK, Settled
  <2>4. ReceiptsTellTheTruth'
    BY <2>1, <2>2, <2>3, ReceiptWrite DEF Settled
  <2>5. TypeOK' /\ WalkOK'
    BY <2>1, <2>2 DEF IInv, TypeOK, WalkOK
  <2>6. QED
    BY <2>3, <2>4, <2>5 DEF IInv
<1>3. QED
  BY <1>1, <1>2 DEF Time

LEMMA NextKeeps ==
    ASSUME IInv, [Next]_vars
    PROVE  IInv' /\ \A s \in Mails, r \in Regs : receipts[s][r] \in Settled =>
              \/ receipts'[s][r] = receipts[s][r]
              \/ /\ receipts'[s][r] = "missing"
                 /\ \E p \in Passes : pc[p] = "propagate" /\ <<s, r>> \in walk[p].doomed
<1>1. CASE UNCHANGED vars
  BY <1>1, VerbKeeps, MailSchedulerAssumption DEF vars, clock, IInv, TypeOK
<1>2. ASSUME NEW p \in Passes, PropagateDelete(p)
      PROVE  IInv' /\ \A s \in Mails, r \in Regs :
                \/ receipts'[s][r] = receipts[s][r]
                \/ /\ receipts'[s][r] = "missing"
                   /\ pc[p] = "propagate" /\ <<s, r>> \in walk[p].doomed
  BY <1>2, PropagateKeeps DEF PropagateDelete
<1>3. ASSUME NEW p \in Passes, ~PropagateDelete(p),
             PropagateRead(p) \/ Step(p) \/ Crash(p) \/ \E s \in Mails : RunById(p, s)
      PROVE  IInv' /\ \A s \in Mails, r \in Regs :
                receipts[s][r] \in Settled => receipts'[s][r] = receipts[s][r]
  BY <1>3, QuietKeeps, InsertKeeps, DropKeeps, EnqueueKeeps, MarkKeeps DEF Step
<1>4. QED
  BY <1>1, <1>2, <1>3, VerbsKeep, TimeKeeps DEF Next, Step

LEMMA InitIInv == Init => IInv
<1> SUFFICES ASSUME Init PROVE IInv
  OBVIOUS
<1>1. TypeOK
  <2>1. registrations \in [Regs -> RegState] /\ cancelled \in BOOLEAN
    BY DEF Init, RegState
  <2>7. now \in 0..MaxTime
    BY MailSchedulerAssumption DEF Init
  <2>8. date_end \in dates /\ dates \subseteq Dates
    BY DEF Init
  <2>5. receipts \in [Mails -> [Regs -> Receipt]]
    BY DEF Init, Receipt
  <2>6. handed \in [Mails -> [Regs -> 0..2]]
    BY DEF Init
  <2>2. mails \in [Mails -> [exists : BOOLEAN, template : {"none", "live", "gone"}, mail_done : BOOLEAN]]
    BY DEF Init
  <2>3. pc \in [Passes -> Labels] /\ crashes \in 0..MaxCrashes
    BY MailSchedulerAssumption DEF Init, Labels
  <2>4. QED
    BY <2>1, <2>2, <2>3, <2>5, <2>6, <2>7, <2>8, IdleType DEF Init, TypeOK
<1>2. WalkOK /\ ReceiptsTellTheTruth
  BY DEF Init, WalkOK, ReceiptsTellTheTruth
<1>3. QED
  BY <1>1, <1>2 DEF IInv

\* For any constants, no receipt says 'queued' of a message that no queue took
\* or 'dropped' while no end the event has had is past: the walk, with the event
\* it read before, and the mark of scheduler_service.rs are statements of their
\* own, and the officer may move the end in between.
THEOREM MailSafety == Spec => []IInv
<1>1. IInv /\ [Next]_vars => IInv'
  BY NextKeeps
<1>2. QED
  BY <1>1, InitIInv, PTL DEF Spec

\* For any constants, nothing writes over the first outcome of a receipt, and
\* only a propagation whose snapshot is older than the outcome deletes it.
THEOREM OutcomeStays == Spec => OutcomeIsKept
<1>1. IInv /\ [Next]_vars => \A s \in Mails, r \in Regs : receipts[s][r] \in Settled =>
        \/ receipts'[s][r] = receipts[s][r]
        \/ /\ receipts'[s][r] = "missing"
           /\ \E p \in Passes : pc[p] = "propagate" /\ <<s, r>> \in walk[p].doomed
  BY NextKeeps
<1>2. QED
  BY <1>1, MailSafety, PTL DEF Spec, OutcomeIsKept
=============================================================================
