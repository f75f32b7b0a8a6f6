-------------------------- MODULE TableStoreProofs --------------------------
(***************************************************************************)
(* The rows of the tables, for any number of clients and any choice of     *)
(* watched columns.  The proofs are about the writers and do not look into *)
(* the layers of Schema: they hold of a table added to the catalogue too.  *)
(***************************************************************************)
EXTENDS TableStore, TLAPS

-----------------------------------------------------------------------------
(* Types, and the updates in flight                                        *)

\* What a column can hold, "nil" for a partner the officer's patch filled.
Value == {"a", "b", "broken", "null", "nil"}

TypeOK ==
    /\ watch \in Watched
    /\ row \in [status : RowState, val : Value]
    /\ parent \in RowState
    /\ loaded \in [Clients -> Value \cup {None}]

\* An update is in flight only on a table that is mounted with write routes.
LoadsAreRouted == \A k \in Clients : loaded[k] # None => Writable

StoreInv == TypeOK /\ LoadsAreRouted

\* The values that reach a layer from a body are values a column can hold.
LEMMA InputsAreValues ==
    ASSUME NEW sent \in Sent
    PROVE  /\ Missing \in Value /\ Values \subseteq Value /\ Heard(sent) \subseteq Value
           /\ sent \in Value \cup {"absent", "garbage", "wide"}
<1>1. Missing \in Value /\ Values \subseteq Value
  BY DEF Missing, Value, Values
<1>2. sent \in Value \cup {"absent", "garbage", "wide"}
  BY <1>1 DEF Sent, Value
<1>3. Heard(sent) \subseteq Value
  BY <1>2 DEF Heard, Value
<1>4. QED
  BY <1>1, <1>2, <1>3

\* The end of an update, of either kind: the row is written within the
\* constraints of the database or left alone.
LEMMA StoreWrites ==
    ASSUME TypeOK, NEW k \in Clients, NEW after \in Value, NEW step, NEW v,
           Store(k, after, step, v)
    PROVE  /\ watch' = watch /\ parent' = parent /\ TypeOK'
           /\ loaded' = [loaded EXCEPT ![k] = None]
           /\ by'.client = k /\ by'.kind \in {step, "refused"}
           /\ \/ row' = row /\ by'.kind = "refused"
              \/ /\ Database(after) /\ row.status = "live" /\ row'.status = "live"
                 /\ row'.val = IF c \in T.columns.protected THEN row.val ELSE after
                 /\ by'.kind = step /\ by'.sent = v
<1>1. watch' = watch /\ parent' = parent /\ loaded' = [loaded EXCEPT ![k] = None]
  BY DEF Store
<1>2. CASE row' = row /\ Step("refused", k, v)
  BY <1>1, <1>2 DEF Step, TypeOK
<1>3. ASSUME Database(after), row.status = "live", Step(step, k, v),
             row' = [row EXCEPT !.val = IF c \in T.columns.protected THEN @ ELSE after]
      PROVE  /\ TypeOK'
             /\ row'.status = "live"
             /\ row'.val = IF c \in T.columns.protected THEN row.val ELSE after
             /\ by'.client = k /\ by'.kind = step /\ by'.sent = v
  <2> DEFINE new == IF c \in T.columns.protected THEN row.val ELSE after
  <2>1. row' = [row EXCEPT !.val = new] /\ new \in Value
    BY <1>3 DEF TypeOK
  <2> HIDE DEF new
  <2>2. row' \in [status : RowState, val : Value] /\ row'.status = row.status /\ row'.val = new
    BY <2>1 DEF TypeOK
  <2>3. QED
    BY <1>1, <1>3, <2>2 DEF TypeOK, Step, new
<1>4. QED
  BY <1>1, <1>2, <1>3 DEF Store

\* The two updates end in it with a value.
LEMMA UpdatesStore ==
    ASSUME TypeOK, NEW k \in Clients, NEW sent \in Sent, Put(k, sent) \/ Patch(k, sent)
    PROVE  /\ loaded[k] # None
           /\ \E after \in Value : \E v :
                 \/ Store(k, after, "patch", v)
                 \/ Store(k, after, "form", v)
<1>1. loaded[k] # None
  BY DEF Put, Patch
<1>2. loaded[k] \in Value
  BY <1>1 DEF TypeOK
<1>3. CASE Put(k, sent)
  <2>1. PICK v \in IF c \in T.forms.update THEN Parsed(c \in T.forms.replaced, sent)
                   ELSE {loaded[k]} :
           Store(k, v, "form", v)
    BY <1>3 DEF Put
  <2>2. v \in Value
    <3>1. Parsed(c \in T.forms.replaced, sent) \subseteq Value
      BY InputsAreValues DEF Parsed
    <3>2. QED
      BY <1>2, <2>1, <3>1
  <2>3. QED
    BY <1>1, <2>1, <2>2
<1>4. CASE Patch(k, sent)
  <2> DEFINE v == IF c \in T.columns.patch THEN Parsed(TRUE, sent) ELSE {}
             after == IF v = {} THEN loaded[k] ELSE sent
  <2>1. Store(k, after, "patch", sent)
    BY <1>4 DEF Patch
  <2>2. Parsed(TRUE, sent) \subseteq Value
    BY InputsAreValues DEF Parsed
  <2>3. Parsed(TRUE, sent) # {} => sent \in Parsed(TRUE, sent)
    BY DEF Parsed
  <2>4. after \in Value
    BY <1>2, <2>2, <2>3
  <2> HIDE DEF after
  <2>5. QED
    BY <1>1, <2>1, <2>4
<1>5. QED
  BY <1>3, <1>4

-----------------------------------------------------------------------------
(* The writers, one by one                                                 *)

\* A generated create inserts what the guard and the database let through.
LEMMA PostWrites ==
    ASSUME TypeOK, NEW k \in Clients, NEW sent \in Sent, Post(k, sent)
    PROVE  /\ Writable /\ row.status = "absent"
           /\ UNCHANGED <<watch, parent, loaded>>
           /\ by'.client = k /\ by'.kind = "form"
           /\ \E after \in Value : /\ Database(after)
                                   /\ row' = [status |-> "live", val |-> after]
<1>1. PICK v \in IF c \in T.forms.create THEN Parsed(c \in T.forms.required, sent)
                 ELSE {Missing} :
         /\ Guard(TRUE, Missing, v) /\ Database(v)
         /\ row' = [status |-> "live", val |-> v]
         /\ Step("form", k, v)
  BY DEF Post
<1>2. v \in Value
  <2>1. Parsed(c \in T.forms.required, sent) \subseteq Value /\ Missing \in Value
    BY InputsAreValues DEF Parsed
  <2>2. QED
    BY <1>1, <2>1
<1>3. QED
  BY <1>1, <1>2 DEF Post, Step

\* What a form or a statement that passes the guard by can do to the row.
UnguardedWrite ==
    \E after \in Value : /\ Database(after)
                         /\ row'.val = after /\ row' \in [status : RowState, val : Value]
                         /\ UNCHANGED <<watch, parent, loaded>>

LEMMA OfficerPostWrites ==
    ASSUME TypeOK, NEW sent \in Sent, OfficerPost(sent)
    PROVE  /\ UnguardedWrite /\ row.status = "absent"
           /\ by'.client = None /\ by'.kind = "officer"
<1>1. PICK v \in IF c \in CreateForm[t] THEN Heard(sent) ELSE {"null"} :
         /\ Database(COALESCE(v, Missing))
         /\ row' = [status |-> "live", val |-> COALESCE(v, Missing)]
  BY DEF OfficerPost
<1>2. COALESCE(v, Missing) \in Value
  <2>1. v \in Value
    BY <1>1, InputsAreValues DEF Value
  <2>2. QED
    BY <2>1, InputsAreValues DEF COALESCE
<1>3. row' \in [status : RowState, val : Value] /\ row'.val = COALESCE(v, Missing)
  BY <1>1, <1>2 DEF RowState
<1>4. QED
  BY <1>1, <1>2, <1>3 DEF UnguardedWrite, OfficerPost, Step

\* The column after the UPDATE of a patch or a sync.
Patched(v) ==
    IF c \in PatchForm[t].sets THEN COALESCE(v, row.val)
    ELSE IF c \in PatchForm[t].fills THEN COALESCE(row.val, v) ELSE row.val

LEMMA ApplyWrites ==
    ASSUME TypeOK, NEW v \in Value, NEW sent, Apply(v, sent)
    PROVE  /\ UnguardedWrite /\ row.status # "absent"
           /\ row' = [row EXCEPT !.val = Patched(v)]
           /\ row'.status = row.status /\ row'.val = Patched(v)
           /\ by'.client = None /\ by'.kind = "officer" /\ by'.sent = sent
<1>1. Patched(v) \in Value
  BY DEF TypeOK, Patched, COALESCE
<1>2. Database(Patched(v)) /\ row' = [row EXCEPT !.val = Patched(v)]
  BY DEF Apply, Patched
<1>3. row' \in [status : RowState, val : Value] /\ row'.val = Patched(v)
      /\ row'.status = row.status
  BY <1>1, <1>2 DEF TypeOK
<1>4. QED
  BY <1>1, <1>2, <1>3 DEF UnguardedWrite, Apply, Step

\* A patch and a sync apply a value the body was heard to name, "nil" for a
\* partner that a patch does not name.
LEMMA OfficerApplies ==
    ASSUME NEW sent \in Sent, OfficerPatch(sent) \/ Sync(sent)
    PROVE  \E v \in Value :
              /\ Apply(v, sent)
              /\ sent = "absent" => v = "null" \/ watch = <<"registration", "partner_id">>
<1>1. Heard(sent) \subseteq Value /\ (sent = "absent" => Heard(sent) = {"null"})
  BY InputsAreValues DEF Heard
<1>2. CASE OfficerPatch(sent)
  <2>1. PICK v \in Heard(sent) :
           Apply(IF watch = <<"registration", "partner_id">> THEN COALESCE(v, "nil") ELSE v, sent)
    BY <1>2 DEF OfficerPatch
  <2>2. COALESCE(v, "nil") \in Value
    BY <1>1 DEF COALESCE, Value
  <2>3. QED
    BY <1>1, <2>1, <2>2
<1>3. CASE Sync(sent)
  BY <1>1, <1>3 DEF Sync
<1>4. QED
  BY <1>2, <1>3

LEMMA VerbWrites ==
    ASSUME NEW v \in Values, TypeOK, Verb(v)
    PROVE  UnguardedWrite /\ by'.client = None /\ by'.kind = "verb"
<1>1. v \in Value
  BY DEF Values, Value
<1>2. row' \in [status : RowState, val : Value] /\ row'.val = v
  BY <1>1 DEF TypeOK, Verb, RowState
<1>3. QED
  BY <1>1, <1>2 DEF UnguardedWrite, Verb, Step

-----------------------------------------------------------------------------
(* The row is well typed and its updates came through a route              *)

\* A step of a client that is not an update, and the other steps that leave
\* the value of the row or remove the row.
Moves ==
    \/ \E k \in Clients : Load(k) \/ Delete(k) \/ Restore(k) \/ Purge(k)
    \/ VerbDelete
    \/ \E s \in RowState : ParentStep(s)

\* The steps of Next, with the updates reduced to what they write.
LEMMA StepCases ==
    ASSUME TypeOK, Next
    PROVE  \/ Moves
           \/ \E k \in Clients, sent \in Sent : Post(k, sent)
           \/ \E k \in Clients, sent \in Sent : Put(k, sent) \/ Patch(k, sent)
           \/ \E sent \in Sent : OfficerPost(sent)
           \/ \E sent \in Sent : OfficerPatch(sent) \/ Sync(sent)
           \/ \E v \in Values : Verb(v)
  BY DEF Next, Moves

LEMMA MovesKeepTypes == ASSUME TypeOK, Moves PROVE TypeOK' /\ watch' = watch
<1>1. ASSUME NEW k \in Clients, Load(k)
      PROVE  TypeOK' /\ watch' = watch
  BY <1>1 DEF TypeOK, Load
<1>2. ASSUME NEW k \in Clients, Delete(k) \/ Restore(k)
      PROVE  TypeOK' /\ watch' = watch
  BY <1>2 DEF TypeOK, Delete, Restore, RowState
<1>3. ASSUME row' = [status |-> "absent", val |-> Missing], UNCHANGED <<watch, parent, loaded>>
      PROVE  TypeOK' /\ watch' = watch
  <2>1. Missing \in Value
    BY DEF Missing, Value
  <2>2. QED
    BY <1>3, <2>1 DEF TypeOK, RowState
<1>4. ASSUME NEW s \in RowState, ParentStep(s)
      PROVE  TypeOK' /\ watch' = watch
  BY <1>4 DEF TypeOK, ParentStep
<1>5. QED
  BY <1>1, <1>2, <1>3, <1>4 DEF Moves, Purge, VerbDelete

LEMMA UnguardedKeepsTypes ==
    ASSUME TypeOK, UnguardedWrite PROVE TypeOK' /\ watch' = watch /\ loaded' = loaded
  BY DEF TypeOK, UnguardedWrite

\* A client that has an entity loaded has it since a step of a write route.
LEMMA NextStoreInv == StoreInv /\ [Next]_vars => StoreInv' /\ watch' = watch
<1> SUFFICES ASSUME TypeOK, LoadsAreRouted, [Next]_vars
             PROVE  TypeOK' /\ LoadsAreRouted' /\ watch' = watch
  BY DEF StoreInv
<1>1. ASSUME watch' = watch, \A k \in Clients : loaded'[k] # None =>
                loaded[k] # None \/ Writable
      PROVE  LoadsAreRouted'
  BY <1>1 DEF LoadsAreRouted, Writable, t
<1>2. CASE Moves
  <2>1. \A k \in Clients : loaded'[k] # None => loaded[k] # None \/ Writable
    BY <1>2 DEF Moves, TypeOK, Load, Delete, Restore, Purge, VerbDelete, ParentStep
  <2>2. QED
    BY <1>1, <1>2, <2>1, MovesKeepTypes
<1>3. ASSUME NEW k \in Clients, NEW sent \in Sent, Post(k, sent)
      PROVE  TypeOK' /\ LoadsAreRouted' /\ watch' = watch
  <2>1. /\ UNCHANGED <<watch, parent, loaded>>
        /\ \E after \in Value : row' = [status |-> "live", val |-> after]
    BY <1>3, PostWrites
  <2>2. TypeOK'
    BY <2>1 DEF TypeOK, RowState
  <2>3. QED
    BY <1>1, <2>1, <2>2
<1>4. ASSUME NEW k \in Clients, NEW sent \in Sent, Put(k, sent) \/ Patch(k, sent)
      PROVE  TypeOK' /\ LoadsAreRouted' /\ watch' = watch
  <2>1. PICK after \in Value : \E v, step : Store(k, after, step, v)
    BY <1>4, UpdatesStore
  <2>2. watch' = watch /\ TypeOK' /\ loaded' = [loaded EXCEPT ![k] = None]
    BY <2>1, StoreWrites
  <2>3. QED
    BY <1>1, <2>2 DEF TypeOK
<1>5. CASE UnguardedWrite
  BY <1>1, <1>5, UnguardedKeepsTypes
<1>6. CASE UNCHANGED vars
  BY <1>1, <1>6 DEF TypeOK, vars
<1>7. ASSUME NEW sent \in Sent, OfficerPatch(sent) \/ Sync(sent)
      PROVE  UnguardedWrite
  BY <1>7, OfficerApplies, ApplyWrites
<1>8. QED
  BY <1>2, <1>3, <1>4, <1>5, <1>6, <1>7, StepCases, OfficerPostWrites, VerbWrites

LEMMA InitStoreInv == Init => StoreInv
<1> SUFFICES ASSUME Init PROVE StoreInv
  OBVIOUS
<1>1. Missing \in Value
  BY DEF Missing, Value
<1>2. TypeOK
  BY <1>1 DEF Init, TypeOK, RowState
<1>3. LoadsAreRouted
  BY DEF Init, LoadsAreRouted
<1>4. QED
  BY <1>2, <1>3 DEF StoreInv

\* Whatever the bodies hold, every stored and every loaded value is one the
\* column can hold, and an update in flight is on a table with write routes.
THEOREM StoreSafety == Spec => []StoreInv
<1>1. StoreInv /\ [Next]_vars => StoreInv'
  BY NextStoreInv
<1>2. QED
  BY InitStoreInv, <1>1, PTL DEF Spec

-----------------------------------------------------------------------------
(* The declared rules                                                      *)

\* The rules as a statement about a value and the row it refers to.
Keeps(v, p) == v # "broken" /\ (IsKey /\ v = "a" => p # "absent")

LEMMA RulesAreKeeps ==
    ASSUME watch' = watch
    PROVE  /\ RulesHold <=> (row.status # "absent" => Keeps(row.val, parent))
           /\ RulesHold' <=> (row'.status # "absent" => Keeps(row'.val, parent'))
  BY DEF RulesHold, Keeps, IsKey, T, t, c

LEMMA MovesKeepRules == ASSUME TypeOK, RulesHold, Moves PROVE RulesHold'
<1> USE DEF Keeps
<1>1. ASSUME NEW k \in Clients, Load(k)
      PROVE  RulesHold'
  BY <1>1, RulesAreKeeps DEF Load
<1>2. ASSUME NEW k \in Clients, Delete(k) \/ Restore(k)
      PROVE  RulesHold'
  <2>1. /\ watch' = watch /\ parent' = parent
        /\ row.status # "absent" /\ row'.val = row.val
    BY <1>2 DEF Delete, Restore, TypeOK
  <2>2. QED
    BY <2>1, RulesAreKeeps
<1>3. ASSUME row'.status = "absent", watch' = watch
      PROVE  RulesHold'
  BY <1>3, RulesAreKeeps
<1>4. ASSUME NEW s \in RowState, ParentStep(s)
      PROVE  RulesHold'
  <2>1. watch' = watch /\ row' = row /\ parent' = s
    BY <1>4 DEF ParentStep
  <2>2. s = "absent" => row.status = "absent" \/ row.val # "a"
    BY <1>4 DEF ParentStep, Unreferenced
  <2>3. QED
    BY <2>1, <2>2, RulesAreKeeps
<1>5. QED
  BY <1>1, <1>2, <1>3, <1>4 DEF Moves, Purge, VerbDelete

\* A value the database let in keeps the rules: it repeats every one of them.
LEMMA DatabaseKeeps ==
    ASSUME NEW v, Database(v)
    PROVE  Keeps(v, parent)
  BY DEF Database, Keeps

LEMMA NextRulesHold ==
    ASSUME StoreInv, RulesHold, [Next]_vars
    PROVE  RulesHold'
<1>1. TypeOK /\ watch' = watch
  BY NextStoreInv DEF StoreInv, TypeOK
<1>2. ASSUME NEW after \in Value, Database(after), row'.val = after, parent' = parent
      PROVE  RulesHold'
  BY <1>1, <1>2, DatabaseKeeps, RulesAreKeeps
<1>3. CASE Moves
  BY <1>1, <1>3, MovesKeepRules
<1>4. ASSUME NEW k \in Clients, NEW sent \in Sent, Post(k, sent)
      PROVE  RulesHold'
  <2>1. PICK after \in Value : Database(after) /\ row' = [status |-> "live", val |-> after]
    BY <1>1, <1>4, PostWrites
  <2>2. parent' = parent
    BY <1>1, <1>4, PostWrites
  <2>3. QED
    BY <1>2, <2>1, <2>2
<1>5. ASSUME NEW k \in Clients, NEW sent \in Sent, Put(k, sent) \/ Patch(k, sent)
      PROVE  RulesHold'
  <2>1. PICK after \in Value : \E v, step : Store(k, after, step, v)
    BY <1>1, <1>5, UpdatesStore
  <2>2. /\ parent' = parent
        /\ \/ row' = row
           \/ /\ Database(after) /\ row.status = "live" /\ row'.status = "live"
              /\ row'.val \in {row.val, after}
    BY <1>1, <2>1, StoreWrites
  <2>3. QED
    BY <1>1, <1>2, <2>2, RulesAreKeeps
<1>6. CASE UnguardedWrite
  BY <1>2, <1>6 DEF UnguardedWrite
<1>7. ASSUME NEW sent \in Sent, OfficerPatch(sent) \/ Sync(sent)
      PROVE  UnguardedWrite
  BY <1>1, <1>7, OfficerApplies, ApplyWrites
<1>8. CASE UNCHANGED vars
  BY <1>1, <1>8, RulesAreKeeps DEF vars
<1>9. QED
  BY <1>1, <1>3, <1>4, <1>5, <1>6, <1>7, <1>8, StepCases, OfficerPostWrites, VerbWrites

\* No writer, behind a guard or not, leaves a row that breaks a declared rule or
\* refers to a row that is gone: the soft delete, the trash and the deletions
\* at the other end of a reference included.
THEOREM RulesAlwaysHold == Spec => []RulesHold
<1>1. Init => RulesHold
  BY DEF Init, RulesHold
<1>2. StoreInv /\ RulesHold /\ [Next]_vars => RulesHold'
  BY NextRulesHold
<1>3. QED
  BY StoreSafety, <1>1, <1>2, PTL DEF Spec

-----------------------------------------------------------------------------
(* Who moves a row                                                         *)

\* The table of a state column has no write route.
LEMMA StateTablesAreReadOnly ==
    ASSUME watch \in StateColumns
    PROVE  /\ t \notin FullRoutes
           /\ t \in DOMAIN PatchForm => c \notin PatchForm[t].sets \cup PatchForm[t].fills
<1>1. t \in {"booth", "question", "registration", "event"}
  BY DEF StateColumns, t
<1>2. t \notin FullRoutes
  BY <1>1 DEF FullRoutes
<1>3. CASE t = "question"
  BY <1>2, <1>3 DEF PatchForm
<1>4. CASE t = "event"
  <2>1. c \in {"kanban_state", "is_published", "date_publish"}
    BY <1>4 DEF StateColumns, t, c
  <2>2. PatchForm[t] = PatchEventForm
    BY <1>4 DEF PatchForm
  <2>3. QED
    BY <1>2, <2>1, <2>2 DEF PatchEventForm, CreateEventForm
<1>5. CASE t = "registration"
  <2>1. c \in {"state", "active", "sale_status"}
    BY <1>5 DEF StateColumns, t, c
  <2>2. PatchForm[t] = PatchRegistrationForm
    BY <1>5 DEF PatchForm
  <2>3. QED
    BY <1>2, <2>1, <2>2 DEF PatchRegistrationForm
<1>6. CASE t = "booth"
  <2>1. c \in {"state", "is_paid", "sale_order_line_id"}
    BY <1>6 DEF StateColumns, t, c
  <2>2. PatchForm[t] = PatchBoothForm
    BY <1>6 DEF PatchForm
  <2>3. QED
    BY <1>2, <2>1, <2>2 DEF PatchBoothForm
<1>7. QED
  BY <1>1, <1>3, <1>4, <1>5, <1>6

LEMMA StateStep ==
    ASSUME StoreInv, [Next]_vars, watch \in StateColumns,
           row.status # "absent", row'.status # "absent", row'.val # row.val
    PROVE  by'.kind = "verb"
<1>1. TypeOK /\ t \notin FullRoutes
  BY StateTablesAreReadOnly DEF StoreInv
<1>2. ~Writable /\ \A k \in Clients : loaded[k] = None
  BY <1>1 DEF StoreInv, LoadsAreRouted, Writable
<1>3. ~\E k \in Clients, sent \in Sent : Post(k, sent) \/ Put(k, sent) \/ Patch(k, sent)
  BY <1>2 DEF Post, Put, Patch
<1>4. ~Moves
  BY <1>1, <1>2 DEF Moves, Load, Delete, Restore, Purge, VerbDelete, ParentStep
<1>5. ~\E sent \in Sent : OfficerPost(sent)
  BY DEF OfficerPost
<1>6. ASSUME NEW sent \in Sent, OfficerPatch(sent) \/ Sync(sent)
      PROVE  FALSE
  <2>1. t \in DOMAIN PatchForm
    BY <1>6 DEF OfficerPatch, Sync, PatchForm
  <2>2. \E v \in Value : row'.val = Patched(v)
    BY <1>1, <1>6, OfficerApplies, ApplyWrites
  <2>3. QED
    BY <2>1, <2>2, StateTablesAreReadOnly DEF Patched
<1>7. row' # row
  OBVIOUS
<1>8. QED
  BY <1>1, <1>3, <1>4, <1>5, <1>6, <1>7, StepCases, VerbWrites DEF vars

\* The state columns of a registration, an event, a booth and a question move
\* by the verbs only, through every sequence of requests and forms.
THEOREM StateMovesOnlyByVerb == Spec => StateMovesByVerb
<1>1. ASSUME StoreInv, [Next]_vars
      PROVE  (/\ watch \in StateColumns
              /\ row.status # "absent" /\ row'.status # "absent"
              /\ row'.val # row.val) => by'.kind = "verb"
  BY <1>1, StateStep
<1>2. QED
  BY StoreSafety, <1>1, PTL DEF Spec, StateMovesByVerb

LEMMA UnnamedStep ==
    ASSUME StoreInv, [Next]_vars, watch # <<"registration", "partner_id">>,
           by'.kind = "officer", by'.sent = "absent", row.status # "absent"
    PROVE  row' = row
<1>1. TypeOK
  BY DEF StoreInv
<1>2. ASSUME NEW sent \in Sent, OfficerPatch(sent) \/ Sync(sent)
      PROVE  row' = row
  <2>1. PICK v \in Value : Apply(v, sent) /\ (sent = "absent" => v = "null")
    BY <1>2, OfficerApplies
  <2>2. row' = [row EXCEPT !.val = Patched(v)] /\ sent = "absent"
    BY <1>1, <2>1, ApplyWrites
  <2>3. Patched(v) = row.val
    BY <2>1, <2>2 DEF Patched, COALESCE
  <2>4. row' = [row EXCEPT !.val = row.val]
    BY <2>2, <2>3
  <2>5. QED
    BY <1>1, <2>4 DEF TypeOK
<1>3. ~\E sent \in Sent : OfficerPost(sent)
  BY DEF OfficerPost
<1>4. ASSUME NEW k \in Clients, NEW sent \in Sent, Post(k, sent) \/ Put(k, sent) \/ Patch(k, sent)
      PROVE  by'.kind # "officer"
  BY <1>1, <1>4, PostWrites, UpdatesStore, StoreWrites
<1>5. Moves => by'.kind # "officer"
  BY DEF Moves, Load, Delete, Restore, Purge, VerbDelete, ParentStep, Step
<1>6. QED
  BY <1>1, <1>2, <1>3, <1>4, <1>5, StepCases, VerbWrites DEF vars

\* A form of the officer leaves alone what its body does not name, but for the
\* partner of a registration, which a patch that does not name it fills.
THEOREM UnnamedStays ==
    <<"registration", "partner_id">> \notin Watched => (Spec => OnlyNamedMoves)
<1> SUFFICES ASSUME <<"registration", "partner_id">> \notin Watched
             PROVE  Spec => OnlyNamedMoves
  OBVIOUS
<1>1. ASSUME StoreInv, [Next]_vars
      PROVE  by'.kind = "officer" /\ by'.sent = "absent" /\ row.status # "absent" => row' = row
  <2>1. watch # <<"registration", "partner_id">>
    BY <1>1 DEF StoreInv, TypeOK
  <2>2. QED
    BY <1>1, <2>1, UnnamedStep
<1>2. QED
  BY StoreSafety, <1>1, PTL DEF Spec, OnlyNamedMoves

=============================================================================
