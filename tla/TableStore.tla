----------------------------- MODULE TableStore -----------------------------
(***************************************************************************)
(* The generated routes of every table over the layers of Schema, next to  *)
(* the hand-written statements that write the same rows.                   *)
(*                                                                         *)
(* A behaviour watches one column of one row of one table and, when the    *)
(* column is a reference, the row it refers to; the initial states are all *)
(* the columns of all the tables.  A value is "a" or "b" (two that keep    *)
(* the declared rules; the hand-set constant and the defaults are "a"),    *)
(* "broken" (one that parses and breaks a rule), "null" or "nil" (the      *)
(* all-zero uuid).  A request may also leave the field out, send "garbage", *)
(* which does not parse, or an integer too "wide" for 32 bits.             *)
(*                                                                         *)
(* What backbone-core and backbone-orm do between the layers is external:  *)
(* a create converts, asks the guard and inserts; an update loads the      *)
(* entity, changes it, asks the guard with the entity before and after and *)
(* writes the whole entity back, if the row is still live; another request *)
(* or a verb may come between the load and the write.                      *)
(***************************************************************************)
EXTENDS Schema

CONSTANTS
    Clients,        \* all hold every permission
    Watched,        \* pairs of a table and a column
    None

ASSUME TableStoreAssumption ==
    /\ None \notin Clients
    /\ \A w \in Watched : w[1] \in DOMAIN Catalogue /\ w[2] \in Catalogue[w[1]].columns.all

VARIABLES
    watch,      \* the table and the column
    row,        \* whether the row is there, and the value of the column
    parent,     \* whether the row that "a" refers to is there
    loaded,     \* of each client: the value its update has loaded
    by          \* who took the last step, and with what

vars == <<watch, row, parent, loaded, by>>

t == watch[1]
c == watch[2]
T == Catalogue[t]

RowState == {"absent", "live", "trashed"}
Nullable == c \in T.columns.nullable
IsKey == \E k \in T.columns.keys : k[1] = c
Referred == CHOOSE u \in DOMAIN Catalogue : <<c, u>> \in T.columns.keys
Ruled == c \in T.rules.ruled

\* Of the columns in the officer's forms, the instants and the integers.
Times  == {"date_begin", "date_end"}
Counts == {"event_slot_count", "seats_max"}

Values == {"a", "b"} \cup (IF Nullable THEN {"null"} ELSE {}) \cup (IF Ruled THEN {"broken"} ELSE {})
Sent == Values \cup {"absent", "null", "garbage"} \cup (IF c \in Counts THEN {"wide"} ELSE {})

\* What a column that nobody gives a value holds.
Missing == IF Nullable THEN "null" ELSE "a"

Nobody == [kind |-> "none", client |-> None, sent |-> "absent"]
Step(kind, k, sent) == by' = [kind |-> kind, client |-> k, sent |-> sent]

-----------------------------------------------------------------------------
(* The surface, the guard and the database                                 *)

\* The registrations are mounted with their write routes.
FullRoutes_Broken ==
    {"booth_category", "type_booth", "event_type", "mail_registration", "mail_slot",
     "question_answer", "registration_question", "registration_answer", "registration",
     "slot", "stage", "tag_category", "tag", "ticket", "type_mail"}

\* The tables lib.rs mounts with their write routes; the others are read only.
FullRoutes ==
    {"booth_category", "type_booth", "event_type", "mail_registration", "mail_slot",
     "question_answer", "registration_question", "registration_answer", "slot", "stage",
     "tag_category", "tag", "ticket", "type_mail"}

Writable == t \in FullRoutes

\* The columns a hand-written statement other than the officer's forms updates,
\* of the tables it inserts into or updates.  None writes the questions.
EventMoves == {"stage_id", "kanban_state", "is_published", "date_publish"}
RegistrationMoves == {"state", "date_closed", "sale_order_state", "sale_status"}
BoothMoves == {"state", "sale_order_line_id", "is_paid", "partner_id", "contact_name",
               "contact_email", "contact_phone"}
MailMoves == {"scheduled_date", "mail_done", "last_registration_id", "error_kind",
              "error_datetime"}
ReceiptMoves == {"mail_sent", "outcome"}
RuleMoves == {"name", "event_id", "active"}
RequestMoves == {"done", "error_detail", "claimed_at"}

Moved == [
    event |-> EventMoves, registration |-> RegistrationMoves, booth |-> BoothMoves,
    booth_booking |-> {"status"}, mail |-> MailMoves, mail_registration |-> ReceiptMoves,
    lead_rule |-> RuleMoves, lead_rule_predicate |-> {}, lead_request |-> RequestMoves,
    lead_provenance |-> {"lead_id"}, lead_provenance_registration |-> {}, stage |-> {}]

\* The tables with rows that a hand-written statement deletes.
Deleted == {"booth", "booth_booking", "mail", "mail_registration", "type_mail"}

\* The rules see the columns a request changed, a create all of them.
Guard(create, before, after) ==
    /\ (create \/ before # after) /\ Ruled => after # "broken"
    /\ ~create /\ c \in T.rules.machine => before = after

\* The checks were left out of the migrations.
Database_Broken(v) == IsKey /\ v = "a" => parent # "absent"

\* Every declared rule is a CHECK as well, every reference a foreign key.
Database(v) ==
    /\ v # "broken"
    /\ IsKey /\ v = "a" => parent # "absent"

-----------------------------------------------------------------------------
(* Requests                                                                *)

\* What a field of a form becomes; nothing when the body does not parse.
Parsed(needed, sent) ==
    IF sent \in {"garbage", "wide"} \/ (sent = "null" /\ ~Nullable) \/ (sent = "absent" /\ needed) THEN {}
    ELSE {IF sent = "absent" THEN Missing ELSE sent}

Post(k, sent) ==
    /\ Writable /\ row.status = "absent"
    /\ \E v \in IF c \in T.forms.create THEN Parsed(c \in T.forms.required, sent) ELSE {Missing} :
          /\ Guard(TRUE, Missing, v) /\ Database(v)
          /\ row' = [status |-> "live", val |-> v]
          /\ Step("form", k, v)
    /\ UNCHANGED <<watch, parent, loaded>>

Load(k) ==
    /\ loaded[k] = None /\ Writable /\ row.status = "live"
    /\ loaded' = [loaded EXCEPT ![k] = row.val]
    /\ Step("load", k, "absent")
    /\ UNCHANGED <<watch, row, parent>>

\* The guard, then the entity as it was loaded and changed, over whatever the
\* row is now; the columns the generic layer may not write are left alone.
Store(k, after, step, v) ==
    /\ IF Guard(FALSE, loaded[k], after) /\ Database(after) /\ row.status = "live"
       THEN /\ row' = [row EXCEPT !.val = IF c \in T.columns.protected THEN @ ELSE after]
            /\ Step(step, k, v)
       ELSE UNCHANGED row /\ Step("refused", k, v)
    /\ loaded' = [loaded EXCEPT ![k] = None]
    /\ UNCHANGED <<watch, parent>>

\* PUT: a field of an Option that is left out becomes None.
Put(k, sent) ==
    /\ loaded[k] # None
    /\ \E v \in IF c \in T.forms.update THEN Parsed(c \in T.forms.replaced, sent) ELSE {loaded[k]} :
          Store(k, v, "form", v)

\* apply_patch passes over a field it does not know and one that does not parse.
Patch(k, sent) ==
    /\ loaded[k] # None
    /\ LET v == IF c \in T.columns.patch THEN Parsed(TRUE, sent) ELSE {}
       IN  Store(k, IF v = {} THEN loaded[k] ELSE sent, "patch", sent)

Delete(k) ==
    /\ Writable /\ row.status = "live"
    /\ row' = [row EXCEPT !.status = "trashed"] /\ Step("delete", k, "absent")
    /\ UNCHANGED <<watch, parent, loaded>>

Restore(k) ==
    /\ Writable /\ row.status = "trashed"
    /\ row' = [row EXCEPT !.status = "live"] /\ Step("restore", k, "absent")
    /\ UNCHANGED <<watch, parent, loaded>>

\* The trash is emptied, of this row or of all.
Purge(k) ==
    /\ Writable /\ row.status = "trashed"
    /\ row' = [status |-> "absent", val |-> Missing] /\ Step("purge", k, "absent")
    /\ UNCHANGED <<watch, parent, loaded>>

-----------------------------------------------------------------------------
(* The officer's forms                                                     *)

COALESCE(x, y) == IF x = "null" THEN y ELSE x

\* The fields of POST /admin/events, /registrations, /booths and /bookings.
CreateEventForm ==
    {"name", "event_type_id", "date_begin", "date_end", "date_tz", "is_multi_slots",
     "event_slot_count", "seats_limited", "seats_max", "organizer_id", "user_id",
     "address_id", "event_url", "badge_format"}
RegisterForm ==
    {"event_id", "event_slot_id", "event_ticket_id", "name", "email", "phone",
     "company_name", "partner_id"}
CreateBoothForm == {"event_id", "booth_category_id", "name"}
CreateBookingForm ==
    {"sale_order_line_id", "partner_id", "contact_name", "contact_email", "contact_phone"}

CreateForm == [event |-> CreateEventForm, registration |-> RegisterForm,
               booth |-> CreateBoothForm, booth_booking |-> CreateBookingForm]
Demanded == {"name", "email", "event_id", "booth_category_id"} \cup Times

\* The columns a PATCH sets, those it fills while they are empty, and those
\* whose name in the body refuses it; a field of another name is passed over.
PatchEventForm ==
    [sets |-> CreateEventForm \cup {"stage_id"}, fills |-> {},
     refused |-> {"is_published", "date_publish"}]
PatchRegistrationForm ==
    [sets |-> {}, fills |-> {"partner_id", "name", "phone", "company_name"},
     refused |-> {"state", "sale_order_id", "sale_order_state", "sale_status", "active",
                  "barcode", "event_id"}]
PatchBoothForm ==
    [sets |-> {"name", "booth_category_id"},
     fills |-> {"partner_id", "contact_name", "contact_email", "contact_phone"},
     refused |-> {"state", "sale_order_line_id", "is_paid", "event_id"}]

PatchForm == [event |-> PatchEventForm, registration |-> PatchRegistrationForm,
              booth |-> PatchBoothForm]

\* A field that is left out reads as the default of its type.
Heard_Broken(sent) ==
    IF sent = "absent" THEN {"a"}
    ELSE IF sent \in {"null", "garbage"} THEN (IF c \in Times THEN {} ELSE {"null"})
    ELSE IF sent = "wide" THEN {"a", "b", "broken"}
    ELSE {sent}

\* The parse arms: what is not of the type counts as left out, but for an
\* instant, which refuses the request; an integer is cut to its low 32 bits.
Heard(sent) ==
    IF sent = "absent" THEN {"null"}
    ELSE IF sent \in {"null", "garbage"} THEN (IF c \in Times THEN {} ELSE {"null"})
    ELSE IF sent = "wide" THEN {"a", "b", "broken"}
    ELSE {sent}

OfficerPost(sent) ==
    /\ t \in DOMAIN CreateForm /\ row.status = "absent"
    /\ \E v \in IF c \in CreateForm[t] THEN Heard(sent) ELSE {"null"} :
          /\ c \in CreateForm[t] \cap Demanded => v # "null"
          /\ Database(COALESCE(v, Missing))
          /\ row' = [status |-> "live", val |-> COALESCE(v, Missing)]
    /\ Step("officer", None, sent)
    /\ UNCHANGED <<watch, parent, loaded>>

\* The UPDATE of a patch or a sync with the value v of the column.  The sync of
\* an archived registration finds no row; whether it is archived is not watched.
Apply(v, sent) ==
    /\ row.status # "absent"
    /\ LET after == IF c \in PatchForm[t].sets THEN COALESCE(v, row.val)
                    ELSE IF c \in PatchForm[t].fills THEN COALESCE(row.val, v) ELSE row.val
       IN  Database(after) /\ row' = [row EXCEPT !.val = after]
    /\ Step("officer", None, sent)
    /\ UNCHANGED <<watch, parent, loaded>>

\* The patch of a registration is a sync, with the nil uuid for a partner the
\* body does not name.
OfficerPatch(sent) ==
    /\ t \in DOMAIN PatchForm
    /\ sent # "absent" => c \notin PatchForm[t].refused
    /\ \E v \in Heard(sent) :
          Apply(IF watch = <<"registration", "partner_id">> THEN COALESCE(v, "nil") ELSE v, sent)

\* sync-from-partner demands the partner.
Sync(sent) ==
    /\ t = "registration"
    /\ \E v \in Heard(sent) : (c = "partner_id" => v # "null") /\ Apply(v, sent)

-----------------------------------------------------------------------------
(* Hand-written statements, and the other end of a reference               *)

\* A hand-written statement meets the constraints of the database only, and
\* does not look at the mark of the soft delete.  Events and bookings are
\* inserted by the officer's forms alone.
Verb(v) ==
    /\ t \in DOMAIN Moved /\ Database(v)
    /\ row.status = "absent" => t \notin {"event", "booth_booking"}
    /\ row.status # "absent" => c \in Moved[t]
    /\ row' = [status |-> IF row.status = "absent" THEN "live" ELSE row.status, val |-> v]
    /\ Step("verb", None, v)
    /\ UNCHANGED <<watch, parent, loaded>>

VerbDelete ==
    /\ t \in Deleted /\ row.status # "absent"
    /\ row' = [status |-> "absent", val |-> Missing] /\ Step("verb", None, "absent")
    /\ UNCHANGED <<watch, parent, loaded>>

\* The foreign keys: a row that is referred to, from the trash too, is not deleted.
Unreferenced == row.status = "absent" \/ row.val # "a"

\* The row that "a" refers to is inserted, trashed, restored, purged, deleted.
ParentStep(s) ==
    /\ IsKey
    /\ \/ parent = "absent" /\ s = "live"
       \/ Referred \in FullRoutes /\ {parent, s} = {"live", "trashed"}
       \/ Referred \in FullRoutes /\ parent = "trashed" /\ s = "absent" /\ Unreferenced
       \/ Referred \in Deleted /\ parent = "live" /\ s = "absent" /\ Unreferenced
    /\ parent' = s /\ Step("parent", None, "absent")
    /\ UNCHANGED <<watch, row, loaded>>

-----------------------------------------------------------------------------

Init ==
    /\ watch \in Watched
    /\ row = [status |-> "absent", val |-> Missing]
    /\ parent = "live"
    /\ loaded = [k \in Clients |-> None]
    /\ by = Nobody

Next ==
    \/ \E k \in Clients : Load(k) \/ Delete(k) \/ Restore(k) \/ Purge(k)
    \/ \E k \in Clients, sent \in Sent : Post(k, sent) \/ Put(k, sent) \/ Patch(k, sent)
    \/ \E sent \in Sent : OfficerPost(sent) \/ OfficerPatch(sent) \/ Sync(sent)
    \/ \E v \in Values : Verb(v)
    \/ VerbDelete
    \/ \E s \in RowState : ParentStep(s)

Spec == Init /\ [][Next]_vars

-----------------------------------------------------------------------------
(* Properties                                                              *)

\* No stored row breaks a declared rule or refers to a row that is gone,
\* whichever of the writers stored it: a route behind the guard or a form or
\* a statement that meets the database alone.
RulesHold ==
    row.status # "absent" => row.val # "broken" /\ (IsKey /\ row.val = "a" => parent # "absent")

\* tests/route_surface_guard.rs: the "state columns move only through the
\* module's validated verbs".  No sequence of requests and forms moves one, nor
\* does an update that writes back what it loaded before a verb moved it.
StateColumns ==
    {<<"booth", "state">>, <<"booth", "is_paid">>, <<"booth", "sale_order_line_id">>,
     <<"question", "question_kind">>, <<"registration", "state">>,
     <<"registration", "active">>, <<"registration", "sale_status">>,
     <<"event", "kanban_state">>, <<"event", "is_published">>, <<"event", "date_publish">>}
StateMovesByVerb ==
    [][(/\ watch \in StateColumns
         /\ row.status # "absent" /\ row'.status # "absent"
         /\ row'.val # row.val) => by'.kind = "verb"]_vars

\* A patch or a sync of the officer leaves a column its body does not name as
\* it was, whoever wrote it before.
OnlyNamedMoves ==
    [][by'.kind = "officer" /\ by'.sent = "absent" /\ row.status # "absent" => row' = row]_vars

\* A generated PATCH leaves a column its body does not name as it is when the
\* row is written, not as it was when the row was loaded.
PatchKeepsTheRest == [][by'.kind = "patch" /\ by'.sent = "absent" => row' = row]_vars
=============================================================================
