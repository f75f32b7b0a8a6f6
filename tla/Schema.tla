------------------------------- MODULE Schema -------------------------------
(***************************************************************************)
(* The tables of the module as its generated layers know them, one block   *)
(* per entity: the columns (domain/entity), the forms (presentation/dto)   *)
(* and the row rules (application/service).  The conversions between the   *)
(* forms, the entity and the answer pass every field on and are not a      *)
(* layer of their own, nor are the permissions of the routes.  id and      *)
(* metadata are left out.                                                  *)
(***************************************************************************)

\* The entity: columns that are not an Option, those that are, the references
\* as pairs, the columns apply_patch does not know, and the ones the generic
\* layer may not write.
Columns(notnull, nullable, keys, unpatched, protected) ==
    [all |-> notnull \cup nullable, nullable |-> nullable, keys |-> keys,
     patch |-> (notnull \cup nullable) \ unpatched, protected |-> protected]

\* The create form: required columns have no serde default, hand-set ones have
\* no field.  The update form has a field for every column, and only those of
\* an Option may be left out.
Forms(columns, required, handset) ==
    [create |-> columns.all \ handset, required |-> required,
     update |-> columns.all, replaced |-> columns.all \ columns.nullable]

\* Columns some declared rule is about, and the state fields an update may not
\* change without a transition.
RowRules(ruled, machine) == [ruled |-> ruled, machine |-> machine]

Table(columns, forms, rules) == [columns |-> columns, forms |-> forms, rules |-> rules]

-----------------------------------------------------------------------------
\* EventType
EventType == Columns({"name", "seats_limited", "seats_max", "default_date_tz",
                     "is_multi_slots"},
                     {"description"},
                     {}, {}, {})
EventTypeForms == Forms(EventType, {"name"}, {})
EventTypeRowRules == RowRules({"name", "description", "seats_max", "default_date_tz"}, {})

\* Stage
Stage == Columns({"name", "sequence", "fold", "pipe_end"},
                 {},
                 {}, {}, {})
StageForms == Forms(Stage, {"name"}, {})
StageRowRules == RowRules({"name", "sequence"}, {})

\* Event
Event == Columns({"name", "stage_id", "kanban_state", "date_begin", "date_end", "date_tz",
                 "is_multi_slots", "event_slot_count", "seats_limited", "seats_max",
                 "badge_format", "is_published"},
                 {"event_type_id", "address_id", "organizer_id", "user_id", "event_url",
                 "date_publish"},
                 {<<"event_type_id", "event_type">>, <<"stage_id", "stage">>}, {}, {})
EventForms == Forms(Event, {"name", "stage_id", "date_begin", "date_end"}, {})
EventRowRules == RowRules({"name", "stage_id", "date_tz", "event_slot_count", "seats_max",
                          "event_url"}, {})

\* Slot
Slot == Columns({"event_id", "name", "date_begin"},
                {"date_end"},
                {<<"event_id", "event">>}, {}, {})
SlotForms == Forms(Slot, {"event_id", "name", "date_begin"}, {})
SlotRowRules == RowRules({"event_id", "name"}, {})

\* Ticket
Ticket == Columns({"event_id", "name", "seats_max", "seats_max_per_order"},
                  {"start_sale_datetime", "end_sale_datetime", "product_id"},
                  {<<"event_id", "event">>}, {}, {})
TicketForms == Forms(Ticket, {"event_id", "name"}, {})
TicketRowRules == RowRules({"event_id", "name", "seats_max", "seats_max_per_order"}, {})

\* Registration
Registration == Columns({"event_id", "name", "email", "active", "barcode", "state"},
                        {"event_slot_id", "event_ticket_id", "phone", "company_name",
                        "partner_id", "date_closed", "sale_order_id", "sale_order_state",
                        "sale_status"},
                        {<<"event_id", "event">>, <<"event_slot_id", "slot">>,
                        <<"event_ticket_id", "ticket">>}, {"state"}, {})
RegistrationForms == Forms(Registration, {"event_id", "name", "email", "barcode"},
                                         {"state"})
RegistrationRowRules == RowRules({"event_id", "name", "email", "phone", "company_name",
                                 "barcode"}, {"state"})

\* Question
Question == Columns({"question", "question_kind", "is_default", "is_reusable",
                    "once_per_order"},
                    {},
                    {}, {}, {"question_kind"})
QuestionForms == Forms(Question, {"question"}, {"question_kind"})
QuestionRowRules == RowRules({"question"}, {})

\* QuestionAnswer
QuestionAnswer == Columns({"question_id", "name", "sequence"},
                          {},
                          {<<"question_id", "question">>}, {}, {})
QuestionAnswerForms == Forms(QuestionAnswer, {"question_id", "name"}, {})
QuestionAnswerRowRules == RowRules({"question_id", "name", "sequence"}, {})

\* RegistrationQuestion
RegistrationQuestion == Columns({"question_id", "sequence"},
                                {"event_id", "event_type_id"},
                                {<<"event_id", "event">>, <<"event_type_id",
                                "event_type">>, <<"question_id", "question">>}, {}, {})
RegistrationQuestionForms == Forms(RegistrationQuestion, {"question_id"}, {})
RegistrationQuestionRowRules == RowRules({"question_id", "sequence"}, {})

\* RegistrationAnswer
RegistrationAnswer == Columns({"registration_id", "question_id"},
                              {"value_text", "value_answer_id"},
                              {<<"registration_id", "registration">>, <<"question_id",
                              "question">>, <<"value_answer_id", "question_answer">>}, {},
                              {})
RegistrationAnswerForms == Forms(RegistrationAnswer, {"registration_id", "question_id"}, {})
RegistrationAnswerRowRules == RowRules({"registration_id", "question_id", "value_text"}, {})

\* Mail
Mail == Columns({"event_id", "interval_nbr", "interval_unit", "interval_kind",
                "notification_channel", "mail_done"},
                {"scheduled_date", "last_registration_id", "template_ref", "template_kind",
                "error_datetime", "error_kind"},
                {<<"event_id", "event">>}, {}, {})
MailForms == Forms(Mail, {"event_id"}, {})
MailRowRules == RowRules({"event_id", "interval_nbr", "template_kind"}, {})

\* MailRegistration
MailRegistration == Columns({"scheduler_id", "registration_id", "mail_sent"},
                            {"scheduled_date", "outcome"},
                            {<<"scheduler_id", "mail">>, <<"registration_id",
                            "registration">>}, {}, {})
MailRegistrationForms == Forms(MailRegistration, {"scheduler_id", "registration_id"}, {})
MailRegistrationRowRules == RowRules({"scheduler_id", "registration_id", "outcome"}, {})

\* MailSlot
MailSlot == Columns({"scheduler_id", "slot_id", "mail_done"},
                    {"scheduled_date", "last_registration_id"},
                    {<<"scheduler_id", "mail">>, <<"slot_id", "slot">>}, {}, {})
MailSlotForms == Forms(MailSlot, {"scheduler_id", "slot_id"}, {})
MailSlotRowRules == RowRules({"scheduler_id", "slot_id"}, {})

\* TypeMail
TypeMail == Columns({"event_type_id", "interval_nbr", "interval_unit", "interval_kind",
                    "notification_channel"},
                    {"template_ref", "template_kind"},
                    {<<"event_type_id", "event_type">>}, {}, {})
TypeMailForms == Forms(TypeMail, {"event_type_id"}, {})
TypeMailRowRules == RowRules({"event_type_id", "interval_nbr", "template_kind"}, {})

\* BoothCategory
BoothCategory == Columns({"name"},
                         {"description", "product_id", "price"},
                         {}, {}, {})
BoothCategoryForms == Forms(BoothCategory, {"name"}, {})
BoothCategoryRowRules == RowRules({"name", "description"}, {})

\* Booth
Booth == Columns({"event_id", "booth_category_id", "name", "is_paid", "state"},
                 {"partner_id", "contact_name", "contact_email", "contact_phone",
                 "sale_order_line_id"},
                 {<<"event_id", "event">>, <<"booth_category_id", "booth_category">>},
                 {"state"}, {"state"})
BoothForms == Forms(Booth, {"event_id", "booth_category_id", "name"}, {"state"})
BoothRowRules == RowRules({"event_id", "booth_category_id", "name", "contact_name",
                          "contact_email", "contact_phone"}, {"state"})

\* BoothBooking
BoothBooking == Columns({"event_booth_id", "status"},
                        {"sale_order_line_id", "partner_id", "contact_name",
                        "contact_email", "contact_phone"},
                        {<<"event_booth_id", "booth">>}, {}, {})
BoothBookingForms == Forms(BoothBooking, {"event_booth_id"}, {})
BoothBookingRowRules == RowRules({"event_booth_id", "contact_name", "contact_email",
                                 "contact_phone"}, {})

\* TypeBooth
TypeBooth == Columns({"event_type_id", "booth_category_id", "name"},
                     {},
                     {<<"event_type_id", "event_type">>, <<"booth_category_id",
                     "booth_category">>}, {}, {})
TypeBoothForms == Forms(TypeBooth, {"event_type_id", "booth_category_id", "name"}, {})
TypeBoothRowRules == RowRules({"event_type_id", "booth_category_id", "name"}, {})

\* LeadRule
LeadRule == Columns({"name", "basis", "on_create", "on_confirm", "on_done", "active"},
                    {"event_id"},
                    {<<"event_id", "event">>}, {}, {})
LeadRuleForms == Forms(LeadRule, {"name"}, {})
LeadRuleRowRules == RowRules({"name"}, {})

\* LeadRulePredicate
LeadRulePredicate == Columns({"rule_id", "axis", "value_ids"},
                             {"question_id"},
                             {<<"rule_id", "lead_rule">>, <<"question_id", "question">>},
                             {}, {})
LeadRulePredicateForms == Forms(LeadRulePredicate, {"rule_id", "axis", "value_ids"}, {})
LeadRulePredicateRowRules == RowRules({"rule_id"}, {})

\* LeadRequest
LeadRequest == Columns({"event_id", "done"},
                       {"error_detail", "claimed_at"},
                       {<<"event_id", "event">>}, {}, {})
LeadRequestForms == Forms(LeadRequest, {"event_id"}, {})
LeadRequestRowRules == RowRules({"event_id", "error_detail"}, {})

\* LeadProvenance
LeadProvenance == Columns({"rule_id", "event_id", "group_key", "grouping"},
                          {"lead_id"},
                          {<<"rule_id", "lead_rule">>, <<"event_id", "event">>}, {}, {})
LeadProvenanceForms == Forms(LeadProvenance, {"rule_id", "event_id", "group_key",
                                             "grouping"}, {})
LeadProvenanceRowRules == RowRules({"rule_id", "event_id", "group_key"}, {})

\* LeadProvenanceRegistration
LeadProvenanceRegistration == Columns({"provenance_id", "registration_id"},
                                      {},
                                      {<<"provenance_id", "lead_provenance">>,
                                      <<"registration_id", "registration">>}, {}, {})
LeadProvenanceRegistrationForms == Forms(LeadProvenanceRegistration, {"provenance_id",
                                                                     "registration_id"},
                                                                     {})
LeadProvenanceRegistrationRowRules == RowRules({"provenance_id", "registration_id"}, {})

\* TagCategory
TagCategory == Columns({"name"},
                       {},
                       {}, {}, {})
TagCategoryForms == Forms(TagCategory, {"name"}, {})
TagCategoryRowRules == RowRules({"name"}, {})

\* Tag
Tag == Columns({"name"},
               {"category_id", "color"},
               {<<"category_id", "tag_category">>}, {}, {})
TagForms == Forms(Tag, {"name"}, {})
TagRowRules == RowRules({"name", "color"}, {})

-----------------------------------------------------------------------------

Catalogue == [
    event_type |-> Table(EventType, EventTypeForms, EventTypeRowRules),
    stage |-> Table(Stage, StageForms, StageRowRules),
    event |-> Table(Event, EventForms, EventRowRules),
    slot |-> Table(Slot, SlotForms, SlotRowRules),
    ticket |-> Table(Ticket, TicketForms, TicketRowRules),
    registration |-> Table(Registration, RegistrationForms, RegistrationRowRules),
    question |-> Table(Question, QuestionForms, QuestionRowRules),
    question_answer |-> Table(QuestionAnswer, QuestionAnswerForms, QuestionAnswerRowRules),
    registration_question |-> Table(RegistrationQuestion, RegistrationQuestionForms,
                                    RegistrationQuestionRowRules),
    registration_answer |-> Table(RegistrationAnswer, RegistrationAnswerForms,
                                  RegistrationAnswerRowRules),
    mail |-> Table(Mail, MailForms, MailRowRules),
    mail_registration |-> Table(MailRegistration, MailRegistrationForms, MailRegistrationRowRules),
    mail_slot |-> Table(MailSlot, MailSlotForms, MailSlotRowRules),
    type_mail |-> Table(TypeMail, TypeMailForms, TypeMailRowRules),
    booth_category |-> Table(BoothCategory, BoothCategoryForms, BoothCategoryRowRules),
    booth |-> Table(Booth, BoothForms, BoothRowRules),
    booth_booking |-> Table(BoothBooking, BoothBookingForms, BoothBookingRowRules),
    type_booth |-> Table(TypeBooth, TypeBoothForms, TypeBoothRowRules),
    lead_rule |-> Table(LeadRule, LeadRuleForms, LeadRuleRowRules),
    lead_rule_predicate |-> Table(LeadRulePredicate, LeadRulePredicateForms,
                                  LeadRulePredicateRowRules),
    lead_request |-> Table(LeadRequest, LeadRequestForms, LeadRequestRowRules),
    lead_provenance |-> Table(LeadProvenance, LeadProvenanceForms, LeadProvenanceRowRules),
    lead_provenance_registration |-> Table(LeadProvenanceRegistration, LeadProvenanceRegistrationForms,
                                           LeadProvenanceRegistrationRowRules),
    tag_category |-> Table(TagCategory, TagCategoryForms, TagCategoryRowRules),
    tag |-> Table(Tag, TagForms, TagRowRules)]
=============================================================================
