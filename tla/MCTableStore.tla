---------------------------- MODULE MCTableStore ----------------------------
(* Kept is every column of every table, but for the partner of a           *)
(* registration, which a patch fills with nil.  Loose is this one and the  *)
(* mark of a receipt, which an update writes back as it was.               *)
EXTENDS TableStore

CONSTANTS c1, c2

Partner == {<<"registration", "partner_id">>}
Loose == Partner \cup {<<"mail_registration", "mail_sent">>}
Everywhere == UNION {{u} \X Catalogue[u].columns.all : u \in DOMAIN Catalogue}
Kept == Everywhere \ Partner
=============================================================================
