-------------------------- MODULE MCEventLifecycle --------------------------
(* Small instances of EventLifecycle.                                      *)
EXTENDS EventLifecycle

CONSTANTS e1, e2, s1, s2, t1, l1, p1, p2

\* The first event is created of the type, the second of none.
Offers == {<<e1, t1>>, <<e2, NoType>>}

Arms == [event_type_id |-> None, stage_id |-> None, date_end |-> None]

\* The end stage was made last.
Order == [s \in Stages |-> IF s = s1 THEN 1 ELSE 2]

\* An officer moves an event to the first stage or to the end one, and changes
\* its type.
Moves == {[Arms EXCEPT !.stage_id = s] : s \in Stages}
Retypes == {[Arms EXCEPT !.event_type_id = t] : t \in Types}
Rearranges == Moves \cup Retypes
=============================================================================
