----------------------------- MODULE MCLeadQueue -----------------------------
(* Small instances of LeadQueue.  An event's registrations form one group  *)
(* of a day each, or share an order.                                       *)
EXTENDS LeadQueue, TLC

CONSTANTS e1, e2, r1, r2, r3, ru1, ru2, g1, g2, w1, w2, l1, l2, l3

\* Of two events, r1 is of the first and the others are of the second.
OneEvent  == [r \in Regs |-> e1]
TwoEvents == [r \in Regs |-> IF r = r1 THEN e1 ELSE e2]
OneGroup  == [r \in Regs |-> g1]
TwoGroups == [r \in Regs |-> IF r = r1 THEN g1 ELSE g2]
MatchAll  == [ru \in Rules |-> Regs]

\* Walkers and fresh lead ids are interchangeable; so are r2 and r3, which
\* OneGroup and TwoGroups do not tell apart.
FreshSymmetry == Permutations(Walkers) \cup Permutations(Leads) \cup Permutations(Regs \ {r1})
=============================================================================
