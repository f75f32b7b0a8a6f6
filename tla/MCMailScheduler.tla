--------------------------- MODULE MCMailScheduler ---------------------------
(* Small instances of MailScheduler.                                       *)
EXTENDS MailScheduler, TLC

CONSTANTS m1, m2, r1, r2, p1, p2

\* Passes are interchangeable; so are registrations that start alike.
PassSymmetry == Permutations(Passes)
=============================================================================
