-------------------------- MODULE MCPublicSurface --------------------------
(* A small instance of PublicSurface: one published event, another whose   *)
(* slot and registration a token may name by mistake.                      *)
EXTENDS PublicSurface, TLC

CONSTANTS e1, e2, s1, c1, c2, r1, r2, sl1, sl2, k1, i1, a1

Order == [s \in Stages |-> 1]
SlotOf == [s \in Slots |-> IF s = sl1 THEN e1 ELSE e2]
RegOf == [r \in Regs |-> IF r = r1 THEN e1 ELSE e2]
NoPatches == {}

\* Two intakes of an identity, one hit of every other key.
Limits == [a \in Arms |-> IF a = "identity" THEN 2 ELSE 1]

\* The routers share nothing but the events: a host with one of them is enough.
OneRouter == {{"public"}, {"intake"}}

ClientSymmetry == Permutations(Clients)
=============================================================================
