--------------------------- MODULE LeadQueueProofs ---------------------------
(***************************************************************************)
(* What LeadQueue keeps, for any events, registrations, rules, walkers and *)
(* lead ids and any number of crashes: the lease, the rows that say which  *)
(* registrations a lead was told of, and the number of leads of a group.   *)
(***************************************************************************)
EXTENDS LeadQueue, FiniteSetTheorems, TLAPS

Places == {"idle", "claim", "rules", "rule", "eligible", "group",
           "members", "sink", "setlead", "junction", "finish"}

-----------------------------------------------------------------------------
(* Types                                                                   *)

LEMMA NothingType == Nothing \in Carry
<1>1. 0 \in 0..CronLimit
  BY LeadAssumption
<1>2. QED
  BY <1>1 DEF Nothing, Carry

\* A statement moves its own walker and no other.
LEMMA GoOne ==
    ASSUME TypeOK, NEW w \in Walkers, NEW to \in Places, NEW carry \in Carry,
           Go(w, to, carry)
    PROVE  /\ pc' \in [Walkers -> Places] /\ walk' \in [Walkers -> Carry]
           /\ pc'[w] = to /\ walk'[w] = carry
           /\ \A v \in Walkers : v # w => pc'[v] = pc[v] /\ walk'[v] = walk[v]
<1>1. pc \in [Walkers -> Places] /\ walk \in [Walkers -> Carry]
  BY DEF TypeOK, Places
<1>2. QED
  BY <1>1 DEF Go

\* What each statement leaves its walker carrying.
LEMMA CarryTypes ==
    ASSUME TypeOK, NEW w \in Walkers
    PROVE  /\ walk[w] \in Carry /\ pc[w] \in Places
           /\ \A e \in Events : [walk[w] EXCEPT !.event = e] \in Carry
           /\ \A R \in SUBSET Rules : [walk[w] EXCEPT !.rules = R] \in Carry
           /\ \A ru \in Rules :
                 [walk[w] EXCEPT !.rule = ru, !.rules = @ \ {ru}] \in Carry
           /\ \A B \in SUBSET Regs :
                 [walk[w] EXCEPT !.batch = B, !.groups = {GroupOf[r] : r \in B}] \in Carry
           /\ \A g \in Groups, l \in Leads \cup {NoLead} :
                 [walk[w] EXCEPT !.group = g, !.groups = @ \ {g}, !.lead = l] \in Carry
           /\ \A A, B \in SUBSET Regs : [walk[w] EXCEPT !.new = A, !.members = B] \in Carry
           /\ \A l \in Leads : [walk[w] EXCEPT !.lead = l] \in Carry
           /\ [walk[w] EXCEPT !.refused = TRUE] \in Carry
<1>1. walk[w] \in Carry /\ pc[w] \in Places
  BY DEF TypeOK, Places
<1>2. \A B \in SUBSET Regs : {GroupOf[r] : r \in B} \in SUBSET Groups
  BY LeadAssumption
<1>3. QED
  BY <1>1, <1>2 DEF Carry

\* A claim takes the lease of an event that nobody holds.
LEMMA LeaseTakes ==
    ASSUME TypeOK, NEW w \in Walkers, NEW e \in Events, NEW carry \in Carry, Lease(w, e, carry)
    PROVE  /\ request' \in [Events -> [there : BOOLEAN, done : BOOLEAN,
                                       lease : {"none", "fresh", "stale"}]]
           /\ request'[e].lease = "fresh"
           /\ \A f \in Events : f # e => request'[f] = request[f]
           /\ [carry EXCEPT !.event = e] \in Carry
           /\ Go(w, "rules", [carry EXCEPT !.event = e])
<1>1. request \in [Events -> [there : BOOLEAN, done : BOOLEAN, lease : {"none", "fresh", "stale"}]]
  BY DEF TypeOK
<1>2. [carry EXCEPT !.event = e] \in Carry
  BY DEF Carry
<1>3. QED
  BY <1>1, <1>2 DEF Lease

\* Arming opens requests and leaves every lease as it is.
LEMMA ArmKeepsLeases ==
    ASSUME TypeOK, NEW E, Arm(E)
    PROVE  /\ request' \in [Events -> [there : BOOLEAN, done : BOOLEAN,
                                       lease : {"none", "fresh", "stale"}]]
           /\ \A e \in Events : request'[e].lease = request[e].lease
<1>1. request \in [Events -> [there : BOOLEAN, done : BOOLEAN, lease : {"none", "fresh", "stale"}]]
  BY DEF TypeOK
<1>2. QED
  BY <1>1 DEF Arm

-----------------------------------------------------------------------------
(* The lease                                                               *)

\* A step that moves one walker keeps the leases if, after it, that walker
\* holds its event's and no lease of another walker's event was touched.
LEMMA LeasesKept ==
    ASSUME QueueInv, NEW w \in Walkers, TypeOK',
           \A v \in Walkers : v # w => pc'[v] = pc[v] /\ walk'[v] = walk[v],
           ~walk'[w].late,
           pc'[w] \in {"idle", "claim"} <=> walk'[w].event = NoEvent,
           walk'[w].event \in Events => request'[walk'[w].event].lease = "fresh",
           OnRule(pc'[w]) => walk'[w].rule \in Rules,
           \A v \in Walkers : v # w /\ walk[v].event \in Events =>
               /\ walk[v].event # walk'[w].event
               /\ request'[walk[v].event].lease = request[walk[v].event].lease
    PROVE  QueueInv'
<1>1. LeaseHeld'
  BY DEF QueueInv, LeaseHeld
<1>2. LeaseExcludes'
  <2> SUFFICES ASSUME NEW u \in Walkers, NEW v \in Walkers, NEW e \in Events,
                      walk'[u].event = e, walk'[v].event = e, u # v
               PROVE  walk'[u].late \/ walk'[v].late
    BY DEF LeaseExcludes, Walking
  <2>1. CASE u = w
    BY <2>1
  <2>2. CASE v = w
    BY <2>2
  <2>3. CASE u # w /\ v # w
    BY <2>3 DEF QueueInv, LeaseExcludes, Walking
  <2>4. QED
    BY <2>1, <2>2, <2>3
<1>3. RuleKnown'
  BY DEF QueueInv, RuleKnown
<1>4. QED
  BY <1>1, <1>2, <1>3 DEF QueueInv

\* Two walkers are never on one event.
LEMMA Alone ==
    ASSUME QueueInv, NEW v \in Walkers, NEW w \in Walkers,
           walk[v].event \in Events, walk[v].event = walk[w].event
    PROVE  v = w
BY DEF QueueInv, LeaseExcludes, LeaseHeld, Walking

\* Steps of a walker that stays on its event, or on none.
LEMMA StaysOnEvent ==
    ASSUME QueueInv, NEW w \in Walkers, NEW to \in Places, NEW carry \in Carry,
           Go(w, to, carry), TypeOK', UNCHANGED request,
           ~carry.late, carry.event = walk[w].event \/ carry.event = NoEvent,
           to \in {"idle", "claim"} <=> carry.event = NoEvent,
           OnRule(to) => carry.rule \in Rules
    PROVE  QueueInv'
<1>1. TypeOK
  BY DEF QueueInv
<1>2. /\ pc'[w] = to /\ walk'[w] = carry
      /\ \A v \in Walkers : v # w => pc'[v] = pc[v] /\ walk'[v] = walk[v]
  BY <1>1, GoOne
<1>3. \A v \in Walkers : v # w /\ walk[v].event \in Events => walk[v].event # carry.event
  BY Alone, LeadAssumption
<1>4. carry.event \in Events => request[carry.event].lease = "fresh"
  BY LeadAssumption DEF QueueInv, LeaseHeld
<1>5. QED
  BY <1>2, <1>3, <1>4, LeasesKept

\* The statements that write nothing outside their walker.
LEMMA QuietQueue ==
    ASSUME QueueInv, NEW w \in Walkers, NEW to \in Places, NEW carry \in Carry,
           Go(w, to, carry), UNCHANGED <<db, request, book, leads>>,
           crashes' \in 0..MaxCrashes,
           ~carry.late, carry.event = walk[w].event \/ carry.event = NoEvent,
           to \in {"idle", "claim"} <=> carry.event = NoEvent,
           OnRule(to) => carry.rule \in Rules
    PROVE  QueueInv'
<1>1. TypeOK
  BY DEF QueueInv
<1>2. pc' \in [Walkers -> Places] /\ walk' \in [Walkers -> Carry]
  BY <1>1, GoOne
<1>3. TypeOK'
  BY <1>1, <1>2 DEF TypeOK, Places, db, book
<1>4. QED
  BY <1>3, StaysOnEvent

\* What a walker's place says of the event it is on.
LEMMA OnEvent ==
    ASSUME QueueInv, NEW w \in Walkers
    PROVE  /\ ~walk[w].late
           /\ pc[w] \in {"idle", "claim"} <=> walk[w].event = NoEvent
           /\ pc[w] \notin {"idle", "claim"} => walk[w].event \in Events
           /\ walk[w].event \in Events \cup {NoEvent}
           /\ walk[w].event \in Events => request[walk[w].event].lease = "fresh"
<1>1. walk[w].event \in Events \cup {NoEvent}
  BY CarryTypes DEF QueueInv, Carry
<1>2. QED
  BY <1>1, LeadAssumption DEF QueueInv, LeaseHeld

-----------------------------------------------------------------------------
(* The groups and their leads                                              *)

\* Who is in a group, on which event.
LEMMA GroupTypes ==
    ASSUME IInv, NEW w \in Walkers, pc[w] \in {"members", "sink", "setlead", "junction"}
    PROVE  /\ walk[w].rule \in Rules /\ walk[w].group \in Groups
           /\ walk[w].event \in Events
           /\ \E r \in Regs : GroupOf[r] = walk[w].group /\ EventOf[r] = walk[w].event
<1>1. GroupKnown(w) /\ walk[w].rule \in Rules
  BY DEF IInv, QueueInv, RuleKnown, OnRule
<1>2. QED
  BY <1>1, LeadAssumption DEF GroupKnown

\* No two walkers are in one group: a group is of one event.
LEMMA AloneInGroup ==
    ASSUME IInv, GroupsOfOneEvent, NEW v \in Walkers, NEW w \in Walkers,
           pc[v] \in {"members", "sink", "setlead", "junction"},
           pc[w] \in {"members", "sink", "setlead", "junction"},
           walk[v].group = walk[w].group
    PROVE  v = w
<1>1. PICK r \in Regs : GroupOf[r] = walk[v].group /\ EventOf[r] = walk[v].event
  BY GroupTypes
<1>2. PICK s \in Regs : GroupOf[s] = walk[w].group /\ EventOf[s] = walk[w].event
  BY GroupTypes
<1>3. walk[v].event = walk[w].event /\ walk[v].event \in Events
  BY <1>1, <1>2, GroupTypes DEF GroupsOfOneEvent
<1>4. QED
  BY <1>3, Alone DEF IInv

\* A walker that does not move knows what it knew, if the leads it has met
\* only grow and its group's row names the lead it named.
LEMMA OthersKnow ==
    ASSUME IInv, NEW v \in Walkers, pc'[v] = pc[v], walk'[v] = walk[v],
           \A l \in Leads : leads[l].status # "none" =>
               leads'[l].status # "none" /\ leads[l].regs \subseteq leads'[l].regs,
           pc[v] \in {"members", "sink", "setlead", "junction"} =>
               provenance'[walk[v].rule][walk[v].group].lead
                   = provenance[walk[v].rule][walk[v].group].lead
    PROVE  GroupKnown(v)' /\ LeadKnown(v)'
<1>1. GroupKnown(v) /\ LeadKnown(v)
  BY DEF IInv
<1>2. GroupKnown(v)'
  BY <1>1 DEF GroupKnown
<1>3. pc[v] \in {"setlead", "junction"} =>
          walk[v].lead \in Leads /\ leads[walk[v].lead].status # "none"
  BY <1>1, GroupTypes DEF LeadKnown, IInv, LinkedIsMinted
<1>4. LeadKnown(v)'
  BY <1>1, <1>3 DEF LeadKnown, Of
<1>5. QED
  BY <1>2, <1>4

\* A statement that mints and links no lead, and neither enters nor leaves the
\* place between a mint and its row except by a crash.
LEMMA LinksKept ==
    ASSUME IInv, QueueInv', NEW w \in Walkers,
           \A v \in Walkers : v # w => pc'[v] = pc[v] /\ walk'[v] = walk[v],
           UNCHANGED leads,
           \A ru \in Rules, g \in Groups : provenance'[ru][g].lead = provenance[ru][g].lead,
           \/ pc[w] # "setlead" /\ pc'[w] # "setlead" /\ crashes' = crashes
           \/ crashes' = crashes + 1,
           GroupKnown(w)', LeadKnown(w)', JunctionIsDelivered'
    PROVE  IInv'
<1>1. \A v \in Walkers : GroupKnown(v)' /\ LeadKnown(v)'
  <2> SUFFICES ASSUME NEW v \in Walkers, v # w PROVE GroupKnown(v)' /\ LeadKnown(v)'
    OBVIOUS
  <2>1. QED
    BY OthersKnow, GroupTypes
<1>2. LinkedIsMinted'
  BY DEF IInv, LinkedIsMinted
<1>3. LostByCrash'
  <2> SUFFICES ASSUME NEW ru \in Rules, NEW g \in Groups
               PROVE  /\ IsFiniteSet(Minted(ru, g)')
                      /\ Cardinality(Minted(ru, g)') <= crashes' + (IF Held(ru, g)' THEN 1 ELSE 0)
    BY DEF LostByCrash
  <2>1. /\ IsFiniteSet(Minted(ru, g))
        /\ Cardinality(Minted(ru, g)) <= crashes + (IF Held(ru, g) THEN 1 ELSE 0)
    BY DEF IInv, LostByCrash
  <2>2. Minted(ru, g)' = Minted(ru, g) /\ Cardinality(Minted(ru, g)) \in Nat
    BY <2>1, FS_CardinalityType DEF Minted
  <2>3. crashes \in Nat
    BY DEF IInv, QueueInv, TypeOK
  <2>4. CASE crashes' = crashes + 1
    BY <2>1, <2>2, <2>3, <2>4
  <2>5. CASE pc[w] # "setlead" /\ pc'[w] # "setlead" /\ crashes' = crashes
    <3>1. Held(ru, g)' = Held(ru, g)
      BY <2>5 DEF Held
    <3>2. QED
      BY <2>1, <2>2, <2>5, <3>1
  <2>6. QED
    BY <2>4, <2>5
<1>4. QED
  BY <1>1, <1>2, <1>3 DEF IInv

\* One that writes no row of the book either.
LEMMA QuietKeeps ==
    ASSUME IInv, QueueInv', NEW w \in Walkers,
           \A v \in Walkers : v # w => pc'[v] = pc[v] /\ walk'[v] = walk[v],
           UNCHANGED <<book, leads>>,
           \/ pc[w] # "setlead" /\ pc'[w] # "setlead" /\ crashes' = crashes
           \/ crashes' = crashes + 1,
           GroupKnown(w)', LeadKnown(w)'
    PROVE  IInv'
<1>1. JunctionIsDelivered'
  BY DEF IInv, JunctionIsDelivered, book
<1>2. QED
  BY <1>1, LinksKept DEF book

-----------------------------------------------------------------------------
(* The statements that write nothing outside their walker                  *)

\* Where each of them goes and what it then carries.
LEMMA QuietGoes ==
    ASSUME QueueInv, NEW w \in Walkers,
           \/ StartPass(w) \/ EndPass(w) \/ ReadRules(w) \/ NextRule(w) \/ ReadEligible(w)
           \/ BatchDone(w) \/ ReadMembers(w) \/ SinkRefuses(w) \/ Crash(w)
    PROVE  /\ QueueInv'
           /\ \A v \in Walkers : v # w => pc'[v] = pc[v] /\ walk'[v] = walk[v]
           /\ \E to \in Places, carry \in Carry : Go(w, to, carry)
<1>1. /\ TypeOK /\ walk[w] \in Carry /\ pc[w] \in Places /\ crashes \in 0..MaxCrashes
  BY CarryTypes DEF QueueInv, TypeOK
<1>2. Nothing.late = FALSE /\ Nothing.event = NoEvent /\ Nothing \in Carry
  BY NothingType DEF Nothing
<1>3. ~walk[w].late
  BY OnEvent
<1> DEFINE Stays(carry) == carry \in Carry /\ ~carry.late /\ carry.event = walk[w].event
<1>4. ASSUME NEW to \in {"idle", "claim"}, Go(w, to, Nothing),
             UNCHANGED <<db, request, book, leads>>, crashes' \in 0..MaxCrashes
      PROVE  /\ QueueInv'
             /\ \A v \in Walkers : v # w => pc'[v] = pc[v] /\ walk'[v] = walk[v]
             /\ \E go \in Places, carry \in Carry : Go(w, go, carry)
  <2>1. to \in Places
    BY DEF Places
  <2>2. QueueInv'
    BY <1>2, <1>4, <2>1, QuietQueue DEF OnRule
  <2>3. QED
    BY <1>1, <1>2, <1>4, <2>1, <2>2, GoOne
<1>5. ASSUME NEW to \in Places \ {"idle", "claim"}, NEW carry, Stays(carry), Go(w, to, carry),
             pc[w] \notin {"idle", "claim"}, OnRule(to) => carry.rule \in Rules,
             UNCHANGED <<db, request, book, leads, crashes>>
      PROVE  /\ QueueInv'
             /\ \A v \in Walkers : v # w => pc'[v] = pc[v] /\ walk'[v] = walk[v]
             /\ \E go \in Places, c \in Carry : Go(w, go, c)
  <2>1. walk[w].event # NoEvent
    BY <1>5, OnEvent
  <2>2. QueueInv'
    BY <1>1, <1>5, <2>1, QuietQueue
  <2>3. QED
    BY <1>1, <1>5, <2>2, GoOne
<1> HIDE DEF Stays
<1>6. /\ Stays(walk[w]) 
      /\ \A R \in SUBSET Rules : Stays([walk[w] EXCEPT !.rules = R])
      /\ \A ru \in Rules : Stays([walk[w] EXCEPT !.rule = ru, !.rules = @ \ {ru}])
      /\ \A B \in SUBSET Regs :
            Stays([walk[w] EXCEPT !.batch = B, !.groups = {GroupOf[r] : r \in B}])
      /\ \A A, B \in SUBSET Regs : Stays([walk[w] EXCEPT !.new = A, !.members = B])
      /\ Stays([walk[w] EXCEPT !.refused = TRUE])
  <2>1. \A carry \in Carry : carry.late = walk[w].late /\ carry.event = walk[w].event
                             => Stays(carry)
    BY <1>3 DEF Stays
  <2>2. /\ \A R \in SUBSET Rules :
              LET c == [walk[w] EXCEPT !.rules = R] IN c.late = walk[w].late /\ c.event = walk[w].event
        /\ \A ru \in Rules :
              LET c == [walk[w] EXCEPT !.rule = ru, !.rules = @ \ {ru}]
              IN  c.late = walk[w].late /\ c.event = walk[w].event
    BY <1>1 DEF Carry
  <2>3. /\ \A B \in SUBSET Regs :
              LET c == [walk[w] EXCEPT !.batch = B, !.groups = {GroupOf[r] : r \in B}]
              IN  c.late = walk[w].late /\ c.event = walk[w].event
        /\ \A A, B \in SUBSET Regs :
              LET c == [walk[w] EXCEPT !.new = A, !.members = B]
              IN  c.late = walk[w].late /\ c.event = walk[w].event
        /\ LET c == [walk[w] EXCEPT !.refused = TRUE]
           IN  c.late = walk[w].late /\ c.event = walk[w].event
    BY <1>1 DEF Carry
  <2>4. Stays(walk[w])
    BY <1>1, <2>1
  <2>5. /\ \A R \in SUBSET Rules : Stays([walk[w] EXCEPT !.rules = R])
        /\ \A ru \in Rules : Stays([walk[w] EXCEPT !.rule = ru, !.rules = @ \ {ru}])
    BY <1>1, <2>1, <2>2, CarryTypes
  <2>6. /\ \A B \in SUBSET Regs :
              Stays([walk[w] EXCEPT !.batch = B, !.groups = {GroupOf[r] : r \in B}])
        /\ \A A, B \in SUBSET Regs : Stays([walk[w] EXCEPT !.new = A, !.members = B])
        /\ Stays([walk[w] EXCEPT !.refused = TRUE])
    BY <1>1, <2>1, <2>3, CarryTypes
  <2>7. QED
    BY <2>4, <2>5, <2>6
<1>7. CASE StartPass(w)
  BY <1>1, <1>4, <1>7 DEF StartPass
<1>8. CASE EndPass(w)
  BY <1>1, <1>4, <1>8 DEF EndPass
<1>16. OnRule(pc[w]) => walk[w].rule \in Rules
  BY DEF QueueInv, RuleKnown
<1>9. CASE ReadRules(w)
  BY <1>5, <1>6, <1>9 DEF ReadRules, Places, OnRule
<1>10. CASE NextRule(w)
  <2>1. walk[w].rules \subseteq Rules
    BY <1>1 DEF Carry
  <2>2. CASE walk[w].rules = {} /\ Go(w, "finish", walk[w])
    BY <1>5, <1>6, <1>10, <2>2 DEF NextRule, Places, OnRule
  <2>3. ASSUME NEW ru \in walk[w].rules,
               Go(w, "eligible", [walk[w] EXCEPT !.rule = ru, !.rules = @ \ {ru}])
        PROVE  /\ QueueInv'
               /\ \A v \in Walkers : v # w => pc'[v] = pc[v] /\ walk'[v] = walk[v]
               /\ \E go \in Places, c \in Carry : Go(w, go, c)
    <3>1. [walk[w] EXCEPT !.rule = ru, !.rules = @ \ {ru}].rule \in Rules
      BY <1>1, <2>1 DEF Carry
    <3>2. "eligible" \in Places \ {"idle", "claim"}
      BY DEF Places
    <3>3. QED
      BY <1>5, <1>6, <1>10, <2>1, <2>3, <3>1, <3>2 DEF NextRule
  <2>4. QED
    BY <1>10, <2>2, <2>3 DEF NextRule
<1>11. CASE ReadEligible(w)
  <2>1. PICK B \in Batches(Unprovenanced(walk[w].rule, walk[w].event)) :
            IF B = {} THEN Go(w, "rule", walk[w])
            ELSE Go(w, "group", [walk[w] EXCEPT !.batch = B,
                                   !.groups = {GroupOf[r] : r \in B}])
    BY <1>11 DEF ReadEligible
  <2>2. B \in SUBSET Regs
    BY <1>1 DEF Batches, Unprovenanced, TypeOK
  <2>3. "rule" \in Places \ {"idle", "claim"} /\ "group" \in Places \ {"idle", "claim"}
    BY DEF Places
  <2>5. [walk[w] EXCEPT !.batch = B, !.groups = {GroupOf[r] : r \in B}].rule = walk[w].rule
    BY <1>1 DEF Carry
  <2>6. walk[w].rule \in Rules /\ ~OnRule("rule")
    BY <1>11, <1>16 DEF ReadEligible, OnRule
  <2>4. QED
    BY <1>5, <1>6, <1>11, <2>1, <2>2, <2>3, <2>5, <2>6 DEF ReadEligible
<1>12. CASE BatchDone(w)
  BY <1>5, <1>6, <1>12, <1>16 DEF BatchDone, Places, OnRule
<1>13. CASE ReadMembers(w)
  <2> DEFINE known == {r \in Of(walk[w].group, Regs) : <<walk[w].rule, r>> \in junction}
             fresh == Of(walk[w].group, walk[w].batch) \ known
  <2>1. known \in SUBSET Regs /\ fresh \in SUBSET Regs /\ known \cup fresh \in SUBSET Regs
    BY <1>1 DEF Of, Carry
  <2>2. \/ Go(w, "group", walk[w])
        \/ Go(w, "sink", [walk[w] EXCEPT !.new = fresh, !.members = known \cup fresh])
    BY <1>13 DEF ReadMembers
  <2>3. "sink" \in Places \ {"idle", "claim"} /\ "group" \in Places \ {"idle", "claim"}
    BY DEF Places
  <2> HIDE DEF known, fresh
  <2>4. [walk[w] EXCEPT !.new = fresh, !.members = known \cup fresh].rule = walk[w].rule
    BY <1>1 DEF Carry
  <2>5. walk[w].rule \in Rules
    BY <1>13, <1>16 DEF ReadMembers, OnRule
  <2>6. QED
    BY <1>5, <1>6, <1>13, <2>1, <2>2, <2>3, <2>4, <2>5 DEF ReadMembers
<1>14. CASE SinkRefuses(w)
  BY <1>5, <1>6, <1>14 DEF SinkRefuses, Places, OnRule
<1>15. CASE Crash(w)
  <2>1. crashes' \in 0..MaxCrashes
    BY <1>1, <1>15, LeadAssumption DEF Crash
  <2>2. QED
    BY <1>4, <1>15, <2>1 DEF Crash
<1>17. QED
  BY <1>7, <1>8, <1>9, <1>10, <1>11, <1>12, <1>13, <1>14, <1>15

LEMMA QuietWalks ==
    ASSUME IInv, NEW w \in Walkers,
           \/ StartPass(w) \/ EndPass(w) \/ ReadRules(w) \/ NextRule(w) \/ ReadEligible(w)
           \/ BatchDone(w) \/ ReadMembers(w) \/ SinkRefuses(w) \/ Crash(w)
    PROVE  IInv'
<1>1. /\ QueueInv'
      /\ \A v \in Walkers : v # w => pc'[v] = pc[v] /\ walk'[v] = walk[v]
  BY QuietGoes DEF IInv
<1>2. /\ TypeOK /\ walk[w] \in Carry /\ pc \in [Walkers -> Places]
      /\ walk \in [Walkers -> Carry] /\ GroupKnown(w) /\ LeadKnown(w)
  BY CarryTypes DEF IInv, QueueInv, TypeOK, Places
<1> DEFINE Away == {"idle", "claim", "rules", "rule", "finish"}
<1>3. \A to, carry : Go(w, to, carry) => pc'[w] = to /\ walk'[w] = carry
  BY <1>2 DEF Go
<1>4. pc'[w] \in Away => GroupKnown(w)' /\ LeadKnown(w)'
  BY DEF GroupKnown, LeadKnown
<1>5. CASE StartPass(w) \/ EndPass(w) \/ ReadRules(w) \/ SinkRefuses(w)
  <2>1. pc'[w] \in Away /\ pc[w] # "setlead" /\ crashes' = crashes /\ UNCHANGED <<book, leads>>
    BY <1>3, <1>5 DEF StartPass, EndPass, ReadRules, SinkRefuses
  <2>2. QED
    BY <1>1, <1>4, <2>1, QuietKeeps
<1>6. CASE Crash(w)
  <2>1. pc'[w] \in Away /\ crashes' = crashes + 1 /\ UNCHANGED <<book, leads>>
    BY <1>3, <1>6 DEF Crash
  <2>2. QED
    BY <1>1, <1>4, <2>1, QuietKeeps
<1>7. CASE NextRule(w)
  <2>1. /\ pc[w] # "setlead" /\ crashes' = crashes /\ UNCHANGED <<book, leads>>
    BY <1>7 DEF NextRule
  <2>2. CASE Go(w, "finish", walk[w])
    BY <1>1, <1>3, <1>4, <2>1, <2>2, QuietKeeps
  <2>3. ASSUME NEW ru \in walk[w].rules,
               Go(w, "eligible", [walk[w] EXCEPT !.rule = ru, !.rules = @ \ {ru}])
        PROVE  IInv'
    <3>1. pc'[w] = "eligible"
      BY <1>3, <2>3
    <3>2. GroupKnown(w)' /\ LeadKnown(w)'
      BY <3>1 DEF GroupKnown, LeadKnown
    <3>3. QED
      BY <1>1, <2>1, <3>1, <3>2, QuietKeeps
  <2>4. QED
    BY <1>7, <2>2, <2>3 DEF NextRule
<1>8. CASE ReadEligible(w)
  <2>1. /\ pc[w] = "eligible" /\ crashes' = crashes /\ UNCHANGED <<book, leads>>
    BY <1>8 DEF ReadEligible
  <2>2. PICK B \in Batches(Unprovenanced(walk[w].rule, walk[w].event)) :
            IF B = {} THEN Go(w, "rule", walk[w])
            ELSE Go(w, "group", [walk[w] EXCEPT !.batch = B,
                                   !.groups = {GroupOf[r] : r \in B}])
    BY <1>8 DEF ReadEligible
  <2>3. \A r \in B : r \in Regs /\ EventOf[r] = walk[w].event
    BY <1>2 DEF Batches, Unprovenanced, TypeOK
  <2>4. CASE Go(w, "rule", walk[w])
    BY <1>1, <1>3, <1>4, <2>1, <2>4, QuietKeeps
  <2>5. CASE Go(w, "group", [walk[w] EXCEPT !.batch = B, !.groups = {GroupOf[r] : r \in B}])
    <3>1. /\ pc'[w] = "group" /\ walk'[w].batch = B /\ walk'[w].groups = {GroupOf[r] : r \in B}
          /\ walk'[w].rule = walk[w].rule /\ walk'[w].event = walk[w].event
      <4>1. /\ pc'[w] = "group"
            /\ walk'[w] = [walk[w] EXCEPT !.batch = B, !.groups = {GroupOf[r] : r \in B}]
        BY <1>3, <2>5
      <4>2. QED
        BY <1>2, <4>1 DEF Carry
    <3>3. /\ \A r \in walk'[w].batch : EventOf[r] = walk'[w].event
          /\ \A g \in walk'[w].groups : \E r \in walk'[w].batch : GroupOf[r] = g
      BY <2>3, <3>1
    <3>4. GroupKnown(w)'
      BY <3>1, <3>3 DEF GroupKnown
    <3>5. LeadKnown(w)'
      BY <3>1 DEF LeadKnown
    <3>6. QED
      BY <1>1, <2>1, <3>1, <3>4, <3>5, QuietKeeps
  <2>6. QED
    BY <2>2, <2>4, <2>5
<1>9. CASE BatchDone(w)
  <2>1. /\ pc[w] = "group" /\ crashes' = crashes /\ UNCHANGED <<book, leads>>
        /\ pc'[w] \in {"rule", "eligible"} /\ walk'[w] = walk[w]
    BY <1>3, <1>9 DEF BatchDone
  <2>2. GroupKnown(w)' /\ LeadKnown(w)'
    BY <1>2, <2>1 DEF GroupKnown, LeadKnown
  <2>3. QED
    BY <1>1, <2>1, <2>2, QuietKeeps
<1>10. CASE ReadMembers(w)
  <2> DEFINE known == {r \in Of(walk[w].group, Regs) : <<walk[w].rule, r>> \in junction}
             fresh == Of(walk[w].group, walk[w].batch) \ known
  <2>1. /\ pc[w] = "members" /\ crashes' = crashes /\ UNCHANGED <<book, leads>>
        /\ \/ Go(w, "group", walk[w])
           \/ Go(w, "sink", [walk[w] EXCEPT !.new = fresh, !.members = known \cup fresh])
    BY <1>10 DEF ReadMembers
  <2>2. fresh \subseteq Of(walk[w].group, known \cup fresh)
    BY DEF Of
  <2> HIDE DEF known, fresh
  <2>3. CASE Go(w, "group", walk[w])
    <3>1. pc'[w] = "group" /\ walk'[w] = walk[w]
      BY <1>3, <2>3
    <3>2. GroupKnown(w)' /\ LeadKnown(w)'
      BY <1>2, <2>1, <3>1 DEF GroupKnown, LeadKnown
    <3>3. QED
      BY <1>1, <2>1, <3>1, <3>2, QuietKeeps
  <2>4. CASE Go(w, "sink", [walk[w] EXCEPT !.new = fresh, !.members = known \cup fresh])
    <3>1. /\ pc'[w] = "sink" /\ walk'[w].new = fresh /\ walk'[w].members = known \cup fresh
          /\ walk'[w].rule = walk[w].rule /\ walk'[w].event = walk[w].event
          /\ walk'[w].batch = walk[w].batch /\ walk'[w].groups = walk[w].groups
          /\ walk'[w].group = walk[w].group /\ walk'[w].lead = walk[w].lead
      <4>1. /\ pc'[w] = "sink"
            /\ walk'[w] = [walk[w] EXCEPT !.new = fresh, !.members = known \cup fresh]
        BY <1>3, <2>4
      <4>2. QED
        BY <1>2, <4>1 DEF Carry
    <3>2. GroupKnown(w)'
      BY <1>2, <2>1, <3>1 DEF GroupKnown
    <3>3. LeadKnown(w)'
      <4>1. walk[w].lead = provenance[walk[w].rule][walk[w].group].lead
        BY <1>2, <2>1 DEF LeadKnown
      <4>2. walk'[w].lead = provenance'[walk'[w].rule][walk'[w].group].lead
        BY <2>1, <3>1, <4>1 DEF book
      <4>3. walk'[w].new \subseteq Of(walk'[w].group, walk'[w].members)
        BY <2>2, <3>1
      <4>4. QED
        BY <3>1, <4>2, <4>3 DEF LeadKnown, Of
    <3>4. QED
      BY <1>1, <2>1, <3>1, <3>2, <3>3, QuietKeeps
  <2>5. QED
    BY <2>1, <2>3, <2>4
<1>11. QED
  BY <1>5, <1>6, <1>7, <1>8, <1>9, <1>10

-----------------------------------------------------------------------------
(* The statements that take and give back a lease                          *)

\* A claim, by a pass or by the officer.
LEMMA ClaimGoes ==
    ASSUME QueueInv, NEW w \in Walkers, ClaimDue(w) \/ \E e \in Events : RunRequest(w, e)
    PROVE  /\ QueueInv' /\ UNCHANGED <<book, leads, crashes>>
           /\ pc[w] \in {"idle", "claim"} /\ pc'[w] = "rules"
           /\ \A v \in Walkers : v # w => pc'[v] = pc[v] /\ walk'[v] = walk[v]
<1>1. /\ TypeOK /\ walk[w] \in Carry /\ "rules" \in Places
  BY CarryTypes DEF QueueInv, Places
<1>2. PICK e \in Events, carry \in Carry :
          Lease(w, e, carry) /\ Claimable(e) /\ ~carry.late
  <2>1. CASE ClaimDue(w)
    <3>1. PICK e \in Due(w) : Lease(w, e, [walk[w] EXCEPT !.claimed = @ + 1])
      BY <2>1 DEF ClaimDue
    <3>2. /\ [walk[w] EXCEPT !.claimed = @ + 1] \in Carry
          /\ [walk[w] EXCEPT !.claimed = @ + 1].late = walk[w].late
      <4>1. walk[w].claimed \in 0..CronLimit /\ walk[w].claimed + 1 \in 0..CronLimit
        BY <1>1, <2>1, LeadAssumption DEF Carry, ClaimDue
      <4>2. QED
        BY <1>1, <4>1 DEF Carry
    <3>3. QED
      BY <3>1, <3>2, OnEvent DEF Due
  <2>2. CASE \E e \in Events : RunRequest(w, e)
    <3>1. [Nothing EXCEPT !.officer = TRUE] \in Carry /\ ~[Nothing EXCEPT !.officer = TRUE].late
      BY NothingType DEF Nothing, Carry
    <3>2. QED
      BY <2>2, <3>1 DEF RunRequest
  <2>3. QED
    BY <2>1, <2>2
<1>3. /\ request' \in [Events -> [there : BOOLEAN, done : BOOLEAN,
                                  lease : {"none", "fresh", "stale"}]]
      /\ request'[e].lease = "fresh"
      /\ \A f \in Events : f # e => request'[f] = request[f]
      /\ [carry EXCEPT !.event = e] \in Carry
      /\ Go(w, "rules", [carry EXCEPT !.event = e])
  BY <1>1, <1>2, LeaseTakes
<1>4. /\ pc' \in [Walkers -> Places] /\ walk' \in [Walkers -> Carry]
      /\ pc'[w] = "rules" /\ walk'[w] = [carry EXCEPT !.event = e]
      /\ \A v \in Walkers : v # w => pc'[v] = pc[v] /\ walk'[v] = walk[v]
  BY <1>1, <1>3, GoOne
<1>5. UNCHANGED <<db, book, leads, crashes>> /\ pc[w] \in {"idle", "claim"}
  BY DEF ClaimDue, RunRequest
<1>6. TypeOK'
  BY <1>1, <1>3, <1>4, <1>5 DEF TypeOK, Places, db, book
<1>7. walk'[w].event = e /\ ~walk'[w].late
  <2>1. [carry EXCEPT !.event = e].event = e /\ [carry EXCEPT !.event = e].late = carry.late
    BY DEF Carry
  <2>2. QED
    BY <1>2, <1>4, <2>1
<1>8. \A v \in Walkers : walk[v].event \in Events => walk[v].event # e
  BY <1>2, OnEvent DEF Claimable
<1>9. e # NoEvent
  BY LeadAssumption
<1>10. QueueInv'
  <2>1. pc'[w] \in {"idle", "claim"} <=> walk'[w].event = NoEvent
    BY <1>4, <1>7, <1>9
  <2>2. walk'[w].event \in Events => request'[walk'[w].event].lease = "fresh"
    BY <1>3, <1>7
  <2>3. \A v \in Walkers : v # w /\ walk[v].event \in Events =>
            /\ walk[v].event # walk'[w].event
            /\ request'[walk[v].event].lease = request[walk[v].event].lease
    BY <1>3, <1>7, <1>8
  <2>4. QED
    BY <1>4, <1>6, <1>7, <2>1, <2>2, <2>3, LeasesKept DEF OnRule
<1>11. QED
  BY <1>4, <1>5, <1>10

\* The end of a walk clears its own lease.
LEMMA FinishGoes ==
    ASSUME QueueInv, NEW w \in Walkers, Finish(w)
    PROVE  /\ QueueInv' /\ UNCHANGED <<book, leads, crashes>>
           /\ pc[w] = "finish" /\ pc'[w] \in {"idle", "claim"}
           /\ \A v \in Walkers : v # w => pc'[v] = pc[v] /\ walk'[v] = walk[v]
<1>1. /\ TypeOK /\ walk[w] \in Carry /\ {"idle", "claim"} \subseteq Places
  BY CarryTypes DEF QueueInv, Places
<1>2. /\ pc[w] = "finish" /\ UNCHANGED <<db, book, leads, crashes>>
  BY DEF Finish
<1>3. walk[w].event \in Events
  BY <1>2, OnEvent
<1>4. /\ request' \in [Events -> [there : BOOLEAN, done : BOOLEAN,
                                  lease : {"none", "fresh", "stale"}]]
      /\ \A f \in Events : f # walk[w].event => request'[f] = request[f]
  <2>1. request \in [Events -> [there : BOOLEAN, done : BOOLEAN, lease : {"none", "fresh", "stale"}]]
    BY <1>1 DEF TypeOK
  <2>2. request' = [request EXCEPT ![walk[w].event] =
                       [@ EXCEPT !.done = ~walk[w].refused, !.lease = "none"]]
    BY DEF Finish
  <2>3. [request[walk[w].event] EXCEPT !.done = ~walk[w].refused, !.lease = "none"]
           \in [there : BOOLEAN, done : BOOLEAN, lease : {"none", "fresh", "stale"}]
    BY <1>3, <2>1
  <2>4. QED
    BY <1>3, <2>1, <2>2, <2>3
<1>5. PICK to \in {"idle", "claim"}, carry \in Carry :
          Go(w, to, carry) /\ ~carry.late /\ carry.event = NoEvent
  <2> DEFINE P == IF walk[w].refused THEN walk[w].parked \cup {walk[w].event} ELSE walk[w].parked
             back == [Nothing EXCEPT !.claimed = walk[w].claimed, !.parked = P]
  <2>1. P \in SUBSET Events /\ walk[w].claimed \in 0..CronLimit
    BY <1>1, <1>3 DEF Carry
  <2>2. Go(w, "idle", Nothing) \/ Go(w, "claim", back)
    BY DEF Finish
  <2> HIDE DEF P
  <2>3. back \in Carry /\ ~back.late /\ back.event = NoEvent
    BY <2>1, NothingType DEF Nothing, Carry
  <2>4. Nothing \in Carry /\ ~Nothing.late /\ Nothing.event = NoEvent
    BY NothingType DEF Nothing
  <2> HIDE DEF back
  <2>5. QED
    BY <2>2, <2>3, <2>4
<1>6. /\ pc' \in [Walkers -> Places] /\ walk' \in [Walkers -> Carry]
      /\ pc'[w] = to /\ walk'[w] = carry
      /\ \A v \in Walkers : v # w => pc'[v] = pc[v] /\ walk'[v] = walk[v]
  BY <1>1, <1>5, GoOne
<1>7. TypeOK'
  BY <1>1, <1>2, <1>4, <1>6 DEF TypeOK, Places, db, book
<1>8. \A v \in Walkers : v # w /\ walk[v].event \in Events =>
          walk[v].event # NoEvent /\ walk[v].event # walk[w].event
  BY <1>3, Alone, LeadAssumption
<1>9. QueueInv'
  BY <1>3, <1>4, <1>5, <1>6, <1>7, <1>8, LeadAssumption, LeasesKept DEF OnRule
<1>10. QED
  BY <1>2, <1>5, <1>6, <1>9

LEMMA LeaseWalks ==
    ASSUME IInv, NEW w \in Walkers,
           ClaimDue(w) \/ Finish(w) \/ \E e \in Events : RunRequest(w, e)
    PROVE  IInv'
<1>1. /\ QueueInv' /\ UNCHANGED <<book, leads, crashes>>
      /\ pc[w] # "setlead" /\ pc'[w] \in {"idle", "claim", "rules"}
      /\ \A v \in Walkers : v # w => pc'[v] = pc[v] /\ walk'[v] = walk[v]
  BY ClaimGoes, FinishGoes DEF IInv
<1>2. GroupKnown(w)' /\ LeadKnown(w)'
  BY <1>1 DEF GroupKnown, LeadKnown
<1>3. QED
  BY <1>1, <1>2, QuietKeeps

-----------------------------------------------------------------------------
(* The statements that write the book and the host's leads                 *)

\* Where each of them goes; the lease is not touched.
LEMMA BookGoes ==
    ASSUME QueueInv, NEW w \in Walkers, NEW to \in Places \ {"idle", "claim"},
           NEW carry \in Carry, Go(w, to, carry), pc[w] \notin {"idle", "claim"},
           ~carry.late, carry.event = walk[w].event, OnRule(to) => carry.rule \in Rules,
           UNCHANGED <<db, request, crashes>>,
           provenance' \in [Rules -> [Groups -> [there : BOOLEAN, lead : Leads \cup {NoLead}]]],
           junction' \subseteq Rules \X Regs,
           leads' \in [Leads -> [status : {"none", "live", "absorbed"},
                                 rule : Rules \cup {NoRule}, group : Groups \cup {NoGroup},
                                 regs : SUBSET Regs]]
    PROVE  /\ QueueInv' /\ pc'[w] = to /\ walk'[w] = carry
           /\ \A v \in Walkers : v # w => pc'[v] = pc[v] /\ walk'[v] = walk[v]
<1>1. TypeOK
  BY DEF QueueInv
<1>2. /\ pc' \in [Walkers -> Places] /\ walk' \in [Walkers -> Carry]
      /\ pc'[w] = to /\ walk'[w] = carry
      /\ \A v \in Walkers : v # w => pc'[v] = pc[v] /\ walk'[v] = walk[v]
  BY <1>1, GoOne
<1>3. TypeOK'
  BY <1>1, <1>2 DEF TypeOK, Places, db
<1>4. walk[w].event # NoEvent
  BY OnEvent
<1>5. QueueInv'
  BY <1>3, <1>4, StaysOnEvent
<1>6. QED
  BY <1>2, <1>5

\* upsert_provenance.
LEMMA UpsertGoes ==
    ASSUME QueueInv, NEW w \in Walkers, UpsertProvenance(w)
    PROVE  \E g \in walk[w].groups :
               /\ QueueInv' /\ pc[w] = "group" /\ pc'[w] = "members"
               /\ walk'[w] = [walk[w] EXCEPT !.group = g, !.groups = @ \ {g},
                                             !.lead = provenance[walk[w].rule][g].lead]
               /\ \A v \in Walkers : v # w => pc'[v] = pc[v] /\ walk'[v] = walk[v]
               /\ UNCHANGED <<junction, leads, crashes>>
               /\ \A ru \in Rules, h \in Groups :
                     provenance'[ru][h].lead = provenance[ru][h].lead
<1>1. PICK g \in walk[w].groups :
          /\ provenance' = [provenance EXCEPT ![walk[w].rule][g].there = TRUE]
          /\ Go(w, "members", [walk[w] EXCEPT !.group = g, !.groups = @ \ {g},
                                 !.lead = provenance[walk[w].rule][g].lead])
  BY DEF UpsertProvenance
<1>2. /\ pc[w] = "group" /\ UNCHANGED <<db, request, junction, leads, crashes>>
  BY DEF UpsertProvenance
<1>3. /\ TypeOK /\ walk[w] \in Carry /\ g \in Groups /\ walk[w].rule \in Rules
  <2>1. TypeOK /\ walk[w].rule \in Rules
    BY <1>2 DEF QueueInv, RuleKnown, OnRule
  <2>2. walk[w] \in Carry
    BY <2>1, CarryTypes
  <2>3. walk[w].groups \subseteq Groups
    BY <2>2 DEF Carry
  <2>4. QED
    BY <2>1, <2>2, <2>3
<1>4. provenance \in [Rules -> [Groups -> [there : BOOLEAN, lead : Leads \cup {NoLead}]]]
  BY <1>3 DEF TypeOK
<1>5. provenance' \in [Rules -> [Groups -> [there : BOOLEAN, lead : Leads \cup {NoLead}]]]
  <2>1. provenance' = [provenance EXCEPT ![walk[w].rule][g].there = TRUE]
    BY <1>1
  <2>2. [provenance[walk[w].rule][g] EXCEPT !.there = TRUE]
            \in [there : BOOLEAN, lead : Leads \cup {NoLead}]
    <3>1. \A x \in [there : BOOLEAN, lead : Leads \cup {NoLead}] :
             [x EXCEPT !.there = TRUE] \in [there : BOOLEAN, lead : Leads \cup {NoLead}]
      OBVIOUS
    <3>2. provenance[walk[w].rule][g] \in [there : BOOLEAN, lead : Leads \cup {NoLead}]
      BY <1>3, <1>4
    <3>3. QED
      BY <3>1, <3>2
  <2> DEFINE row == [provenance[walk[w].rule] EXCEPT ![g] =
                        [provenance[walk[w].rule][g] EXCEPT !.there = TRUE]]
  <2>3. row \in [Groups -> [there : BOOLEAN, lead : Leads \cup {NoLead}]]
    <3>1. provenance[walk[w].rule] \in [Groups -> [there : BOOLEAN, lead : Leads \cup {NoLead}]]
      BY <1>3, <1>4
    <3>2. QED
      BY <1>3, <2>2, <3>1
  <2>4. provenance' = [provenance EXCEPT ![walk[w].rule] = row]
    BY <2>1
  <2> HIDE DEF row
  <2>5. QED
    BY <1>3, <1>4, <2>3, <2>4
<1>6. \A ru \in Rules, h \in Groups : provenance'[ru][h].lead = provenance[ru][h].lead
  BY <1>1, <1>3, <1>4
<1> DEFINE carry == [walk[w] EXCEPT !.group = g, !.groups = @ \ {g},
                                    !.lead = provenance[walk[w].rule][g].lead]
<1>7. provenance[walk[w].rule][g].lead \in Leads \cup {NoLead}
  BY <1>3, <1>4
<1>8. carry \in Carry
  BY <1>3, <1>7, CarryTypes
<1>9. carry.late = walk[w].late /\ carry.event = walk[w].event /\ carry.rule = walk[w].rule
  BY <1>3 DEF Carry
<1>10. Go(w, "members", carry)
  BY <1>1
<1> HIDE DEF carry
<1>11. /\ QueueInv' /\ pc'[w] = "members" /\ walk'[w] = carry
       /\ \A v \in Walkers : v # w => pc'[v] = pc[v] /\ walk'[v] = walk[v]
  <2>1. "members" \in Places \ {"idle", "claim"} /\ ~carry.late
    BY <1>9, OnEvent DEF Places
  <2>2. junction' \subseteq Rules \X Regs
    BY <1>2, <1>3 DEF TypeOK
  <2>3. leads' \in [Leads -> [status : {"none", "live", "absorbed"},
                              rule : Rules \cup {NoRule}, group : Groups \cup {NoGroup},
                              regs : SUBSET Regs]]
    BY <1>2, <1>3 DEF TypeOK
  <2>4. QED
    BY <1>2, <1>3, <1>5, <1>8, <1>9, <1>10, <2>1, <2>2, <2>3, BookGoes
<1>12. QED
  BY <1>1, <1>2, <1>6, <1>11 DEF carry

LEMMA UpsertKeeps ==
    ASSUME IInv, NEW w \in Walkers, UpsertProvenance(w)
    PROVE  IInv'
<1>1. PICK g \in walk[w].groups :
          /\ QueueInv' /\ pc[w] = "group" /\ pc'[w] = "members"
          /\ walk'[w] = [walk[w] EXCEPT !.group = g, !.groups = @ \ {g},
                                        !.lead = provenance[walk[w].rule][g].lead]
          /\ \A v \in Walkers : v # w => pc'[v] = pc[v] /\ walk'[v] = walk[v]
          /\ UNCHANGED <<junction, leads, crashes>>
          /\ \A ru \in Rules, h \in Groups :
                provenance'[ru][h].lead = provenance[ru][h].lead
  BY UpsertGoes DEF IInv
<1>2. /\ walk[w] \in Carry /\ walk[w].rule \in Rules /\ g \in Groups /\ GroupKnown(w)
  <2>1. TypeOK /\ walk[w].rule \in Rules /\ GroupKnown(w)
    BY <1>1 DEF IInv, QueueInv, RuleKnown, OnRule
  <2>2. walk[w] \in Carry
    BY <2>1, CarryTypes
  <2>3. walk[w].groups \subseteq Groups
    BY <2>2 DEF Carry
  <2>4. QED
    BY <2>1, <2>2, <2>3
<1>3. /\ walk'[w].event = walk[w].event /\ walk'[w].rule = walk[w].rule
      /\ walk'[w].batch = walk[w].batch /\ walk'[w].groups = walk[w].groups \ {g}
      /\ walk'[w].group = g /\ walk'[w].lead = provenance[walk[w].rule][g].lead
  BY <1>1, <1>2 DEF Carry
<1>4. GroupKnown(w)'
  <2>1. /\ \A r \in walk[w].batch : EventOf[r] = walk[w].event /\ r \in Regs
        /\ \A h \in walk[w].groups : \E r \in walk[w].batch : GroupOf[r] = h
    BY <1>1, <1>2 DEF GroupKnown, Carry
  <2>2. QED
    BY <1>1, <1>3, <2>1 DEF GroupKnown
<1>5. LeadKnown(w)'
  BY <1>1, <1>2, <1>3 DEF LeadKnown
<1>6. JunctionIsDelivered'
  <2>1. \A r \in Regs : GroupOf[r] \in Groups
    BY LeadAssumption
  <2>2. QED
    BY <1>1, <2>1 DEF IInv, JunctionIsDelivered
<1>7. QED
  BY <1>1, <1>4, <1>5, <1>6, LinksKept

LeadRow == [status : {"none", "live", "absorbed"}, rule : Rules \cup {NoRule},
            group : Groups \cup {NoGroup}, regs : SUBSET Regs]
LinkRow == [there : BOOLEAN, lead : Leads \cup {NoLead}]

\* The type invariant's rows, by name.
LEMMA RowTypes ==
    ASSUME TypeOK
    PROVE  /\ leads \in [Leads -> LeadRow] /\ provenance \in [Rules -> [Groups -> LinkRow]]
           /\ junction \subseteq Rules \X Regs
BY DEF TypeOK, LeadRow, LinkRow

\* A walker that keeps what it carries and goes on to its next statement.
LEMMA CarryOn ==
    ASSUME QueueInv, NEW w \in Walkers, NEW to \in Places \ {"idle", "claim"},
           Go(w, to, walk[w]), pc[w] \in {"sink", "setlead", "junction"},
           UNCHANGED <<db, request, crashes>>,
           provenance' \in [Rules -> [Groups -> LinkRow]],
           junction' \subseteq Rules \X Regs, leads' \in [Leads -> LeadRow]
    PROVE  /\ QueueInv' /\ pc'[w] = to /\ walk'[w] = walk[w]
           /\ \A v \in Walkers : v # w => pc'[v] = pc[v] /\ walk'[v] = walk[v]
<1>1. walk[w] \in Carry /\ ~walk[w].late /\ walk[w].rule \in Rules
  BY CarryTypes, OnEvent DEF QueueInv, RuleKnown, OnRule
<1>2. QED
  BY <1>1, BookGoes DEF LinkRow, LeadRow

\* set_lead, after a mint.
LEMMA SetLeadGoes ==
    ASSUME QueueInv, NEW w \in Walkers, SetLead(w)
    PROVE  /\ QueueInv' /\ pc'[w] = "junction" /\ walk'[w] = walk[w]
           /\ \A v \in Walkers : v # w => pc'[v] = pc[v] /\ walk'[v] = walk[v]
           /\ \A s \in Rules, h \in Groups : provenance'[s][h].lead =
                 IF s = walk[w].rule /\ h = walk[w].group THEN walk[w].lead
                 ELSE provenance[s][h].lead
<1>1. /\ pc[w] = "setlead" /\ UNCHANGED <<db, request, junction, leads, crashes>>
      /\ provenance' = [provenance EXCEPT ![walk[w].rule][walk[w].group].lead = walk[w].lead]
      /\ Go(w, "junction", walk[w])
  BY DEF SetLead
<1>2. TypeOK /\ walk[w].rule \in Rules
  BY <1>1 DEF QueueInv, RuleKnown, OnRule
<1>3. walk[w].lead \in Leads \cup {NoLead}
  BY <1>2, CarryTypes DEF Carry
<1>4. /\ provenance' \in [Rules -> [Groups -> LinkRow]]
      /\ \A s \in Rules, h \in Groups : provenance'[s][h].lead =
            IF s = walk[w].rule /\ h = walk[w].group THEN walk[w].lead
            ELSE provenance[s][h].lead
  <2>1. provenance \in [Rules -> [Groups -> LinkRow]]
    BY <1>2, RowTypes
  <2>2. provenance' = [provenance EXCEPT ![walk[w].rule][walk[w].group].lead = walk[w].lead]
    BY <1>1
  <2> DEFINE ru == walk[w].rule
             g == walk[w].group
             l == walk[w].lead
             row == [provenance[ru] EXCEPT ![g].lead = l]
  <2>3. ru \in Rules /\ l \in Leads \cup {NoLead}
    BY <1>2, <1>3
  <2>4. provenance' = [provenance EXCEPT ![ru] = row]
    BY <2>2
  <2> HIDE DEF ru, g, l
  <2>5. provenance[ru] \in [Groups -> LinkRow] /\ \A s \in Rules, h \in Groups : provenance[s][h] \in LinkRow
    BY <2>1, <2>3
  <2>6. \A x \in LinkRow : [x EXCEPT !.lead = l] \in LinkRow /\ [x EXCEPT !.lead = l].lead = l
    BY <2>3 DEF LinkRow
  <2>7. DOMAIN row = Groups /\ \A h \in Groups :
            row[h] = IF h = g THEN [provenance[ru][h] EXCEPT !.lead = l] ELSE provenance[ru][h]
    BY <2>5
  <2>8. row \in [Groups -> LinkRow]
    <3>1. \A h \in Groups : row[h] \in LinkRow
      BY <2>5, <2>6, <2>7
    <3>2. row = [h \in Groups |-> row[h]]
      BY <2>5
    <3> HIDE DEF row
    <3>3. QED
      BY <3>1, <3>2
  <2>9. \A h \in Groups : row[h].lead = IF h = g THEN l ELSE provenance[ru][h].lead
    BY <2>5, <2>6, <2>7
  <2> HIDE DEF row
  <2>10. QED
    BY <2>1, <2>3, <2>4, <2>5, <2>8, <2>9 DEF ru, g, l
<1>5. QED
  BY <1>1, <1>2, <1>4, RowTypes, CarryOn DEF Places

LEMMA SetLeadKeeps ==
    ASSUME IInv, GroupsOfOneEvent, NEW w \in Walkers, SetLead(w)
    PROVE  IInv'
<1>1. /\ pc[w] = "setlead" /\ UNCHANGED <<junction, leads, crashes>>
  BY DEF SetLead
<1>2. /\ QueueInv' /\ pc'[w] = "junction" /\ walk'[w] = walk[w]
      /\ \A v \in Walkers : v # w => pc'[v] = pc[v] /\ walk'[v] = walk[v]
      /\ \A s \in Rules, h \in Groups : provenance'[s][h].lead =
            IF s = walk[w].rule /\ h = walk[w].group THEN walk[w].lead
            ELSE provenance[s][h].lead
  BY SetLeadGoes DEF IInv
<1>3. walk[w].rule \in Rules /\ walk[w].group \in Groups
  BY <1>1, GroupTypes
<1>4. GroupKnown(w) /\ LeadKnown(w)
  BY DEF IInv
<1>5. /\ provenance[walk[w].rule][walk[w].group].lead = NoLead
      /\ walk[w].lead \in Leads /\ leads[walk[w].lead].status # "none"
  BY <1>1, <1>4 DEF LeadKnown
<1>6. \A v \in Walkers : GroupKnown(v)' /\ LeadKnown(v)'
  <2>1. GroupKnown(w)'
    BY <1>1, <1>2, <1>4 DEF GroupKnown
  <2>2. LeadKnown(w)'
    BY <1>1, <1>2, <1>3, <1>4 DEF LeadKnown, Of
  <2>3. ASSUME NEW v \in Walkers, v # w PROVE GroupKnown(v)' /\ LeadKnown(v)'
    <3>1. pc[v] \in {"members", "sink", "setlead", "junction"} =>
              /\ walk[v].rule \in Rules /\ walk[v].group \in Groups
              /\ walk[v].group # walk[w].group
      BY <1>1, <2>3, GroupTypes, AloneInGroup
    <3>2. QED
      BY <1>1, <1>2, <2>3, <3>1, OthersKnow
  <2>4. QED
    BY <2>1, <2>2, <2>3
<1>7. LinkedIsMinted'
  BY <1>1, <1>2, <1>5 DEF IInv, LinkedIsMinted
<1>8. JunctionIsDelivered'
  <2> SUFFICES ASSUME NEW ru \in Rules, NEW r \in Regs, <<ru, r>> \in junction
               PROVE  /\ provenance'[ru][GroupOf[r]].lead \in Leads
                      /\ r \in leads[provenance'[ru][GroupOf[r]].lead].regs
    BY <1>1 DEF JunctionIsDelivered
  <2>1. /\ provenance[ru][GroupOf[r]].lead \in Leads
        /\ r \in leads[provenance[ru][GroupOf[r]].lead].regs
    BY DEF IInv, JunctionIsDelivered
  <2>2. ~(ru = walk[w].rule /\ GroupOf[r] = walk[w].group)
    BY <1>5, <2>1, LeadAssumption
  <2>3. GroupOf[r] \in Groups
    BY LeadAssumption
  <2>4. QED
    BY <1>2, <2>1, <2>2, <2>3
<1>9. LostByCrash'
  <2> SUFFICES ASSUME NEW ru \in Rules, NEW g \in Groups
               PROVE  /\ IsFiniteSet(Minted(ru, g)')
                      /\ Cardinality(Minted(ru, g)') <= crashes' + (IF Held(ru, g)' THEN 1 ELSE 0)
    BY DEF LostByCrash
  <2>1. /\ IsFiniteSet(Minted(ru, g))
        /\ Cardinality(Minted(ru, g)) <= crashes + (IF Held(ru, g) THEN 1 ELSE 0)
    BY DEF IInv, LostByCrash
  <2>2. Minted(ru, g)' = Minted(ru, g)
    BY <1>1 DEF Minted
  <2>3. Held(ru, g) => Held(ru, g)'
    <3>1. CASE ru = walk[w].rule /\ g = walk[w].group
      <4>1. provenance'[ru][g].lead # NoLead
        BY <1>2, <1>5, <3>1, LeadAssumption
      <4>2. QED
        BY <4>1 DEF Held
    <3>2. CASE ~(ru = walk[w].rule /\ g = walk[w].group)
      BY <1>2, <3>2 DEF Held
    <3>3. QED
      BY <3>1, <3>2
  <2>4. crashes \in Nat /\ Cardinality(Minted(ru, g)) \in Nat
    BY <2>1, FS_CardinalityType DEF IInv, QueueInv, TypeOK
  <2>5. QED
    BY <1>1, <2>1, <2>2, <2>3, <2>4
<1>10. QED
  BY <1>2, <1>6, <1>7, <1>8, <1>9 DEF IInv

\* add_junction, after the sink took the group.
LEMMA JunctionGoes ==
    ASSUME QueueInv, NEW w \in Walkers, AddJunction(w)
    PROVE  /\ QueueInv' /\ pc'[w] = "group" /\ walk'[w] = walk[w]
           /\ \A v \in Walkers : v # w => pc'[v] = pc[v] /\ walk'[v] = walk[v]
<1>1. /\ pc[w] = "junction" /\ UNCHANGED <<db, request, provenance, leads, crashes>>
      /\ junction' = junction \cup ({walk[w].rule} \X walk[w].new)
      /\ Go(w, "group", walk[w])
  BY DEF AddJunction
<1>2. TypeOK /\ walk[w].rule \in Rules
  BY <1>1 DEF QueueInv, RuleKnown, OnRule
<1>3. walk[w].new \subseteq Regs
  BY <1>2, CarryTypes DEF Carry
<1>4. junction' \subseteq Rules \X Regs
  BY <1>1, <1>2, <1>3, RowTypes
<1>5. provenance' \in [Rules -> [Groups -> LinkRow]] /\ leads' \in [Leads -> LeadRow]
  BY <1>1, <1>2, RowTypes
<1>6. "group" \in Places \ {"idle", "claim"}
  BY DEF Places
<1>7. QED
  BY <1>1, <1>4, <1>5, <1>6, CarryOn

LEMMA JunctionKeeps ==
    ASSUME IInv, NEW w \in Walkers, AddJunction(w)
    PROVE  IInv'
<1>1. /\ pc[w] = "junction" /\ UNCHANGED <<provenance, leads, crashes>>
      /\ junction' = junction \cup ({walk[w].rule} \X walk[w].new)
  BY DEF AddJunction
<1>2. /\ QueueInv' /\ pc'[w] = "group" /\ walk'[w] = walk[w]
      /\ \A v \in Walkers : v # w => pc'[v] = pc[v] /\ walk'[v] = walk[v]
  BY JunctionGoes DEF IInv
<1>3. GroupKnown(w) /\ LeadKnown(w)
  BY DEF IInv
<1>4. GroupKnown(w)' /\ LeadKnown(w)'
  BY <1>1, <1>2, <1>3 DEF GroupKnown, LeadKnown
<1>5. JunctionIsDelivered'
  <2> SUFFICES ASSUME NEW ru \in Rules, NEW r \in Regs, <<ru, r>> \in junction'
               PROVE  /\ provenance[ru][GroupOf[r]].lead \in Leads
                      /\ r \in leads[provenance[ru][GroupOf[r]].lead].regs
    BY <1>1 DEF JunctionIsDelivered
  <2>1. CASE <<ru, r>> \in junction
    BY <2>1 DEF IInv, JunctionIsDelivered
  <2>2. CASE ru = walk[w].rule /\ r \in walk[w].new
    <3>1. GroupOf[r] = walk[w].group /\ r \in walk[w].members
      BY <1>1, <1>3, <2>2 DEF LeadKnown, Of
    <3>2. /\ walk[w].lead = provenance[ru][GroupOf[r]].lead
          /\ walk[w].lead \in Leads /\ r \in leads[walk[w].lead].regs
      BY <1>1, <1>3, <2>2, <3>1 DEF LeadKnown
    <3>3. QED
      BY <3>2
  <2>3. QED
    BY <1>1, <2>1, <2>2
<1>6. QED
  BY <1>1, <1>2, <1>4, <1>5, LinksKept

\* create_lead: the host mints one.
LEMMA CreateGoes ==
    ASSUME QueueInv, NEW w \in Walkers, CreateLead(w)
    PROVE  \E l \in Leads :
               /\ QueueInv' /\ pc'[w] = "setlead" /\ walk'[w] = [walk[w] EXCEPT !.lead = l]
               /\ \A v \in Walkers : v # w => pc'[v] = pc[v] /\ walk'[v] = walk[v]
               /\ leads[l].status = "none"
               /\ leads' = [leads EXCEPT ![l] = [status |-> "live", rule |-> walk[w].rule,
                               group |-> walk[w].group, regs |-> walk[w].members]]
<1>1. PICK l \in Leads :
          /\ leads[l].status = "none"
          /\ leads' = [leads EXCEPT ![l] = [status |-> "live", rule |-> walk[w].rule,
                          group |-> walk[w].group, regs |-> walk[w].members]]
          /\ Go(w, "setlead", [walk[w] EXCEPT !.lead = l])
  BY DEF CreateLead
<1>2. /\ pc[w] = "sink" /\ UNCHANGED <<db, request, book, crashes>>
  BY DEF CreateLead
<1>3. TypeOK /\ walk[w].rule \in Rules
  BY <1>2 DEF QueueInv, RuleKnown, OnRule
<1>4. walk[w] \in Carry
  BY <1>3, CarryTypes
<1>5. leads' \in [Leads -> LeadRow]
  <2>1. [status |-> "live", rule |-> walk[w].rule, group |-> walk[w].group,
         regs |-> walk[w].members] \in LeadRow
    BY <1>3, <1>4 DEF LeadRow, Carry
  <2>2. QED
    BY <1>1, <1>3, <2>1, RowTypes
<1> DEFINE carry == [walk[w] EXCEPT !.lead = l]
<1>6. /\ carry \in Carry
      /\ carry.late = walk[w].late /\ carry.event = walk[w].event /\ carry.rule = walk[w].rule
  BY <1>4 DEF Carry
<1>7. Go(w, "setlead", carry)
  BY <1>1
<1> HIDE DEF carry
<1>8. "setlead" \in Places \ {"idle", "claim"} /\ ~carry.late
  BY <1>6, OnEvent DEF Places
<1>9. /\ provenance' \in [Rules -> [Groups -> LinkRow]] /\ junction' \subseteq Rules \X Regs
  BY <1>2, <1>3, RowTypes DEF book
<1>10. /\ QueueInv' /\ pc'[w] = "setlead" /\ walk'[w] = carry
       /\ \A v \in Walkers : v # w => pc'[v] = pc[v] /\ walk'[v] = walk[v]
  BY <1>2, <1>3, <1>5, <1>6, <1>7, <1>8, <1>9, BookGoes DEF LeadRow, LinkRow
<1>11. QED
  BY <1>1, <1>10 DEF carry

LEMMA CreateKeeps ==
    ASSUME IInv, GroupsOfOneEvent, NEW w \in Walkers, CreateLead(w)
    PROVE  IInv'
<1>1. PICK l \in Leads :
          /\ QueueInv' /\ pc'[w] = "setlead" /\ walk'[w] = [walk[w] EXCEPT !.lead = l]
          /\ \A v \in Walkers : v # w => pc'[v] = pc[v] /\ walk'[v] = walk[v]
          /\ leads[l].status = "none"
          /\ leads' = [leads EXCEPT ![l] = [status |-> "live", rule |-> walk[w].rule,
                          group |-> walk[w].group, regs |-> walk[w].members]]
  BY CreateGoes DEF IInv
<1>2. /\ pc[w] = "sink" /\ walk[w].lead = NoLead /\ UNCHANGED <<book, crashes>>
  BY DEF CreateLead
<1>3. /\ walk[w].rule \in Rules /\ walk[w].group \in Groups /\ walk[w] \in Carry
      /\ leads \in [Leads -> LeadRow] /\ crashes \in Nat
  <2>1. TypeOK /\ crashes \in Nat
    BY DEF IInv, QueueInv, TypeOK
  <2>2. walk[w] \in Carry /\ leads \in [Leads -> LeadRow]
    BY <2>1, CarryTypes, RowTypes
  <2>3. QED
    BY <1>2, <2>1, <2>2, GroupTypes
<1>4. GroupKnown(w) /\ LeadKnown(w)
  BY DEF IInv
<1>5. provenance[walk[w].rule][walk[w].group].lead = NoLead
  BY <1>2, <1>4 DEF LeadKnown
<1>6. /\ leads'[l] = [status |-> "live", rule |-> walk[w].rule,
                      group |-> walk[w].group, regs |-> walk[w].members]
      /\ \A k \in Leads : k # l => leads'[k] = leads[k]
  BY <1>1, <1>3
<1>7. \A k \in Leads : leads[k].status # "none" =>
          leads'[k].status # "none" /\ leads[k].regs \subseteq leads'[k].regs
  BY <1>1, <1>6
<1>8. \A v \in Walkers : GroupKnown(v)' /\ LeadKnown(v)'
  <2>1. /\ walk'[w].rule = walk[w].rule /\ walk'[w].event = walk[w].event
        /\ walk'[w].batch = walk[w].batch /\ walk'[w].groups = walk[w].groups
        /\ walk'[w].group = walk[w].group /\ walk'[w].new = walk[w].new
        /\ walk'[w].members = walk[w].members /\ walk'[w].lead = l
    BY <1>1, <1>3 DEF Carry
  <2>2. GroupKnown(w)'
    BY <1>1, <1>2, <1>4, <2>1 DEF GroupKnown
  <2>3. LeadKnown(w)'
    <3>1. walk[w].new \subseteq Of(walk[w].group, walk[w].members)
      BY <1>2, <1>4 DEF LeadKnown
    <3>2. walk'[w].new \subseteq Of(walk'[w].group, walk'[w].members)
      BY <2>1, <3>1
    <3>3. provenance'[walk'[w].rule][walk'[w].group].lead = NoLead
      BY <1>2, <1>5, <2>1 DEF book
    <3>4. /\ walk'[w].lead \in Leads /\ leads'[walk'[w].lead].status # "none"
          /\ walk'[w].members \subseteq leads'[walk'[w].lead].regs
      BY <1>6, <2>1
    <3>5. QED
      BY <1>1, <3>2, <3>3, <3>4 DEF LeadKnown, Of
  <2>4. QED
    BY <1>1, <1>2, <1>7, <2>2, <2>3, OthersKnow DEF book
<1>9. LinkedIsMinted'
  BY <1>2, <1>7 DEF IInv, LinkedIsMinted, book
<1>10. JunctionIsDelivered'
  <2>1. \A r \in Regs : GroupOf[r] \in Groups
    BY LeadAssumption
  <2>2. QED
    BY <1>2, <1>7, <2>1 DEF IInv, LinkedIsMinted, JunctionIsDelivered, book
<1>11. LostByCrash'
  <2> SUFFICES ASSUME NEW ru \in Rules, NEW g \in Groups
               PROVE  /\ IsFiniteSet(Minted(ru, g)')
                      /\ Cardinality(Minted(ru, g)') <= crashes + (IF Held(ru, g)' THEN 1 ELSE 0)
    BY <1>2 DEF LostByCrash
  <2>1. /\ IsFiniteSet(Minted(ru, g))
        /\ Cardinality(Minted(ru, g)) <= crashes + (IF Held(ru, g) THEN 1 ELSE 0)
    BY DEF IInv, LostByCrash
  <2>2. CASE ru = walk[w].rule /\ g = walk[w].group
    <3>1. ~Held(ru, g)
      <4>1. \A v \in Walkers : pc[v] = "setlead" => walk[v].group # walk[w].group
        BY <1>2, AloneInGroup
      <4>2. QED
        BY <1>5, <2>2, <4>1 DEF Held
    <3>2. Held(ru, g)'
      <4>1. walk'[w].rule = walk[w].rule /\ walk'[w].group = walk[w].group
        BY <1>1, <1>3 DEF Carry
      <4>2. QED
        BY <1>1, <2>2, <4>1 DEF Held
    <3>3. Minted(ru, g)' \subseteq Minted(ru, g) \cup {l}
      BY <1>6 DEF Minted
    <3>4. /\ IsFiniteSet(Minted(ru, g) \cup {l})
          /\ Cardinality(Minted(ru, g) \cup {l}) =
                IF l \in Minted(ru, g) THEN Cardinality(Minted(ru, g))
                                       ELSE Cardinality(Minted(ru, g)) + 1
      BY <2>1, FS_AddElement
    <3>5. /\ IsFiniteSet(Minted(ru, g)')
          /\ Cardinality(Minted(ru, g)') <= Cardinality(Minted(ru, g) \cup {l})
      BY <3>3, <3>4, FS_Subset
    <3>6. Cardinality(Minted(ru, g)) \in Nat /\ Cardinality(Minted(ru, g)') \in Nat
      BY <2>1, <3>5, FS_CardinalityType
    <3>7. Cardinality(Minted(ru, g) \cup {l}) <= Cardinality(Minted(ru, g)) + 1
      BY <3>4, <3>6
    <3>8. QED
      BY <1>3, <2>1, <3>1, <3>2, <3>5, <3>6, <3>4, <3>7
  <2>3. CASE ~(ru = walk[w].rule /\ g = walk[w].group)
    <3>1. Minted(ru, g)' \subseteq Minted(ru, g)
      BY <1>6, <2>3 DEF Minted
    <3>2. /\ IsFiniteSet(Minted(ru, g)')
          /\ Cardinality(Minted(ru, g)') <= Cardinality(Minted(ru, g))
      BY <2>1, <3>1, FS_Subset
    <3>3. Held(ru, g) => Held(ru, g)'
      BY <1>1, <1>2, <2>3 DEF Held, book
    <3>4. Cardinality(Minted(ru, g)) \in Nat /\ Cardinality(Minted(ru, g)') \in Nat
      BY <2>1, <3>2, FS_CardinalityType
    <3>5. QED
      BY <1>3, <2>1, <3>2, <3>3, <3>4
  <2>4. QED
    BY <2>2, <2>3
<1>12. QED
  BY <1>1, <1>8, <1>9, <1>10, <1>11 DEF IInv

\* update_lead: the host adds to one.
LEMMA UpdateGoes ==
    ASSUME QueueInv, NEW w \in Walkers, UpdateLead(w)
    PROVE  /\ QueueInv' /\ pc'[w] = "junction" /\ walk'[w] = walk[w]
           /\ \A v \in Walkers : v # w => pc'[v] = pc[v] /\ walk'[v] = walk[v]
           /\ walk[w].lead \in Leads
           /\ \A l \in Leads :
                 /\ leads'[l].status = leads[l].status /\ leads'[l].rule = leads[l].rule
                 /\ leads'[l].group = leads[l].group /\ leads[l].regs \subseteq leads'[l].regs
           /\ walk[w].members \subseteq leads'[walk[w].lead].regs
<1>1. /\ pc[w] = "sink" /\ walk[w].lead # NoLead
      /\ leads' = [leads EXCEPT ![walk[w].lead].regs = @ \cup walk[w].members]
      /\ Go(w, "junction", walk[w])
      /\ UNCHANGED <<db, request, book, crashes>>
  BY DEF UpdateLead
<1>2. TypeOK
  BY DEF QueueInv
<1>3. walk[w].lead \in Leads /\ walk[w].members \subseteq Regs
  BY <1>1, <1>2, CarryTypes DEF Carry
<1>4. leads \in [Leads -> LeadRow]
  BY <1>2, RowTypes
<1>5. \A x \in LeadRow : LET y == [x EXCEPT !.regs = @ \cup walk[w].members] IN
          /\ y \in LeadRow /\ y.status = x.status /\ y.rule = x.rule /\ y.group = x.group
          /\ y.regs = x.regs \cup walk[w].members
  BY <1>3 DEF LeadRow
<1>6. leads'[walk[w].lead] = [leads[walk[w].lead] EXCEPT !.regs = @ \cup walk[w].members]
  BY <1>1, <1>3, <1>4
<1>7. DOMAIN leads' = Leads /\ \A l \in Leads : l # walk[w].lead => leads'[l] = leads[l]
  BY <1>1, <1>4
<1>8. leads' \in [Leads -> LeadRow]
  <2>1. leads' = [l \in Leads |-> leads'[l]]
    BY <1>1, <1>4
  <2>2. \A l \in Leads : leads'[l] \in LeadRow
    BY <1>3, <1>4, <1>5, <1>6, <1>7
  <2>3. QED
    BY <2>1, <2>2
<1>9. /\ \A l \in Leads :
            /\ leads'[l].status = leads[l].status /\ leads'[l].rule = leads[l].rule
            /\ leads'[l].group = leads[l].group /\ leads[l].regs \subseteq leads'[l].regs
      /\ walk[w].members \subseteq leads'[walk[w].lead].regs
  <2> DEFINE x == leads[walk[w].lead]
             y == leads'[walk[w].lead]
  <2>1. y.status = x.status /\ y.rule = x.rule /\ y.group = x.group
        /\ y.regs = x.regs \cup walk[w].members
    <3>1. x \in LeadRow
      BY <1>3, <1>4
    <3>2. y = [x EXCEPT !.regs = @ \cup walk[w].members]
      BY <1>6
    <3> HIDE DEF x, y
    <3>3. QED
      BY <1>5, <3>1, <3>2
  <2>2. QED
    BY <1>7, <2>1
<1>10. /\ provenance' \in [Rules -> [Groups -> LinkRow]] /\ junction' \subseteq Rules \X Regs
       /\ "junction" \in Places \ {"idle", "claim"}
  BY <1>1, <1>2, RowTypes DEF book, Places
<1>11. /\ QueueInv' /\ pc'[w] = "junction" /\ walk'[w] = walk[w]
       /\ \A v \in Walkers : v # w => pc'[v] = pc[v] /\ walk'[v] = walk[v]
  BY <1>1, <1>8, <1>10, CarryOn
<1>12. QED
  BY <1>3, <1>9, <1>11

LEMMA UpdateKeeps ==
    ASSUME IInv, NEW w \in Walkers, UpdateLead(w)
    PROVE  IInv'
<1>1. /\ pc[w] = "sink" /\ UNCHANGED <<book, crashes>>
  BY DEF UpdateLead
<1>2. /\ QueueInv' /\ pc'[w] = "junction" /\ walk'[w] = walk[w]
      /\ \A v \in Walkers : v # w => pc'[v] = pc[v] /\ walk'[v] = walk[v]
      /\ walk[w].lead \in Leads
      /\ \A l \in Leads :
            /\ leads'[l].status = leads[l].status /\ leads'[l].rule = leads[l].rule
            /\ leads'[l].group = leads[l].group /\ leads[l].regs \subseteq leads'[l].regs
      /\ walk[w].members \subseteq leads'[walk[w].lead].regs
  BY UpdateGoes DEF IInv
<1>3. GroupKnown(w) /\ LeadKnown(w)
  BY DEF IInv
<1>4. \A v \in Walkers : GroupKnown(v)' /\ LeadKnown(v)'
  <2>1. GroupKnown(w)'
    BY <1>1, <1>2, <1>3 DEF GroupKnown
  <2>2. LeadKnown(w)'
    BY <1>1, <1>2, <1>3 DEF LeadKnown, Of, book
  <2>3. QED
    BY <1>1, <1>2, <2>1, <2>2, OthersKnow DEF book
<1>5. LinkedIsMinted'
  BY <1>1, <1>2 DEF IInv, LinkedIsMinted, book
<1>6. JunctionIsDelivered'
  BY <1>1, <1>2 DEF IInv, JunctionIsDelivered, book
<1>7. LostByCrash'
  <2> SUFFICES ASSUME NEW ru \in Rules, NEW g \in Groups
               PROVE  /\ IsFiniteSet(Minted(ru, g)')
                      /\ Cardinality(Minted(ru, g)') <= crashes + (IF Held(ru, g)' THEN 1 ELSE 0)
    BY <1>1 DEF LostByCrash
  <2>1. Minted(ru, g)' = Minted(ru, g)
    BY <1>2 DEF Minted
  <2>2. Held(ru, g)' = Held(ru, g)
    BY <1>1, <1>2 DEF Held, book
  <2>3. QED
    BY <2>1, <2>2 DEF IInv, LostByCrash
<1>8. QED
  BY <1>2, <1>4, <1>5, <1>6, <1>7 DEF IInv

-----------------------------------------------------------------------------
(* What the walks meet: the verbs, time and a merge                        *)

\* A step that moves no walker and leaves every held lease as it is.
LEMMA AsideQueue ==
    ASSUME QueueInv, TypeOK', UNCHANGED <<pc, walk>>,
           \A w \in Walkers : walk[w].event \in Events =>
               request'[walk[w].event].lease = request[walk[w].event].lease
    PROVE  QueueInv'
BY DEF QueueInv, RuleKnown, LeaseExcludes, LeaseHeld, Walking

\* register, a transition, and the verbs of a rule.
LEMMA VerbGoes ==
    ASSUME QueueInv,
           \/ \E r \in Regs : Enter(r) \/ Leave(r)
           \/ \E ru \in Rules : \/ CreateRule(ru) \/ PatchArms(ru)
                                \/ \E to \in {"active", "inactive"} : PatchRule(ru, to)
    PROVE  QueueInv' /\ UNCHANGED <<book, leads, pc, walk, crashes>>
<1>1. TypeOK
  BY DEF QueueInv
<1>2. UNCHANGED <<book, leads, pc, walk, crashes>>
  BY DEF Enter, Leave, CreateRule, PatchArms, PatchRule, book
<1>3. eligible' \subseteq Regs /\ rules' \in [Rules -> {"none", "active", "inactive"}]
      /\ arming' \subseteq Rules
  BY <1>1 DEF Enter, Leave, CreateRule, PatchArms, PatchRule, TypeOK
<1>4. (\E E : Arm(E)) \/ UNCHANGED request
  BY DEF Enter, Leave, CreateRule, PatchArms, PatchRule
<1>5. /\ request' \in [Events -> [there : BOOLEAN, done : BOOLEAN,
                                  lease : {"none", "fresh", "stale"}]]
      /\ \A e \in Events : request'[e].lease = request[e].lease
  <2>1. ASSUME NEW E, Arm(E)
        PROVE  /\ request' \in [Events -> [there : BOOLEAN, done : BOOLEAN,
                                           lease : {"none", "fresh", "stale"}]]
               /\ \A e \in Events : request'[e].lease = request[e].lease
    BY <1>1, <2>1, ArmKeepsLeases
  <2>2. QED
    BY <1>1, <1>4, <2>1 DEF TypeOK
<1>6. TypeOK'
  BY <1>1, <1>2, <1>3, <1>5 DEF TypeOK, book
<1>7. QED
  BY <1>2, <1>5, <1>6, AsideQueue

\* 900 s after a claim, if no walk lasts so long.
LEMMA ExpireGoes ==
    ASSUME QueueInv, ~SlowWalks, NEW e \in Events, Expire(e)
    PROVE  QueueInv' /\ UNCHANGED <<book, leads, pc, walk, crashes>>
<1>1. /\ TypeOK /\ \A w \in Walkers : walk[w].event # e
      /\ UNCHANGED <<db, book, leads, pc, crashes>>
      /\ request' = [request EXCEPT ![e].lease = "stale"]
      /\ walk' = [w \in Walkers |-> IF Walking(w, e) THEN [walk[w] EXCEPT !.late = TRUE]
                                    ELSE walk[w]]
  BY DEF Expire, QueueInv, Walking
<1>2. walk' = walk
  BY <1>1 DEF TypeOK, Walking
<1>3. /\ request' \in [Events -> [there : BOOLEAN, done : BOOLEAN,
                                  lease : {"none", "fresh", "stale"}]]
      /\ \A f \in Events : f # e => request'[f] = request[f]
  <2>1. request \in [Events -> [there : BOOLEAN, done : BOOLEAN, lease : {"none", "fresh", "stale"}]]
    BY <1>1 DEF TypeOK
  <2>2. [request[e] EXCEPT !.lease = "stale"]
            \in [there : BOOLEAN, done : BOOLEAN, lease : {"none", "fresh", "stale"}]
    BY <2>1
  <2>3. QED
    BY <1>1, <2>1, <2>2
<1>4. TypeOK'
  BY <1>1, <1>2, <1>3 DEF TypeOK, db, book
<1>5. QED
  BY <1>1, <1>2, <1>3, <1>4, AsideQueue

\* A merge moves rows and leads, no lease.
LEMMA RelinkGoes ==
    ASSUME QueueInv, NEW old \in Leads, NEW new \in Leads, RelinkLead(old, new)
    PROVE  QueueInv'
<1>1. /\ TypeOK /\ old # new /\ UNCHANGED <<db, request, junction, pc, walk, crashes>>
      /\ leads' = [leads EXCEPT ![old].status = "absorbed", ![new].regs = @ \cup leads[old].regs]
      /\ provenance' = [ru \in Rules |-> [g \in Groups |->
            IF provenance[ru][g].lead = old THEN [provenance[ru][g] EXCEPT !.lead = new]
            ELSE provenance[ru][g]]]
  BY DEF RelinkLead, QueueInv
<1>2. leads \in [Leads -> LeadRow] /\ provenance \in [Rules -> [Groups -> LinkRow]]
  BY <1>1, RowTypes
<1>3. leads' \in [Leads -> LeadRow]
  <2>1. \A x \in LeadRow : [x EXCEPT !.status = "absorbed"] \in LeadRow
    BY DEF LeadRow
  <2>2. \A x, y \in LeadRow : [x EXCEPT !.regs = @ \cup y.regs] \in LeadRow
    BY DEF LeadRow
  <2>3. /\ leads'[old] = [leads[old] EXCEPT !.status = "absorbed"]
        /\ leads'[new] = [leads[new] EXCEPT !.regs = @ \cup leads[old].regs]
        /\ \A l \in Leads : l # old /\ l # new => leads'[l] = leads[l]
        /\ leads' = [l \in Leads |-> leads'[l]]
    BY <1>1, <1>2
  <2>4. \A l \in Leads : leads'[l] \in LeadRow
    BY <1>2, <2>1, <2>2, <2>3
  <2>5. QED
    BY <2>3, <2>4
<1>4. provenance' \in [Rules -> [Groups -> LinkRow]]
  <2>1. \A x \in LinkRow : [x EXCEPT !.lead = new] \in LinkRow
    BY DEF LinkRow
  <2>2. \A ru \in Rules, g \in Groups :
           (IF provenance[ru][g].lead = old THEN [provenance[ru][g] EXCEPT !.lead = new]
            ELSE provenance[ru][g]) \in LinkRow
    BY <1>2, <2>1
  <2>3. QED
    BY <1>1, <2>2
<1>5. TypeOK'
  BY <1>1, <1>3, <1>4 DEF TypeOK, LeadRow, LinkRow, db
<1>6. QED
  BY <1>1, <1>5, AsideQueue

\* Nothing of what the walks know is touched beside them.
LEMMA AsideKeeps ==
    ASSUME IInv, QueueInv', UNCHANGED <<book, leads, pc, walk, crashes>>
    PROVE  IInv'
<1>1. \A w \in Walkers : GroupKnown(w)' /\ LeadKnown(w)'
  BY OthersKnow DEF book
<1>2. LinkedIsMinted' /\ JunctionIsDelivered'
  BY DEF IInv, LinkedIsMinted, JunctionIsDelivered, book
<1>3. LostByCrash'
  <2> SUFFICES ASSUME NEW ru \in Rules, NEW g \in Groups
               PROVE  /\ IsFiniteSet(Minted(ru, g)')
                      /\ Cardinality(Minted(ru, g)') <= crashes + (IF Held(ru, g)' THEN 1 ELSE 0)
    BY DEF LostByCrash
  <2>1. Minted(ru, g)' = Minted(ru, g)
    BY DEF Minted
  <2>2. Held(ru, g)' = Held(ru, g)
    BY DEF Held, book
  <2>3. QED
    BY <2>1, <2>2 DEF IInv, LostByCrash
<1>4. QED
  BY <1>1, <1>2, <1>3 DEF IInv

-----------------------------------------------------------------------------
(* The theorems                                                            *)

LEMMA InitQueue == Init => QueueInv
<1> SUFFICES ASSUME Init PROVE QueueInv
  OBVIOUS
<1>1. eligible \subseteq Regs /\ rules \in [Rules -> {"none", "active", "inactive"}]
      /\ arming \subseteq Rules /\ junction \subseteq Rules \X Regs
  BY LeadAssumption DEF Init
<1>2. request \in [Events -> [there : BOOLEAN, done : BOOLEAN, lease : {"none", "fresh", "stale"}]]
  BY DEF Init
<1>3. provenance \in [Rules -> [Groups -> [there : BOOLEAN, lead : Leads \cup {NoLead}]]]
  BY DEF Init
<1>4. leads \in [Leads -> [status : {"none", "live", "absorbed"}, rule : Rules \cup {NoRule},
                           group : Groups \cup {NoGroup}, regs : SUBSET Regs]]
  BY DEF Init
<1>5. /\ pc \in [Walkers -> Places] /\ walk \in [Walkers -> Carry] /\ crashes \in 0..MaxCrashes
      /\ \A w \in Walkers : pc[w] = "idle" /\ walk[w] = Nothing
  BY NothingType, LeadAssumption DEF Init, Places
<1>6. TypeOK
  BY <1>1, <1>2, <1>3, <1>4, <1>5 DEF TypeOK, Places
<1>7. Nothing.late = FALSE /\ Nothing.event = NoEvent
  BY DEF Nothing
<1>8. RuleKnown /\ LeaseExcludes /\ LeaseHeld
  BY <1>5, <1>7, LeadAssumption DEF RuleKnown, LeaseExcludes, LeaseHeld, OnRule, Walking
<1>9. QED
  BY <1>6, <1>8 DEF QueueInv

LEMMA NextQueue == ASSUME ~SlowWalks, QueueInv, [Next]_vars PROVE QueueInv'
<1>1. CASE UNCHANGED vars
  <2>1. TypeOK'
    BY <1>1 DEF vars, QueueInv, TypeOK
  <2>2. QED
    BY <1>1, <2>1, AsideQueue DEF vars
<1>2. ASSUME NEW w \in Walkers,
             \/ StartPass(w) \/ Step(w) \/ SinkAccepts(w) \/ SinkRefuses(w) \/ Crash(w)
             \/ \E e \in Events : RunRequest(w, e)
      PROVE  QueueInv'
  BY <1>2, QuietGoes, ClaimGoes, FinishGoes, UpsertGoes, SetLeadGoes, JunctionGoes,
     CreateGoes, UpdateGoes DEF Step, SinkAccepts
<1>3. QED
  BY <1>1, <1>2, VerbGoes, ExpireGoes, RelinkGoes DEF Next

\* While no walk outlasts its lease, two walkers are never on one event and
\* every walk holds a fresh lease: claim_due and run_now exclude each other
\* though the row lock ends with their statement, whatever merges and crashes.
THEOREM LeasesHold == ~SlowWalks => (Spec => []QueueInv)
<1> SUFFICES ASSUME ~SlowWalks PROVE Spec => []QueueInv
  OBVIOUS
<1>1. QueueInv /\ [Next]_vars => QueueInv'
  BY NextQueue
<1>2. QED
  BY <1>1, InitQueue, PTL DEF Spec

\* What the rest of a walk rests on: walks in time, no merge, groups of one event.
InOrder == ~SlowWalks /\ ~Merging /\ GroupsOfOneEvent

LEMMA InitIInv == Init => IInv
<1> SUFFICES ASSUME Init PROVE IInv
  OBVIOUS
<1>1. QueueInv
  BY InitQueue
<1>2. \A w \in Walkers : pc[w] = "idle"
  BY DEF Init
<1>3. \A w \in Walkers : GroupKnown(w) /\ LeadKnown(w)
  BY <1>2 DEF GroupKnown, LeadKnown
<1>4. \A ru \in Rules, g \in Groups : provenance[ru][g].lead = NoLead
  BY DEF Init
<1>5. LinkedIsMinted /\ JunctionIsDelivered
  BY <1>4, LeadAssumption DEF LinkedIsMinted, JunctionIsDelivered, Init
<1>6. LostByCrash
  <2> SUFFICES ASSUME NEW ru \in Rules, NEW g \in Groups
               PROVE  /\ IsFiniteSet(Minted(ru, g))
                      /\ Cardinality(Minted(ru, g)) <= crashes + (IF Held(ru, g) THEN 1 ELSE 0)
    BY DEF LostByCrash
  <2>1. Minted(ru, g) = {}
    BY LeadAssumption DEF Minted, Init
  <2>2. IsFiniteSet(Minted(ru, g)) /\ Cardinality(Minted(ru, g)) = 0
    BY <2>1, FS_EmptySet
  <2>3. crashes = 0
    BY DEF Init
  <2>4. QED
    BY <2>2, <2>3
<1>7. QED
  BY <1>1, <1>3, <1>5, <1>6 DEF IInv

LEMMA NextIInv == ASSUME InOrder, IInv, [Next]_vars PROVE IInv'
<1>1. QueueInv' /\ ~SlowWalks /\ ~Merging /\ GroupsOfOneEvent /\ QueueInv
  BY NextQueue DEF InOrder, IInv
<1>2. CASE UNCHANGED vars
  BY <1>1, <1>2, AsideKeeps DEF vars, book
<1>3. ASSUME NEW w \in Walkers,
             \/ StartPass(w) \/ Step(w) \/ SinkAccepts(w) \/ SinkRefuses(w) \/ Crash(w)
             \/ \E e \in Events : RunRequest(w, e)
      PROVE  IInv'
  BY <1>1, <1>3, QuietWalks, LeaseWalks, UpsertKeeps, SetLeadKeeps, JunctionKeeps,
     CreateKeeps, UpdateKeeps DEF Step, SinkAccepts
<1>4. ASSUME NEW e \in Events, Expire(e) PROVE IInv'
  BY <1>1, <1>4, ExpireGoes, AsideKeeps
<1>5. ASSUME \/ \E r \in Regs : Enter(r) \/ Leave(r)
             \/ \E ru \in Rules : \/ CreateRule(ru) \/ PatchArms(ru)
                                  \/ \E to \in {"active", "inactive"} : PatchRule(ru, to)
      PROVE  IInv'
  BY <1>1, <1>5, VerbGoes, AsideKeeps
<1>6. \A old, new \in Leads : ~RelinkLead(old, new)
  BY <1>1 DEF RelinkLead
<1>7. QED
  BY <1>2, <1>3, <1>4, <1>5, <1>6 DEF Next

\* Walks in time, without a merge and over groups of one event keep the whole
\* invariant: each knows its group and the group's lead, whatever was armed,
\* refused or crashed between its statements.
THEOREM LeadSafety == InOrder => (Spec => []IInv)
<1> SUFFICES ASSUME InOrder PROVE Spec => []IInv
  OBVIOUS
<1>1. IInv /\ [Next]_vars => IInv'
  BY NextIInv
<1>2. QED
  BY <1>1, InitIInv, PTL DEF Spec

\* Then a junction row, which takes a registration out of every later walk, is
\* only there for one that the group's lead was told of ...
THEOREM DeliveredBeforeForgotten == InOrder => (Spec => []JunctionIsDelivered)
<1> SUFFICES ASSUME InOrder PROVE Spec => []JunctionIsDelivered
  OBVIOUS
<1>1. IInv => JunctionIsDelivered
  BY DEF IInv
<1>2. QED
  BY <1>1, LeadSafety, PTL

\* ... and a group has one lead, plus at most one for each host that died.
THEOREM OneLead == InOrder => (Spec => []OneLeadPerGroup)
<1> SUFFICES ASSUME InOrder PROVE Spec => []OneLeadPerGroup
  OBVIOUS
<1>1. IInv => OneLeadPerGroup
  <2> SUFFICES ASSUME IInv, NEW ru \in Rules, NEW g \in Groups
               PROVE  Cardinality(Minted(ru, g)) <= 1 + crashes
    BY DEF OneLeadPerGroup
  <2>1. /\ IsFiniteSet(Minted(ru, g)) /\ crashes \in Nat
        /\ Cardinality(Minted(ru, g)) <= crashes + (IF Held(ru, g) THEN 1 ELSE 0)
    BY DEF IInv, LostByCrash, QueueInv, TypeOK
  <2>2. Cardinality(Minted(ru, g)) \in Nat
    BY <2>1, FS_CardinalityType
  <2>3. QED
    BY <2>1, <2>2
<1>2. QED
  BY <1>1, LeadSafety, PTL
=============================================================================
