------------------------------ MODULE LeadQueue ------------------------------
(***************************************************************************)
(* The lead generation queue: registration and rule verbs arm an event's   *)
(* request, walkers (the cron pass of a host, or the officer's run) claim  *)
(* it by a lease, walk the event's active rules over the registrations     *)
(* that have no provenance yet, hand each group to the host's sink and     *)
(* remember what they did in provenance and junction rows.                 *)
(*                                                                         *)
(* Every statement of a walk is a transaction of its own, so every         *)
(* statement is an action; pc names the next one.                          *)
(***************************************************************************)
EXTENDS Naturals, FiniteSets

CONSTANTS
    Events, Regs, Rules, Groups,
    Leads,          \* lead ids the host's sink can mint
    Walkers,        \* host processes that run the pass or the officer's verb
    EventOf,        \* registration -> event
    GroupOf,        \* registration -> its order, or its event and day
    Matches,        \* rule -> the registrations its predicates accept
    Early,          \* eligible when the model starts, and kept so
    FirstRules,     \* active when the model starts
    Batch,          \* EVENT_LEAD_BATCH
    CronLimit,      \* EVENT_LEAD_CRON_LIMIT
    SlowWalks,      \* a walk may outlast its 900 s lease
    Merging,        \* the host may merge two leads
    MaxCrashes,     \* bound on hosts that die
    NoEvent, NoRule, NoGroup, NoLead

ASSUME LeadAssumption ==
    /\ EventOf \in [Regs -> Events] /\ GroupOf \in [Regs -> Groups]
    /\ Matches \in [Rules -> SUBSET Regs]
    /\ Early \subseteq Regs /\ FirstRules \subseteq Rules
    /\ Batch \in Nat \ {0} /\ CronLimit \in Nat \ {0} /\ MaxCrashes \in Nat
    /\ SlowWalks \in BOOLEAN /\ Merging \in BOOLEAN
    /\ NoEvent \notin Events /\ NoRule \notin Rules
    /\ NoGroup \notin Groups /\ NoLead \notin Leads

VARIABLES
    eligible,       \* registrations open or done, and active
    rules,          \* event.lead_rules: "none", "active" or "inactive"
    arming,         \* rules activated by a patch that has not armed yet
    request,        \* event.lead_requests: there, done, lease
    provenance,     \* event.lead_provenances: (rule, group) -> there, lead
    junction,       \* event.lead_provenance_registrations, as <<rule, reg>>
    leads,          \* the host's leads: status, group, regs
    pc, walk,       \* each walker's next statement and what it carries
    crashes

db      == <<eligible, rules, arming>>
book    == <<provenance, junction>>
vars    == <<eligible, rules, arming, request, provenance, junction, leads,
             pc, walk, crashes>>

Nothing == [event |-> NoEvent, officer |-> FALSE, claimed |-> 0, parked |-> {},
            rules |-> {}, rule |-> NoRule, batch |-> {}, groups |-> {},
            group |-> NoGroup, lead |-> NoLead, members |-> {}, new |-> {},
            refused |-> FALSE, late |-> FALSE]

Init ==
    /\ eligible = Early
    /\ rules = [ru \in Rules |-> IF ru \in FirstRules THEN "active" ELSE "none"]
    /\ arming = {}
    /\ request = [e \in Events |-> [there |-> FirstRules # {}, done |-> FALSE,
                                    lease |-> "none"]]
    /\ provenance = [ru \in Rules |-> [g \in Groups |->
                        [there |-> FALSE, lead |-> NoLead]]]
    /\ junction = {}
    /\ leads = [l \in Leads |-> [status |-> "none", rule |-> NoRule,
                                 group |-> NoGroup, regs |-> {}]]
    /\ pc = [w \in Walkers |-> "idle"]
    /\ walk = [w \in Walkers |-> Nothing]
    /\ crashes = 0

(***************************************************************************)
(* Arming: the verbs' cheap row write.  It opens a done request and        *)
(* leaves an open one, and its lease, as they are.                         *)
(***************************************************************************)
Arm(E) ==
    request' = [e \in Events |->
        IF e \in E THEN [request[e] EXCEPT !.there = TRUE, !.done = FALSE]
                   ELSE request[e]]

\* register or transition, into open or done.
Enter(r) ==
    /\ r \notin eligible
    /\ eligible' = eligible \cup {r}
    /\ Arm({e \in {EventOf[r]} : \E ru \in Rules : rules[ru] = "active"})
    /\ UNCHANGED <<rules, arming, provenance, junction, leads, pc, walk, crashes>>

\* cancel, back to draft, or deactivate: nothing of the queue moves.
Leave(r) ==
    /\ r \in eligible \ Early
    /\ eligible' = eligible \ {r}
    /\ UNCHANGED <<rules, arming, request, provenance, junction, leads, pc, walk,
                   crashes>>

\* The rule, its predicates and the arm in one transaction.
CreateRule(ru) ==
    /\ rules[ru] = "none"
    /\ rules' = [rules EXCEPT ![ru] = "active"]
    /\ Arm(Events)
    /\ UNCHANGED <<eligible, arming, provenance, junction, leads, pc, walk, crashes>>

\* patch_rule writes the rule, and arms in a second transaction.
PatchRule(ru, to) ==
    /\ rules[ru] # "none" /\ ru \notin arming
    /\ rules' = [rules EXCEPT ![ru] = to]
    /\ arming' = IF to = "active" THEN arming \cup {ru} ELSE arming
    /\ UNCHANGED <<eligible, request, provenance, junction, leads, pc, walk, crashes>>

PatchArms(ru) ==
    /\ ru \in arming
    /\ arming' = arming \ {ru}
    /\ Arm(Events)
    /\ UNCHANGED <<eligible, rules, provenance, junction, leads, pc, walk, crashes>>

(***************************************************************************)
(* The walk.                                                               *)
(***************************************************************************)
Go(w, to, carry) == pc' = [pc EXCEPT ![w] = to] /\ walk' = [walk EXCEPT ![w] = carry]

\* A claim that forgets the lease and trusts the row lock of its statement.
Claimable_Broken(e) == request[e].there

Claimable(e) == request[e].there /\ request[e].lease # "fresh"

Lease(w, e, carry) ==
    /\ request' = [request EXCEPT ![e].lease = "fresh"]
    /\ Go(w, "rules", [carry EXCEPT !.event = e])

StartPass(w) ==
    /\ pc[w] = "idle"
    /\ Go(w, "claim", Nothing)
    /\ UNCHANGED <<db, request, book, leads, crashes>>

Due(w) == {e \in Events : Claimable(e) /\ ~request[e].done /\ e \notin walk[w].parked}

\* A pass that does not count what it claims.
ClaimDue_Uncounted(w) ==
    /\ pc[w] = "claim" /\ walk[w].claimed < CronLimit
    /\ \E e \in Due(w) : Lease(w, e, walk[w])
    /\ UNCHANGED <<db, book, leads, crashes>>

ClaimDue(w) ==
    /\ pc[w] = "claim" /\ walk[w].claimed < CronLimit
    /\ \E e \in Due(w) : Lease(w, e, [walk[w] EXCEPT !.claimed = @ + 1])
    /\ UNCHANGED <<db, book, leads, crashes>>

EndPass(w) ==
    /\ pc[w] = "claim"
    /\ walk[w].claimed = CronLimit \/ Due(w) = {}
    /\ Go(w, "idle", Nothing)
    /\ UNCHANGED <<db, request, book, leads, crashes>>

\* The officer's run takes a done request too; a fresh lease refuses it.
RunRequest(w, e) ==
    /\ pc[w] = "idle" /\ Claimable(e)
    /\ Lease(w, e, [Nothing EXCEPT !.officer = TRUE])
    /\ UNCHANGED <<db, book, leads, crashes>>

ReadRules(w) ==
    /\ pc[w] = "rules"
    /\ Go(w, "rule", [walk[w] EXCEPT !.rules = {ru \in Rules : rules[ru] = "active"}])
    /\ UNCHANGED <<db, request, book, leads, crashes>>

\* The next rule, or the end of the walk.
NextRule(w) ==
    /\ pc[w] = "rule"
    /\ \/ /\ walk[w].rules # {}
          /\ \E ru \in walk[w].rules :
                Go(w, "eligible", [walk[w] EXCEPT !.rule = ru, !.rules = @ \ {ru}])
       \/ walk[w].rules = {} /\ Go(w, "finish", walk[w])
    /\ UNCHANGED <<db, request, book, leads, crashes>>

\* The anti-join: what the rule accepts and has no junction row.
Unprovenanced(ru, e) ==
    {r \in eligible \cap Matches[ru] : EventOf[r] = e /\ <<ru, r>> \notin junction}

\* LIMIT: a full batch of the rows, or all of them.
Batches(R) == {B \in SUBSET R : Cardinality(B) = Batch \/ (B = R /\ Cardinality(R) < Batch)}

ReadEligible(w) ==
    /\ pc[w] = "eligible"
    /\ \E B \in Batches(Unprovenanced(walk[w].rule, walk[w].event)) :
          IF B = {} THEN Go(w, "rule", walk[w])
          ELSE Go(w, "group", [walk[w] EXCEPT !.batch = B,
                                 !.groups = {GroupOf[r] : r \in B}])
    /\ UNCHANGED <<db, request, book, leads, crashes>>

\* An upsert that takes every row for a new one.
UpsertProvenance_Broken(w) ==
    /\ pc[w] = "group"
    /\ \E g \in walk[w].groups :
          /\ provenance' = [provenance EXCEPT ![walk[w].rule][g].there = TRUE]
          /\ Go(w, "members", [walk[w] EXCEPT !.group = g, !.groups = @ \ {g},
                                 !.lead = NoLead])
    /\ UNCHANGED <<db, request, junction, leads, crashes>>

\* The upsert returns the row's lead as it is now.
UpsertProvenance(w) ==
    /\ pc[w] = "group"
    /\ \E g \in walk[w].groups :
          /\ provenance' = [provenance EXCEPT ![walk[w].rule][g].there = TRUE]
          /\ Go(w, "members", [walk[w] EXCEPT !.group = g, !.groups = @ \ {g},
                                 !.lead = provenance[walk[w].rule][g].lead])
    /\ UNCHANGED <<db, request, junction, leads, crashes>>

\* All groups of the batch are done: a full batch is read again.
BatchDone(w) ==
    /\ pc[w] = "group" /\ walk[w].groups = {}
    /\ Go(w, IF Cardinality(walk[w].batch) < Batch THEN "rule" ELSE "eligible", walk[w])
    /\ UNCHANGED <<db, request, book, leads, crashes>>

Of(g, R) == {r \in R : GroupOf[r] = g}

\* The junction before the sink.
ReadMembers_Broken(w) ==
    LET known == {r \in Of(walk[w].group, Regs) : <<walk[w].rule, r>> \in junction}
        fresh == Of(walk[w].group, walk[w].batch) \ known
    IN  /\ pc[w] = "members"
        /\ junction' = junction \cup ({walk[w].rule} \X fresh)
        /\ Go(w, "sink", [walk[w] EXCEPT !.new = fresh, !.members = known \cup fresh])
        /\ UNCHANGED <<db, request, provenance, leads, crashes>>

\* group_members: the known ones, whatever their state, and the new ones.
ReadMembers(w) ==
    LET known == {r \in Of(walk[w].group, Regs) : <<walk[w].rule, r>> \in junction}
        fresh == Of(walk[w].group, walk[w].batch) \ known
    IN  /\ pc[w] = "members"
        /\ IF walk[w].lead # NoLead /\ fresh = {}
           THEN Go(w, "group", walk[w])
           ELSE Go(w, "sink", [walk[w] EXCEPT !.new = fresh, !.members = known \cup fresh])
        /\ UNCHANGED <<db, request, book, leads, crashes>>

CreateLead(w) ==
    /\ pc[w] = "sink" /\ walk[w].lead = NoLead
    /\ \E l \in Leads :
          /\ leads[l].status = "none"
          /\ leads' = [leads EXCEPT ![l] = [status |-> "live", rule |-> walk[w].rule,
                          group |-> walk[w].group, regs |-> walk[w].members]]
          /\ Go(w, "setlead", [walk[w] EXCEPT !.lead = l])
    /\ UNCHANGED <<db, request, book, crashes>>

UpdateLead(w) ==
    /\ pc[w] = "sink" /\ walk[w].lead # NoLead
    /\ leads' = [leads EXCEPT ![walk[w].lead].regs = @ \cup walk[w].members]
    /\ Go(w, "junction", walk[w])
    /\ UNCHANGED <<db, request, book, crashes>>

\* The first refusal ends the walk and parks the request.
SinkRefuses(w) ==
    /\ pc[w] = "sink"
    /\ Go(w, "finish", [walk[w] EXCEPT !.refused = TRUE])
    /\ UNCHANGED <<db, request, book, leads, crashes>>

SetLead(w) ==
    /\ pc[w] = "setlead"
    /\ provenance' = [provenance EXCEPT ![walk[w].rule][walk[w].group].lead = walk[w].lead]
    /\ Go(w, "junction", walk[w])
    /\ UNCHANGED <<db, request, junction, leads, crashes>>

AddJunction(w) ==
    /\ pc[w] = "junction"
    /\ junction' = junction \cup ({walk[w].rule} \X walk[w].new)
    /\ Go(w, "group", walk[w])
    /\ UNCHANGED <<db, request, provenance, leads, crashes>>

\* A refusal that is remembered but closes the request.
Finish_Broken(w) ==
    /\ pc[w] = "finish"
    /\ request' = [request EXCEPT ![walk[w].event] =
                     [@ EXCEPT !.done = TRUE, !.lease = "none"]]
    /\ IF walk[w].officer THEN Go(w, "idle", Nothing)
       ELSE Go(w, "claim", [Nothing EXCEPT !.claimed = walk[w].claimed,
              !.parked = walk[w].parked \cup {walk[w].event}])
    /\ UNCHANGED <<db, book, leads, crashes>>

\* Done or parked, the lease is cleared: on the event, whoever holds it.
Finish(w) ==
    /\ pc[w] = "finish"
    /\ request' = [request EXCEPT ![walk[w].event] =
                     [@ EXCEPT !.done = ~walk[w].refused, !.lease = "none"]]
    /\ IF walk[w].officer THEN Go(w, "idle", Nothing)
       ELSE Go(w, "claim", [Nothing EXCEPT !.claimed = walk[w].claimed,
              !.parked = IF walk[w].refused THEN walk[w].parked \cup {walk[w].event}
                         ELSE walk[w].parked])
    /\ UNCHANGED <<db, book, leads, crashes>>

(***************************************************************************)
(* The environment.                                                        *)
(***************************************************************************)
Walking(w, e) == walk[w].event = e

\* A host dies, or a statement fails and the pass stops: the lease stays.
Crash(w) ==
    /\ pc[w] # "idle" /\ crashes < MaxCrashes
    /\ Go(w, "idle", Nothing)
    /\ crashes' = crashes + 1
    /\ UNCHANGED <<db, request, book, leads>>

\* 900 s after the claim.
Expire(e) ==
    /\ request[e].lease = "fresh"
    /\ SlowWalks \/ \A w \in Walkers : ~Walking(w, e)
    /\ request' = [request EXCEPT ![e].lease = "stale"]
    /\ walk' = [w \in Walkers |-> IF Walking(w, e) THEN [walk[w] EXCEPT !.late = TRUE]
                                 ELSE walk[w]]
    /\ UNCHANGED <<db, book, leads, pc, crashes>>

\* relink_lead: the host merges old into new and moves the provenance rows.
RelinkLead(old, new) ==
    /\ Merging /\ old # new /\ leads[old].status = "live" /\ leads[new].status = "live"
    /\ leads' = [leads EXCEPT ![old].status = "absorbed", ![new].regs = @ \cup leads[old].regs]
    /\ provenance' = [ru \in Rules |-> [g \in Groups |->
          IF provenance[ru][g].lead = old THEN [provenance[ru][g] EXCEPT !.lead = new]
          ELSE provenance[ru][g]]]
    /\ UNCHANGED <<db, request, junction, pc, walk, crashes>>

\* What a walk does by itself; starting one, the sink and crashes are apart.
Step(w) ==
    \/ ClaimDue(w) \/ EndPass(w) \/ ReadRules(w) \/ NextRule(w) \/ ReadEligible(w)
    \/ UpsertProvenance(w) \/ BatchDone(w) \/ ReadMembers(w)
    \/ SetLead(w) \/ AddJunction(w) \/ Finish(w)

SinkAccepts(w) == CreateLead(w) \/ UpdateLead(w)

Next ==
    \/ \E w \in Walkers :
          \/ StartPass(w) \/ Step(w) \/ SinkAccepts(w) \/ SinkRefuses(w) \/ Crash(w)
          \/ \E e \in Events : RunRequest(w, e)
    \/ \E r \in Regs : Enter(r) \/ Leave(r)
    \/ \E ru \in Rules : \/ CreateRule(ru) \/ PatchArms(ru)
                         \/ \E to \in {"active", "inactive"} : PatchRule(ru, to)
    \/ \E e \in Events : Expire(e)
    \/ \E old, new \in Leads : RelinkLead(old, new)

Spec == Init /\ [][Next]_vars

\* The cron ticks, a walk goes on, time passes, and the sink, which a walk
\* calls again and again, answers one of those calls.
Fairness ==
    /\ \A w \in Walkers : /\ SF_vars(StartPass(w)) /\ WF_vars(Step(w))
                          /\ WF_vars(SinkAccepts(w) \/ SinkRefuses(w))
                          /\ SF_vars(SinkAccepts(w))
    /\ \A e \in Events : WF_vars(Expire(e))

FairSpec == Spec /\ Fairness

(***************************************************************************)
(* Properties.                                                             *)
(***************************************************************************)
Carry == [event : Events \cup {NoEvent}, officer : BOOLEAN, claimed : 0..CronLimit,
          parked : SUBSET Events, rules : SUBSET Rules, rule : Rules \cup {NoRule},
          batch : SUBSET Regs, groups : SUBSET Groups, group : Groups \cup {NoGroup},
          lead : Leads \cup {NoLead}, members : SUBSET Regs, new : SUBSET Regs,
          refused : BOOLEAN, late : BOOLEAN]

TypeOK ==
    /\ eligible \subseteq Regs
    /\ rules \in [Rules -> {"none", "active", "inactive"}] /\ arming \subseteq Rules
    /\ request \in [Events -> [there : BOOLEAN, done : BOOLEAN,
                               lease : {"none", "fresh", "stale"}]]
    /\ provenance \in [Rules -> [Groups -> [there : BOOLEAN, lead : Leads \cup {NoLead}]]]
    /\ junction \subseteq Rules \X Regs
    /\ leads \in [Leads -> [status : {"none", "live", "absorbed"},
                            rule : Rules \cup {NoRule}, group : Groups \cup {NoGroup},
                            regs : SUBSET Regs]]
    /\ pc \in [Walkers -> {"idle", "claim", "rules", "rule", "eligible", "group",
                           "members", "sink", "setlead", "junction", "finish"}]
    /\ walk \in [Walkers -> Carry]
    /\ crashes \in 0..MaxCrashes

\* The lease: two walkers are on one event only if one of them has outlived its
\* own, though the statement that claimed it ended long ago.
LeaseExcludes ==
    \A v, w \in Walkers, e \in Events :
        Walking(v, e) /\ Walking(w, e) /\ v # w => walk[v].late \/ walk[w].late

\* While no walk outlasts its lease, whoever walks an event holds a fresh one.
LeaseHeld ==
    \A w \in Walkers :
        /\ ~walk[w].late
        /\ pc[w] \in {"idle", "claim"} <=> walk[w].event = NoEvent
        /\ walk[w].event \in Events => request[walk[w].event].lease = "fresh"

OnRule(place) == place \in {"eligible", "group", "members", "sink", "setlead", "junction"}

RuleKnown == \A w \in Walkers : OnRule(pc[w]) => walk[w].rule \in Rules

\* What the walks keep of the queue whatever crashes: types and leases.
QueueInv == TypeOK /\ RuleKnown /\ LeaseExcludes /\ LeaseHeld

Minted(ru, g) == {l \in Leads : leads[l].rule = ru /\ leads[l].group = g}

\* The idempotence grain: the registrations of a group share one lead, however
\* many walkers meet it; only a host that dies in between can cost another.
OneLeadPerGroup ==
    \A ru \in Rules, g \in Groups : Cardinality(Minted(ru, g)) <= 1 + crashes

\* A junction row, which takes a registration out of every later walk, is
\* written only for one that the group's lead has been told of.
JunctionIsDelivered ==
    \A ru \in Rules, r \in Regs : <<ru, r>> \in junction =>
        LET l == provenance[ru][GroupOf[r]].lead
        IN  l \in Leads /\ r \in leads[l].regs

\* A group is of one event: an event's day is, and so is an order whose lines
\* are all of that event.  Nothing checks it; LeadOrder is an order of two.
GroupsOfOneEvent == \A r, s \in Regs : GroupOf[r] = GroupOf[s] => EventOf[r] = EventOf[s]

\* A walk knows whose group it is in ...
GroupKnown(w) ==
    LET here == walk[w] IN
    /\ pc[w] \in {"group", "members", "sink", "setlead", "junction"} =>
          /\ \A r \in here.batch : EventOf[r] = here.event
          /\ \A g \in here.groups : \E r \in here.batch : GroupOf[r] = g
    /\ pc[w] \in {"members", "sink", "setlead", "junction"} =>
          \E r \in Regs : GroupOf[r] = here.group /\ EventOf[r] = here.event

\* ... and what it carries of the group's lead is still so.
LeadKnown(w) ==
    LET here == walk[w]
        linked == provenance[here.rule][here.group].lead
    IN  /\ pc[w] \in {"members", "sink", "junction"} => here.lead = linked
        /\ pc[w] = "setlead" => linked = NoLead /\ leads[here.lead].status # "none"
        /\ pc[w] \in {"setlead", "junction"} =>
              here.lead \in Leads /\ here.members \subseteq leads[here.lead].regs
        /\ pc[w] \in {"sink", "setlead", "junction"} =>
              here.new \subseteq Of(here.group, here.members)

\* A lead that a row names was minted.
LinkedIsMinted ==
    \A ru \in Rules, g \in Groups : provenance[ru][g].lead \in Leads =>
        leads[provenance[ru][g].lead].status # "none"

\* The row names the group's lead, or the walker that minted it is about to say so.
Held(ru, g) ==
    \/ provenance[ru][g].lead # NoLead
    \/ \E w \in Walkers : pc[w] = "setlead" /\ walk[w].rule = ru /\ walk[w].group = g

\* Every further lead of a group was lost by a host that died holding it.
LostByCrash ==
    \A ru \in Rules, g \in Groups :
        /\ IsFiniteSet(Minted(ru, g))
        /\ Cardinality(Minted(ru, g)) <= crashes + (IF Held(ru, g) THEN 1 ELSE 0)

\* All of it together is preserved by every step, if no walk outlasts its lease,
\* no lead is merged and every group is of one event.
IInv ==
    /\ QueueInv
    /\ \A w \in Walkers : GroupKnown(w) /\ LeadKnown(w)
    /\ LinkedIsMinted /\ JunctionIsDelivered /\ LostByCrash

\* A closed request leaves nobody behind: what entered after a walk has opened
\* it again.
NobodyStranded ==
    \A e \in Events :
        request[e].done /\ arming = {} /\ (\A w \in Walkers : ~Walking(w, e)) =>
            \A ru \in Rules : rules[ru] = "active" => Unprovenanced(ru, e) = {}

\* No provenance row points at a lead that was merged into another.
RelinkedToTheSurvivor ==
    \A ru \in Rules, g \in Groups : provenance[ru][g].lead \in Leads =>
        leads[provenance[ru][g].lead].status # "absorbed"

\* Whoever was eligible under a rule that stays active reaches its lead, through
\* refusals, crashes, expired leases and walks that close each other's request.
EarlyReached ==
    \A r \in Early, ru \in FirstRules : r \in Matches[ru] =>
        <>(<<ru, r>> \in junction \/ rules[ru] # "active")

\* A pass ends, however often its events are armed again behind it.
EveryPassEnds == \A w \in Walkers : pc[w] # "idle" ~> pc[w] = "idle"
=============================================================================
