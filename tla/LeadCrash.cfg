SPECIFICATION Spec
CONSTANTS
    e1 = e1  e2 = e2  r1 = r1  r2 = r2  r3 = r3  ru1 = ru1  ru2 = ru2
    g1 = g1  g2 = g2  w1 = w1  w2 = w2  l1 = l1  l2 = l2  l3 = l3
    Events = {e1}
    Regs = {r1, r2, r3}
    Rules = {ru1}
    Groups = {g1, g2}
    Leads = {l1, l2, l3}
    Walkers = {w1, w2}
    EventOf <- OneEvent
    GroupOf <- TwoGroups
    Matches <- MatchAll
    Early = {}
    FirstRules = {}
    Batch = 2
    CronLimit = 2
    SlowWalks = FALSE
    Merging = FALSE
    MaxCrashes = 1
    NoEvent = NoEvent  NoRule = NoRule  NoGroup = NoGroup  NoLead = NoLead
INVARIANTS IInv OneLeadPerGroup JunctionIsDelivered
SYMMETRY FreshSymmetry
