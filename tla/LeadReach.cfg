SPECIFICATION FairSpec
CONSTANTS
    e1 = e1  e2 = e2  r1 = r1  r2 = r2  r3 = r3  ru1 = ru1  ru2 = ru2
    g1 = g1  g2 = g2  w1 = w1  w2 = w2  l1 = l1  l2 = l2  l3 = l3
    Events = {e1}
    Regs = {r1}
    Rules = {ru1}
    Groups = {g1}
    Leads = {l1, l2}
    Walkers = {w1, w2}
    EventOf <- OneEvent
    GroupOf <- OneGroup
    Matches <- MatchAll
    Early = {r1}
    FirstRules = {ru1}
    Batch = 1
    CronLimit = 2
    SlowWalks = FALSE
    Merging = TRUE
    MaxCrashes = 1
    NoEvent = NoEvent  NoRule = NoRule  NoGroup = NoGroup  NoLead = NoLead
PROPERTIES EarlyReached EveryPassEnds
