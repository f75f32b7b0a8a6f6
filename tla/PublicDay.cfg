SPECIFICATION PublicSpec
CONSTANTS
    e1 = e1  e2 = e2  s1 = s1  c1 = c1  c2 = c2  r1 = r1  r2 = r2
    sl1 = sl1  sl2 = sl2  k1 = k1  i1 = i1  a1 = a1
    Events = {e1, e2}
    Born = {e1}
    Stages = {s1}
    PipeEnd = {}
    StageEdits = {}
    Billed = {e1}
    Id <- Order
    Sequences = {1}
    Types = {}
    Lines = {}
    MailLines = {}
    Creates = {}
    Patches <- NoPatches
    Sessions = {}
    SweepLimit = 1
    MaxTime = 2
    Clients = {c1, c2}
    Addresses = {i1}
    Identities = {a1}
    Tokens = {k1}
    Granted = {e1}
    Slots = {sl1, sl2}
    SlotEvent <- SlotOf
    Regs = {r1, r2}
    RegEvent <- RegOf
    HitsMax <- Limits
    Window = 2
    Lag = 1
    Ttl = 2
    Hosts <- OneRouter
    NoEvent = NoEvent  NoStage = NoStage  NoType = NoType  None = None
    NoToken = NoToken  NoSlot = NoSlot
SYMMETRY ClientSymmetry
INVARIANTS BurstsAreBounded RefusedIsOverBudget ServedIsGranted ServedWasPublic
