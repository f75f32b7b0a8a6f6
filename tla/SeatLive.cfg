SPECIFICATION FairSpec
CONSTANTS
    e1 = e1  e2 = e2  s1 = s1  s2 = s2
    r1 = r1  r2 = r2  r3 = r3  t1 = t1  t2 = t2
    Events = {e1}
    Slots = {}
    SlotEvent <- NoSlots
    Regs = {r1, r2}
    Txs = {t1, t2}
    SeatPatches <- TwoPatch
    LeadAxes <- DoneAxes
    NoSlot = NoSlot  NoReg = NoReg  Free = Free
\* With Spec and PROPERTIES DeskChecksInOpenRows instead, TLC finds a scan
\* that checks in a row cancelled under it; with INVARIANTS NoVerbsWaitForEachOther,
\* a register and a check-in that each wait for the other's row.
PROPERTIES EveryVerbEnds
