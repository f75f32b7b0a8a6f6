SPECIFICATION Spec
CONSTANTS
    e1 = e1  e2 = e2  s1 = s1  s2 = s2
    r1 = r1  r2 = r2  r3 = r3  t1 = t1  t2 = t2
    Events = {e1}
    Slots = {s1, s2}
    SlotEvent <- OwnSlots
    Regs = {r1, r2}
    Txs = {t1, t2}
    SeatPatches <- SlotPatches
    LeadAxes <- EntryAxes
    NoSlot = NoSlot  NoReg = NoReg  Free = Free
SYMMETRY Sym
INVARIANTS IInv
PROPERTIES SeatTakenWithinCap ImplementsBook CancelledEventTakesNoRow ArmsOnEntryToOpen
