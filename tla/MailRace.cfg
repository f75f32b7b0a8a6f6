SPECIFICATION Spec
CONSTANTS
    m1 = m1  m2 = m2  r1 = r1  r2 = r2  p1 = p1  p2 = p2
    Mails = {m1}
    AfterSub = {m1}
    Untemplated = {m1}
    Deletable = {m1}
    Regs = {r1}
    Early = {r1}
    Invalid = {}
    OfficerStates = {"cancel", "open"}
    Batch = 1
    Passes = {p1, p2}
    Dates = {1, 2}
    MaxTime = 1
    MaxCrashes = 1
    NoMail = NoMail  NoReg = NoReg
SYMMETRY PassSymmetry
\* The same, with PROPERTIES SettledIsFinal, or DropsAreLate.
INVARIANTS IInv
PROPERTIES OutcomeIsKept
