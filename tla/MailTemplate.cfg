SPECIFICATION Spec
CONSTANTS
    m1 = m1  m2 = m2  r1 = r1  r2 = r2  p1 = p1  p2 = p2
    Mails = {m1}
    AfterSub = {m1}
    Untemplated = {}
    Deletable = {m1}
    Regs = {r1}
    Early = {r1}
    Invalid = {}
    OfficerStates = {}
    Batch = 1
    Passes = {p1}
    Dates = {1}
    MaxTime = 1
    MaxCrashes = 0
    NoMail = NoMail  NoReg = NoReg
INVARIANTS TemplateTakesSchedulers
