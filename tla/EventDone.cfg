SPECIFICATION Spec
CONSTANTS
    e1 = e1  e2 = e2  s1 = s1  s2 = s2  t1 = t1  l1 = l1  p1 = p1  p2 = p2
    Events = {e1, e2}
    Born = {}
    Stages = {s1, s2}
    PipeEnd = {s2}
    StageEdits = {s2}
    Billed = {}
    Id <- Order
    Sequences = {0, 1}
    Types = {t1}
    Lines = {l1}
    MailLines = {l1}
    Creates <- Offers
    Patches <- Rearranges
    Sessions = {p1, p2}
    SweepLimit = 1
    MaxTime = 1
    NoEvent = NoEvent  NoStage = NoStage  NoType = NoType  None = None
\* The same, with PROPERTIES SweepSparesPipeEnd.
PROPERTIES DoneRestsInPipeEnd
