SPECIFICATION Spec
CONSTANTS
    c1 = c1  c2 = c2
    Clients = {c1, c2}
    Watched <- Kept
    None = None
INVARIANTS RulesHold
PROPERTIES StateMovesByVerb OnlyNamedMoves
\* a table no statement writes has no step
CHECK_DEADLOCK FALSE
