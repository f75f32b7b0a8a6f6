SPECIFICATION Spec
CONSTANTS
    c1 = c1  c2 = c2
    Clients = {c1, c2}
    Watched <- Loose
    None = None
\* The same, with PROPERTIES PatchKeepsTheRest.
PROPERTIES OnlyNamedMoves
CHECK_DEADLOCK FALSE
