SPECIFICATION Spec
CONSTANTS
    None = None
    c1 = c1
    c2 = c2
    g1 = g1
    g2 = g2
    b1 = b1
    b2 = b2
    Clients = {c1, c2}
    Initial = c1
    Emitters = {g1, g2}
    Buffers = {b1, b2}
    MaxDocs = 2
    MaxSockets = 3
CHECK_DEADLOCK FALSE
SYMMETRY Symmetry
INVARIANTS OnlyCrossingEmitsLeak DocumentsIntact
