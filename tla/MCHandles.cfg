CONSTANTS
    Goroutine = {g1, g2, g3}
    Writer = {w}
    Reader = {r1, r2}
    Address = {a1, a2}
    Nil = Nil
SYMMETRY Symmetry
SPECIFICATION Spec
INVARIANTS TypeOK UsesOwnObject NoObjectLost OnlySizesLeak
CHECK_DEADLOCK FALSE
