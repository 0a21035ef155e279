CONSTANTS
    Goroutine = {g1}
    Writer = {w}
    Reader = {r1}
    Address = {a1, a2}
    Nil = Nil
SPECIFICATION Spec
INVARIANT OpenReaderHasFilter
CHECK_DEADLOCK FALSE
