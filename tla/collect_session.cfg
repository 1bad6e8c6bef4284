CONSTANTS
    outer = outer
    inner = inner
    side = side
    mo = mo
    mi = mi
    shared = shared
    a = a
    b = b
    c = c
    e = e
    g = g
    None = None
    Projects = {outer, inner, side}
    Modules = {mo, mi, shared}
    Targets = {a, b, c, e, g}
    Lists <- TwoLists
    Watches <- AllWatches
    Overrides <- TwoOverrides
    Code <- ThreeCode
    Roots <- NestedRoots
    Denied = {b}
    Allow <- InnerAllows
    Fragile = {mo}
    ReadOnly = {g}
SPECIFICATION Spec
INVARIANTS
    TypeOK
    ScopedAsAlone
    LiveInTestsOnly
PROPERTIES
    OverrideOnce
CHECK_DEADLOCK FALSE
