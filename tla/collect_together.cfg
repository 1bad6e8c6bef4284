CONSTANTS
    outer = outer
    inner = inner
    side = side
    mo = mo
    mi = mi
    shared = shared
    a = a
    b = b
    c = c
    e = e
    g = g
    None = None
    Projects = {outer, inner, side}
    Modules = {mo, mi, shared}
    Targets = {a, b, c, e, g}
    Lists <- TwoLists
    Watches <- AllWatches
    Overrides <- TwoOverrides
    Code <- ThreeCode
    Roots <- NestedRoots
    Denied = {}
    Allow <- InnerAllows
    Fragile = {}
    ReadOnly = {}
SPECIFICATION Spec
INVARIANTS
    CollectedTogether
CHECK_DEADLOCK FALSE
