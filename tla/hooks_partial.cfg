CONSTANTS
    m1 = m1
    m2 = m2
    m3 = m3
    h1 = h1
    h2 = h2
    h3 = h3
    t1 = t1
    t2 = t2
    Threads = {t1}
    Modules = {m1, m2}
    Hooks = {h1, h2, h3}
    HookModule <- ThreeOnTwo
    InSubmodule = {}
    DeclaringBodies = {}
    FailingHooks = {h1, h2, h3}
    FailingBodies = {m1, m2}
    Uninstalled = {}
    Namespaces = {}
SPECIFICATION Spec
CHECK_DEADLOCK FALSE
INVARIANTS
    AppliedStaysInEffect
