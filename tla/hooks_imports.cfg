CONSTANTS
    m1 = m1
    m2 = m2
    m3 = m3
    h1 = h1
    h2 = h2
    h3 = h3
    t1 = t1
    t2 = t2
    Threads = {t1,t2}
    Modules = {m1, m2, m3}
    Hooks = {h1, h2}
    HookModule <- OneOnEach
    InSubmodule = {h1}
    DeclaringBodies = {m1}
    FailingHooks = {h1, h2}
    FailingBodies = {m1}
    Uninstalled = {m3}
    Namespaces = {}
SPECIFICATION LiveSpec
CHECK_DEADLOCK FALSE
PROPERTIES
    InstalledHooksSettle
