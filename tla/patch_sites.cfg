CONSTANTS
    alias = alias
    base = base
    leaf = leaf
    s1 = s1
    s2 = s2
    s3 = s3
    i1 = i1
    i2 = i2
    i3 = i3
    a1 = a1
    a2 = a2
    a3 = a3
    NULL = NULL
    Sites = {s1, s2, s3}
    Identities = {i1, i2, i3}
    Places = {alias, base, leaf}
    Addrs = {a1, a2, a3}
    SiteTarget <- Targets
    SiteIdentity <- EachItsOwn
    SitePolicy <- Policies
    Mro <- LookUp
    Upstream <- Definitions
    Strict = FALSE
SPECIFICATION Spec
SYMMETRY FreshAddrs
CONSTRAINT TwoDeclarations
CHECK_DEADLOCK FALSE
INVARIANTS
    TypeOK
    NoNesting
    AliasesRefused
    RefusalIsJustified
    InheritedPatchRefused
    AppliedMeansLive
PROPERTIES
    NoPatchReplacesAnother
