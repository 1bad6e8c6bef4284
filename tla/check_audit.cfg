CONSTANTS
    f = f
    c = c
    k = k
    m = m
    p = p
    None = None
    Targets = {f, c, k, m, p}
    Objects <- Objects1
    Projects <- Projects1
    Files = {"patches.py", "more.py", "mpat.toml"}
    ConfigFiles = {"mpat.toml"}
    LastDay = 1
    Module <- Lib
    Path <- LibPath
    Begins <- LibBegins
    Releases <- Releases1
    Library <- Library1
SPECIFICATION SourceSpec
INVARIANTS
    TypeOK
    FreshLockPasses
    PassMeansAudited
    DriftIsHeard
    TrackedAlikePassMeansQuiet
    OrderIsIrrelevant
    StatusIsOfLiveCode
    PatchingIsInvisible
    MissingMeansGone
    
    EveryUserIsMarked
