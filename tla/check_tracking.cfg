CONSTANTS
    f = f
    c = c
    k = k
    m = m
    p = p
    None = None
    Targets = {f, c, k, m, p}
    Objects <- Objects1
    Projects <- UntrackedDependency
    Files = {"patches.py", "more.py", "mpat.toml"}
    ConfigFiles = {"mpat.toml"}
    LastDay = 0
    Module <- Lib
    Path <- LibPath
    Begins <- LibBegins
    Releases <- Releases1
    Library <- Library1
SPECIFICATION SourceSpec
INVARIANTS
    PassMeansQuiet
