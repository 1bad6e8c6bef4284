CONSTANTS
    f = f
    c = c
    k = k
    m = m
    p = p
    None = None
    Targets = {f, c, k, m, p}
    Objects <- Objects2
    Projects <- ClassProjects
    Files = {"patches.py", "more.py", "mpat.toml"}
    ConfigFiles = {"mpat.toml"}
    LastDay = 0
    Module <- Lib
    Path <- LibPath
    Begins <- LibBegins
    Releases <- Releases2
    Library <- Library2
SPECIFICATION SourceSpec
INVARIANTS
    StatusIsOfLiveCodeAlways
