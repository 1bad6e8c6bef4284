CONSTANTS
    p1 = p1
    p2 = p2
    pypi = pypi
    mirror = mirror
    storage = storage
    wheel = wheel
    sdist = sdist
    other = other
    Short = Short
    Partial = Partial
    None = None
    Procs = {p1, p2}
    Hosts = {pypi, mirror, storage}
    Archives = {wheel, sdist, other}
    Name <- TwoNames
    Pages <- TwoPages
    Wanted <- TwoReleases
    MaxRedirects = 2
SPECIFICATION Spec
SYMMETRY Twins
INVARIANTS
    TypeOK
    CachedAsDelivered
    ShownIsLockedRelease
    CredentialsStay
