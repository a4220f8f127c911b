SPECIFICATION Spec
CONSTANTS
    local = local
    other = other
    prebuilt = prebuilt
    everywhere = everywhere
    twice = twice
    once = once
    Modules = {everywhere, twice, once}
    LocalPackages <- MCLocal
    PrebuiltPackages <- MCPrebuilt
    Contents <- MCContents
    NoPackage = NoPackage
CHECK_DEADLOCK FALSE
INVARIANTS
    TypeOK
    LastPackageRuns
    WarnedExactlyWhenUnreachable
