SPECIFICATION MCSpec
CONSTANTS
    pkg1 = pkg1
    pkg2 = pkg2
    shared = shared
    arm64 = arm64
    x64 = x64
    Root = Root
    None = None
    Packages <- MCPackages
    Uses <- MCUses
    NapiCrates = {pkg1, pkg2}
    Archs <- MCArchs
    Commands <- MCCommands
    lib1 = lib1
    lib2 = lib2
    lib3 = lib3
    Libraries = {lib1, lib2, lib3}
    Artifacts = {lib1}
    Top = Top
    Items <- MCItems
    MaxItems = 6
INVARIANTS
    TypeOK
    BuildIsAsAsked
    ResolvesClosure
    IndexIsTrue
