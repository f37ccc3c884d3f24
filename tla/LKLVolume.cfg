\* One plain and one encrypted controller, three volume structures (a stopped
\* volume keeps its structure), one client file, two key files (one can be lost),
\* and a Start inside a Start inside a Start.
SPECIFICATION Spec
CONSTANTS
    p = p
    e = e
    v1 = v1
    v2 = v2
    v3 = v3
    f1 = f1
    k1 = k1
    k2 = k2
    Handles = {p, e}
    Encrypted = {e}
    Volumes = {v1, v2, v3}
    ClientFiles = {f1}
    KeyFiles = {k1, k2}
    MaxNesting = 3
    None = None
SYMMETRY VolumeSymmetry
INVARIANTS
    LockOwned
    NothingElseLeftBehind
    BuiltBottomUp
    InstalledIsUsable
    FilesBacked
CHECK_DEADLOCK FALSE
