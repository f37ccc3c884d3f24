\* What LKLSetFileInfo does to the write permission.
SPECIFICATION Spec
CONSTANTS
    Root = root
    Names = {short, long}
    Outside = {other}
    Long = {long}
    Inodes = {i1, i2, i3}
    Fds = {3, 4}
    Handles = {h1, h2}
    None = None
    MaxSize = 1
    Requests <- SampleRequests
    Now <- Today
SYMMETRY FileSymmetry
INVARIANT AttributeApplied
