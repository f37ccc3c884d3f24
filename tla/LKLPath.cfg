\* Trees with two links that point anywhere, at each other too.
SPECIFICATION FairSpec
CONSTANTS
    Names <- SampleNames
    LKLMountPoint <- MountPoint
    Lookalikes = {"vx"}
    Trees <- SampleTrees
    Parents <- SampleParents
    FileNames <- SampleFileNames
    MaxLinks = 5
    PathMax = 8
INVARIANTS
    ResolvedIsReal
    
    AgreesWithLinux
PROPERTIES
    ResolutionEnds
