\* Two media, of one or two kilobytes; units of 256 bytes.
SPECIFICATION Spec
CONSTANTS
    SectorUnits = 2
    Values <- SampleValues
    Disks <- SampleDisks
    MaxMedia = 2
    Requests <- SampleRequests
    Decrypt <- SampleDecrypt
    None = None
INVARIANTS
    FirstMagic
    RequestExact
PROPERTIES
    OtherMediaUntouched
