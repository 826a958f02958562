\* run_core gives up in a second boot before it gets to /data: one fault.
SPECIFICATION FairBootSpec
CONSTANTS
    Primaries = {p1}
    Roms = {r1}
    Shared = {}
    Linux = {}
    External = {}
    HasKexec = FALSE
    Option = "allowed"
    MaxFaults = 0
    MaxBootFaults = 1
PROPERTY SecondBootNeedsData
