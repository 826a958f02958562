\* One fault between the flash of a secondary and its tag.
SPECIFICATION Spec
CONSTANTS
    Primaries = {p1}
    Roms = {r1}
    MaxFaults = 1
INVARIANT SecondaryTriggersSecondBoot
