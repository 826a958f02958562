\* A ROM on the phone and one on the USB drive, a kernel without kexec (the device
\* the workaround is for), one fault of the storage and one of the chain.
SPECIFICATION BootSpec
CONSTANTS
    Primaries = {p1}
    Roms = {r1, r2}
    Shared = {}
    Linux = {}
    External = {r2}
    HasKexec = FALSE
    Option = "allowed"
    MaxFaults = 1
    MaxBootFaults = 1
INVARIANTS
    BootTypeOK
    KernelMatchesSystem
    SlotRestoredWhileRunning
    PendingMatchesIni
PROPERTIES
    NoKexecSpec
