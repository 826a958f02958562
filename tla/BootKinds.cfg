\* Every kind of system, on the phone and on the USB drive, a kernel with kexec,
\* any method; sound storage, two faults of the chain.
SPECIFICATION FairBootSpec
CONSTANTS
    Primaries = {p1}
    Roms = {r1, r2}
    Shared = {s1}
    Linux = {l1}
    External = {r2, s1}
    HasKexec = TRUE
    Option = "choice"
    MaxFaults = 0
    MaxBootFaults = 2
PROPERTIES
    RequestServed
    ForceIsOneShot
    BootSettles
    RequestAnswered
