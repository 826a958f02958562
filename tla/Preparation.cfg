INIT MCInit
NEXT MCNext
CONSTANTS
    Drives <- MCDrives
    OnStorage <- MCOnStorage
    OnDrive <- MCOnDrive
    Files <- MCFiles
    UbuntuInfo = TRUE
    Updates = 2
    Swaps = 1
    RootFstabs <- MCRootFstabs
    VendorFstabs <- MCVendorFstabs
    NamedVendor = {"myvendor"}
    RomInfos <- MCRomInfos
    Faults = 2
    Boots = 1
CHECK_DEADLOCK FALSE
INVARIANTS
    StartsWhole
    OnlyDrivesDangle
