-------------------------------- MODULE UsbRoms --------------------------------
(***************************************************************************)
(* The list of ROMs and the partitions of USB drives (multirom.c).  The    *)
(* main thread reads multirom.ini, shows the list, and lists the drives'   *)
(* ROMs afresh when asked; the thread that watches /dev/block replaces the *)
(* partitions and asks.  A ROM points to its partition, and current_rom,   *)
(* auto_boot_rom and selected_rom point into the list: what they point to  *)
(* may be freed before they are used.                                      *)
(***************************************************************************)
EXTENDS Naturals, FiniteSets, Sequences, SequencesExt

CONSTANTS
    Drives,     \* a sequence, in blkid's order: partitions with a UUID of their own
    OnStorage,  \* the names in multirom/roms and, by drive, in its directory for
    OnDrive,    \*   the device, each in the order of compare_rom_names
    Files,      \* what a ROM's directory holds, by name and place
    UbuntuInfo, \* infos/ubuntu.txt is there to be copied into a ROM of Ubuntu 13.04
    Updates,    \* bound: on the times the watcher finds the partitions anew
    Swaps       \* bound: on the drives that come and go

Storage == "storage"
Internal == "Internal"
NoPart == "none"
Places == Range(Drives) \cup {Storage}

ASSUME UsbRomsAssumption ==
    /\ Drives \in Seq(STRING) /\ {Storage, NoPart} \cap Range(Drives) = {}
    /\ OnStorage \in Seq(STRING) /\ Internal \in Range(OnStorage)
    /\ OnDrive \in [Range(Drives) -> Seq(STRING)] /\ UbuntuInfo \in BOOLEAN
    /\ Updates \in Nat /\ Swaps \in Nat

VARIABLES
    plugged,        \* the drives that are there
    swaps,
    ini,            \* multirom.ini
    roms,           \* s->roms: a sequence of structures
    partitions,     \* s->partitions: likewise; a structure is told from another by when it was born
    kept,           \* keep_mounted is set
    mounted,        \* the drives mounted under /mnt/mrom
    current_rom, auto_boot_rom, selected_rom,
    curr_rom_part,
    news,           \* /dev/block is not as the thread has seen it
    watcher,        \* the thread that watches: "none", "looks" or "asks"
    asked,          \* LOOP_UPDATE_USB
    updates, scans, \* how often the partitions and the ROMs were listed
    stage,          \* where multirom() is
    mr_no_kexec     \* the build: MR_NO_KEXEC is defined

listVars == <<plugged, swaps, ini, roms, partitions, kept, mounted, current_rom, auto_boot_rom, selected_rom,
              curr_rom_part, news, watcher, asked, updates, scans, stage, mr_no_kexec>>

Rom(name, place, part, born) == [name |-> name, place |-> place, part |-> part, born |-> born]
EmptyIni == [rom |-> "", part |-> NoPart, auto |-> "", last |-> FALSE]
NoRom == Rom("none", NoPart, 0, 0)
OnUsb(r) == r.place \in Range(Drives)
Partition(r) == [drive |-> r.place, born |-> r.part]

\* The structure and the partition it points to have not been freed.
Alive(r) == r \in Range(roms) /\ (OnUsb(r) => Partition(r) \in Range(partitions))

-----------------------------------------------------------------------------
\* What a ROM is, from the files of its directory.
Holds(r, files) == files \subseteq Files[r.name, r.place]
HoldsOne(r, files) == files \cap Files[r.name, r.place] # {}
ByPlace(r, storage, usb) == IF OnUsb(r) THEN usb ELSE storage

IsHybrid(r) == Holds(r, {"system.sparse.img"}) /\ HoldsOne(r, {"data", "data.sparse.img"})
               /\ HoldsOne(r, {"cache", "cache.sparse.img"})
IsUbuntu1304(r) == \/ Holds(r, {"root"}) /\ ~Holds(r, {"boot.img"})
                   \/ Holds(r, {"root.img"}) /\ OnUsb(r)

multirom_get_rom_type(r) ==
    LET android == Holds(r, {"boot"}) IN
    IF ~OnUsb(r) /\ r.name = Internal THEN "default" ELSE
    CASE android /\ Holds(r, {"system", "data", "cache"}) -> ByPlace(r, "android_internal", "android_usb_dir")
      [] android /\ ~Holds(r, {"system", "data", "cache"}) /\ IsHybrid(r) ->
            ByPlace(r, "android_internal_hybrid", "android_usb_hybrid")
      [] android /\ ~Holds(r, {"system", "data", "cache"}) /\ ~IsHybrid(r)
         /\ Holds(r, {"system.img", "data.img", "cache.img"}) -> "android_usb_img"
      [] OTHER ->
            IF Holds(r, {"rom_info.txt"}) \/ (IsUbuntu1304(r) /\ UbuntuInfo) THEN ByPlace(r, "linux_internal", "linux_usb")
            ELSE IF IsUbuntu1304(r) \/ Holds(r, {"root", "boot.img"})
            THEN ByPlace(r, "unsupported_int", "unsupported_usb") ELSE "unknown"

IsDefault(r) == multirom_get_rom_type(r) = "default"
IsAndroid(r) == multirom_get_rom_type(r) \in
    {"android_internal", "android_usb_dir", "android_internal_hybrid", "android_usb_hybrid", "android_usb_img"}
IsLinux(r) == multirom_get_rom_type(r) \in {"linux_internal", "linux_usb"}

-----------------------------------------------------------------------------
\* Looking ROMs up.
FirstOf(list, fits(_)) ==
    LET i == SelectInSeq(list, fits) IN IF i = 0 THEN NoRom ELSE list[i]

multirom_get_internal(list) == FirstOf(list, IsDefault)

\* A mutant that takes the first ROM of that name, on whatever drive.
multirom_get_rom_AnyDrive(list, name, uuid) ==
    IF uuid = NoPart /\ name = Internal THEN multirom_get_internal(list)
    ELSE FirstOf(list, LAMBDA r : ~IsDefault(r) /\ r.name = name)

multirom_get_rom(list, name, uuid) ==
    IF uuid = NoPart /\ name = Internal THEN multirom_get_internal(list)
    ELSE FirstOf(list, LAMBDA r : ~IsDefault(r) /\ r.name = name /\ uuid \in {NoPart, r.place})

multirom_fixup_rom_name(r, default) == IF r = NoRom THEN default ELSE r.name
OrInternal(r, list) == IF r = NoRom THEN multirom_get_internal(list) ELSE r

multirom_scan_partition_for_roms(p, born) ==
    [i \in DOMAIN OnDrive[p.drive] |-> Rom(OnDrive[p.drive][i], p.drive, p.born, born)]

ScanAll(parts, born) ==
    FlattenSeq([i \in DOMAIN parts |-> multirom_scan_partition_for_roms(parts[i], born)])

\* What is in S, in the order of the list.
Among(list, S) == FoldLeft(LAMBDA l, x : IF x \in S THEN Append(l, x) ELSE l, <<>>, list)

\* A drive that blkid lists and that can be mounted.
multirom_mount_usb(d, fails) == d \in plugged \ fails

\* multirom_update_partitions and multirom_destroy_partition: the partitions are freed, and
\* unmounted unless they are kept, whatever points to them; then what is there is mounted.
multirom_update_partitions(fails) ==
    LET there == Among(Drives, {d \in Range(Drives) : multirom_mount_usb(d, fails)})
        gone == {p.drive : p \in Range(partitions) \ kept}
    IN  /\ updates' = updates + 1
        /\ partitions' = [i \in DOMAIN there |-> [drive |-> there[i], born |-> updates + 1]]
        /\ kept' = {}
        /\ mounted' = (mounted \ gone) \cup Range(there)

\* multirom_default_status: the ROMs of the storage, listed once.
StoredRoms == [i \in DOMAIN OnStorage |-> Rom(OnStorage[i], Storage, 0, 0)]

\* multirom_find_usb_roms: the ROMs of drives are listed afresh, and the current and the
\* auto-boot ROM are looked up by name, both on the current ROM's partition.
Relisted_All == [i \in DOMAIN StoredRoms |-> [StoredRoms[i] EXCEPT !.born = scans + 1]] \o ScanAll(partitions, scans + 1)
Relisted == Among(roms, {r \in Range(roms) : ~OnUsb(r)}) \o ScanAll(partitions, scans + 1)
Looked(name) == OrInternal(multirom_get_rom(Relisted, name, curr_rom_part), Relisted)

multirom_find_usb_roms ==
    /\ roms' = Relisted /\ scans' = scans + 1
    /\ current_rom' = Looked(multirom_fixup_rom_name(current_rom, Internal))
    /\ auto_boot_rom' = Looked(multirom_fixup_rom_name(auto_boot_rom, ""))

-----------------------------------------------------------------------------
ListInit ==
    /\ plugged \in SUBSET Range(Drives) /\ swaps = 0
    /\ ini \in [rom : Range(OnStorage) \cup UNION {Range(OnDrive[d]) : d \in Range(Drives)},
                part : Range(Drives) \cup {NoPart}, auto : Range(OnStorage) \cup {""}, last : BOOLEAN]
    /\ ini.rom \in Range(IF ini.part = NoPart THEN OnStorage ELSE OnDrive[ini.part])
    /\ roms = <<>> /\ partitions = <<>> /\ kept = {} /\ mounted = {}
    /\ current_rom = NoRom /\ auto_boot_rom = NoRom /\ selected_rom = NoRom /\ curr_rom_part = NoPart
    /\ news = TRUE /\ watcher = "none" /\ asked = FALSE /\ updates = 0 /\ scans = 0
    /\ stage = "load" /\ mr_no_kexec \in BOOLEAN

\* What the steps of the UI leave alone.
IniAlone == UNCHANGED <<ini, mr_no_kexec>>
DrivesAlone == UNCHANGED <<plugged, swaps>>
PartsAlone == UNCHANGED <<partitions, kept, mounted, updates>>
RomsAlone == UNCHANGED <<roms, scans, current_rom, auto_boot_rom, curr_rom_part>>
WatcherAlone == UNCHANGED <<news, watcher, asked>>

DriveComesOrGoes(d) ==
    /\ swaps < Swaps /\ swaps' = swaps + 1
    /\ plugged' = IF d \in plugged THEN plugged \ {d} ELSE plugged \cup {d}
    /\ news' = TRUE
    /\ UNCHANGED <<watcher, asked, selected_rom, stage>> /\ IniAlone /\ PartsAlone /\ RomsAlone

\* multirom_load_status: the ROMs of the storage, and those of the drive the current ROM is
\* on, which is looked for ten times.
DriveFound(fails) == ini.part \in plugged \ fails

multirom_update_and_scan_for_external_roms(fails) ==
    /\ multirom_update_partitions(fails)
    /\ scans' = scans + 1
    /\ roms' = StoredRoms \o (IF DriveFound(fails)
                              THEN multirom_scan_partition_for_roms([drive |-> ini.part, born |-> updates'], scans')
                              ELSE <<>>)

\* Without a multirom.ini it is Internal, also to be booted automatically.
multirom_load_status(fails, opens) ==
    /\ stage = "load" /\ stage' = "loaded"
    /\ IF opens /\ ini.part # NoPart THEN multirom_update_and_scan_for_external_roms(fails)
       ELSE fails = {} /\ roms' = StoredRoms /\ PartsAlone /\ UNCHANGED scans
    /\ LET found == multirom_get_rom(roms', ini.rom, ini.part) IN
         /\ current_rom' = IF opens THEN OrInternal(found, roms') ELSE multirom_get_internal(roms')
         /\ curr_rom_part' = IF opens /\ found # NoRom THEN ini.part ELSE NoPart
         /\ auto_boot_rom' = IF opens /\ ~ini.last THEN multirom_get_rom(roms', ini.auto, NoPart) ELSE current_rom'
    /\ UNCHANGED selected_rom /\ IniAlone /\ DrivesAlone /\ WatcherAlone

-----------------------------------------------------------------------------
\* The UI: the main thread, the widgets and the watcher.
Chooses(r, next) == selected_rom' = r /\ stage' = next
UiAlone == IniAlone /\ DrivesAlone /\ PartsAlone
Looping == stage \in {"ui", "picked", "asking", "answered"}

\* AUTOBOOT_CHECK_KEYS with no key held: no UI.
BootsAtOnce ==
    /\ stage = "loaded" /\ auto_boot_rom # NoRom
    /\ Chooses(auto_boot_rom, "chosen")
    /\ UiAlone /\ RomsAlone /\ WatcherAlone

ShowUi ==
    /\ stage = "loaded" /\ stage' = "ui"
    /\ UNCHANGED selected_rom /\ UiAlone /\ RomsAlone /\ WatcherAlone

\* multirom_ui_tab_rom_init and _destroy: the thread is started with the tab of the drives
\* and joined with it, and what it has asked for is forgotten.
ShowTab ==
    /\ Looping /\ watcher = "none" /\ watcher' = "looks"
    /\ news' = TRUE
    /\ UNCHANGED <<asked, selected_rom, stage>> /\ UiAlone /\ RomsAlone

LeaveTab(next) ==
    /\ watcher # "asks" /\ watcher' = "none" /\ asked' = FALSE
    /\ stage' = next
    /\ UNCHANGED <<news, selected_rom>> /\ UiAlone /\ RomsAlone

multirom_usb_refresh_thread_work(fails) ==
    \/ /\ watcher = "looks" /\ news /\ updates < Updates
       /\ multirom_update_partitions(fails)
       /\ news' = FALSE /\ watcher' = "asks"
       /\ UNCHANGED <<asked, selected_rom, stage>> /\ IniAlone /\ DrivesAlone /\ RomsAlone
    \/ /\ watcher = "asks" /\ fails = {}
       /\ asked' = TRUE /\ watcher' = "looks"
       /\ UNCHANGED <<news, selected_rom, stage>> /\ UiAlone /\ RomsAlone

\* multirom_ui_tab_rom_boot: a ROM of the list.
Pick(r) ==
    /\ stage = "ui" /\ multirom_get_rom_type(r) \notin {"unsupported_int", "unsupported_usb"}
    /\ Chooses(r, "picked")
    /\ UiAlone /\ RomsAlone /\ WatcherAlone

AutoBootTick ==
    /\ stage = "ui" /\ auto_boot_rom # NoRom
    /\ Chooses(auto_boot_rom, "picked")
    /\ UiAlone /\ RomsAlone /\ WatcherAlone

\* The loop reads selected_rom, and may ask which method boots it.
LoopAsks ==
    /\ stage = "picked" /\ mr_no_kexec
    /\ stage' \in IF IsDefault(selected_rom) THEN {"answered"} ELSE {"answered", "asking"}
    /\ UNCHANGED selected_rom /\ UiAlone /\ RomsAlone /\ WatcherAlone

UserAnswers ==
    /\ stage = "asking" /\ stage' \in {"answered", "ui"}
    /\ UNCHANGED selected_rom /\ UiAlone /\ RomsAlone /\ WatcherAlone

LoopRelists ==
    /\ stage \in {"ui", "asking"} /\ asked
    /\ multirom_find_usb_roms
    /\ asked' = FALSE
    /\ UNCHANGED <<news, watcher, curr_rom_part, selected_rom, stage>> /\ UiAlone

\* The loop is left with an answer; its last card shows the ROM's name.
LoopEnds ==
    /\ stage = IF mr_no_kexec THEN "answered" ELSE "picked"
    /\ stage' = IF selected_rom \in Range(roms) THEN "leaving" ELSE "undefined"
    /\ UNCHANGED selected_rom /\ UiAlone /\ RomsAlone /\ WatcherAlone

ListNext ==
    \/ \E d \in Range(Drives) : (Looping \/ stage = "leaving") /\ DriveComesOrGoes(d)
    \/ \E fails \in SUBSET plugged : multirom_usb_refresh_thread_work(fails)
    \/ ShowTab
    \/ Looping /\ watcher # "none" /\ LeaveTab(stage)
    \/ stage = "leaving" /\ LeaveTab("chosen")
    \/ \E r \in Range(roms) : Pick(r)
    \/ AutoBootTick \/ LoopAsks \/ UserAnswers \/ LoopRelists \/ LoopEnds
=============================================================================
