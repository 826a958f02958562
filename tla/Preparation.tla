------------------------------ MODULE Preparation ------------------------------
(***************************************************************************)
(* What multirom() does with the ROM that was chosen, until it exits:      *)
(* multirom_prepare_for_boot loads a kernel for kexec, or makes the        *)
(* primary's ramdisk the root of the ROM for the trampoline to hand over.  *)
(* Any call may fail, and what was done before it stays done.              *)
(***************************************************************************)
EXTENDS UsbRoms

CONSTANTS
    RootFstabs,     \* the fstabs a ROM's ramdisk or vendor partition may have: sequences of
    VendorFstabs,   \*   mount points, empty for one that is missing or cannot be parsed
    NamedVendor,    \* the names of ROMs that have "vendor" in them
    RomInfos,       \* the sets of keys a rom_info.txt may have
    Faults,         \* bound: on the calls that fail
    Boots           \* bound: on the boots

ASSUME PreparationAssumption ==
    /\ \A tab \in RootFstabs \cup VendorFstabs : tab \in Seq(STRING)
    /\ NamedVendor \subseteq STRING /\ Faults \in Nat /\ Boots \in Nat

VARIABLES
    second_boot,    \* is_second_boot
    root,           \* what is done to the root file system the trampoline will hand over
    job,            \* what multirom() holds while it works
    wanted,         \* history: the ROM a second boot is for
    boots, faults,
    slips,          \* history: what failed and was passed over
    ini_fails       \* history: multirom.ini was not written last time, or not read this time

prepVars == <<second_boot, root, job, wanted, boots, faults, slips, ini_fails>>
NoWish == [rom |-> "none", part |-> NoPart]

\* Of the root: whose each folder is; whether the device tree names partitions for init to
\* mount; the ROM's two fstabs, which of them its init.rc mounts and which was changed; where
\* the user's files are and where this Android looks for them; what was added to init's
\* files; and whether init may still relabel the files of all ROMs.
Folders == <<"system", "vendor", "data", "cache">>
FreshRoot ==
    [tree |-> [f \in Range(Folders) |-> "primary"], dtb |-> "none", fstab |-> [root |-> <<>>, vendor |-> <<>>],
     named |-> "any", processed |-> "none", media |-> "none", sought |-> "none", added |-> {}, relabels |-> TRUE,
     keep_realdata |-> FALSE]

\* Of the job: the flags prepare_for_boot is to return, s->rc, the firmware's fstab entry, the
\* folders that are done, a Linux ROM's image on /mnt/image, and what kexec was given.
NoKernel == [of |-> "none", cmdline |-> {}]
FreshJob == [exit |-> {"umount"}, rc |-> {}, fw_part |-> FALSE, done |-> 0, loop_mounted |-> FALSE, kernel |-> NoKernel]

PrepInit ==
    /\ ListInit
    /\ second_boot = FALSE /\ wanted = NoWish
    /\ root = FreshRoot /\ job = FreshJob
    /\ boots = 0 /\ faults = 0 /\ slips = {} /\ ini_fails = {}

-----------------------------------------------------------------------------
\* What most steps do, and leave alone.
Spend(ok) == /\ ok \/ faults < Faults
             /\ faults' = IF ok THEN faults ELSE faults + 1
Slip(ok, what) == slips' = IF ok THEN slips ELSE slips \cup {what}
Step(from, to) == stage = from /\ stage' = to
ListAlone == DrivesAlone /\ PartsAlone /\ IniAlone /\ WatcherAlone /\ RomsAlone /\ UNCHANGED selected_rom
BootAlone == UNCHANGED <<second_boot, wanted, boots, ini_fails>>
NothingFails == UNCHANGED <<faults, slips>>

has_bootimg(r) == Holds(r, {"boot.img"})
Here == multirom_get_rom_type(selected_rom)
Dangles == OnUsb(selected_rom) /\ Partition(selected_rom) \notin Range(partitions)

-----------------------------------------------------------------------------
\* multirom(): which ROM, and by which way.

\* Nobody looks at what multirom_load_status returns.
LoadStatus(fails, opens) ==
    /\ multirom_load_status(fails, opens)
    /\ Spend(opens)
    /\ ini_fails' = IF opens THEN ini_fails ELSE ini_fails \cup {"load"}
    /\ UNCHANGED <<second_boot, root, job, wanted, boots, slips>>

\* A second boot is for the current ROM.  In an MR_NO_KEXEC build one that comes out as
\* Internal goes to the recovery; in the other build Internal it is.
SkipUi ==
    /\ second_boot
    /\ selected_rom' = current_rom
    /\ Step("loaded", IF mr_no_kexec /\ IsDefault(current_rom) THEN "ended" ELSE "chosen")
    /\ UiAlone /\ RomsAlone /\ WatcherAlone /\ UNCHANGED prepVars

Flashes == mr_no_kexec /\ ~second_boot /\ Here # "default" /\ has_bootimg(selected_rom)

\* nokexec_flash_secondary_bootimg, or restoring the primary's image in a second boot; a
\* failure of either ends in the recovery.
FlashSecondary(ok) ==
    /\ Step("chosen", IF ~ok THEN "ended" ELSE IF Dangles THEN "undefined" ELSE "save")
    /\ Flashes /\ Spend(ok)
    /\ job' = [job EXCEPT !.exit = {"reboot", "umount"}]
    /\ ListAlone /\ BootAlone /\ UNCHANGED <<root, slips>>

RestorePrimary(ok) ==
    /\ mr_no_kexec /\ second_boot /\ Spend(ok)
    /\ Step("chosen", IF ok THEN "root" ELSE "ended")
    /\ ListAlone /\ BootAlone /\ UNCHANGED <<root, job, slips>>

NeedsKexec == (IsLinux(selected_rom) \/ (has_bootimg(selected_rom) /\ ~mr_no_kexec)) /\ Here # "default" /\ ~second_boot

Begin ==
    /\ Step("chosen", IF NeedsKexec THEN "kexec" ELSE "root")
    /\ ~Flashes /\ ~(mr_no_kexec /\ second_boot)
    /\ ListAlone /\ UNCHANGED prepVars

-----------------------------------------------------------------------------
\* multirom_load_kexec.

\* The partitions are looked up anew for a ROM that has none, "to find /data".
KexecPartitions(ok, fails) ==
    /\ stage = "kexec" /\ Spend(ok)
    /\ IF OnUsb(selected_rom) THEN ok /\ fails = {} /\ PartsAlone
       ELSE multirom_update_partitions(IF ok THEN fails ELSE plugged)
    /\ Step("kexec", IF ~ok \/ ~(IsAndroid(selected_rom) \/ IsLinux(selected_rom)) THEN "failed" ELSE "fill")
    /\ DrivesAlone /\ IniAlone /\ WatcherAlone /\ RomsAlone /\ BootAlone /\ UNCHANGED <<selected_rom, root, job, slips>>

\* The bootloader's command line without what the primary's boot image added to it.
multirom_get_bootloader_cmdline(headerRead) == {"bootloader"} \cup (IF headerRead THEN {} ELSE {"primary"})

\* The kernel, ramdisk and command line of its boot.img.
multirom_fill_kexec_android(ok, headerRead, room) ==
    /\ Step("fill", IF ok THEN "exec" ELSE "failed")
    /\ IsAndroid(selected_rom) /\ Spend(ok /\ headerRead /\ room) /\ Slip(headerRead /\ room, "command line")
    /\ job' = IF ~ok THEN job ELSE
          [job EXCEPT !.kernel = [of |-> selected_rom.name,
                                  cmdline |-> {"rom"} \cup multirom_get_bootloader_cmdline(headerRead)
                                              \cup (IF room THEN {"mrom_kexecd=1"} ELSE {})]]
    /\ ListAlone /\ BootAlone /\ UNCHANGED root

ParsesRomInfo(keys) == {"type", "kernel_path", "base_cmdline"} \subseteq keys /\ keys \cap {"root_dir", "root_img"} # {}

\* The image is looked for before the directory; it stays mounted when what is in it fails.
multirom_fill_kexec_linux(keys, where, ok) ==
    LET mounts == where = "root_img"
        found == where \in keys /\ ParsesRomInfo(keys) IN
    /\ Step("fill", IF ok /\ found THEN "exec" ELSE "failed")
    /\ IsLinux(selected_rom) /\ Spend(ok)
    /\ job' = [job EXCEPT !.loop_mounted = found /\ mounts,
                          !.kernel = IF ~ok \/ ~found THEN @ ELSE
                             [of |-> selected_rom.name,
                              cmdline |-> {"base_cmdline"} \cup (keys \cap (IF mounts THEN {"img_cmdline"} ELSE {"dir_cmdline"}))]]
    /\ ListAlone /\ BootAlone /\ UNCHANGED <<root, slips>>

kexec_load_exec(ok) ==
    /\ Spend(ok)
    /\ Step("exec", IF ~ok THEN "failed" ELSE IF IsAndroid(selected_rom) THEN "keep" ELSE "save")
    /\ job' = [job EXCEPT !.exit = @ \cup (IF ok THEN {"kexec"} ELSE {}), !.loop_mounted = FALSE,
                          !.kernel = IF ok THEN @ ELSE NoKernel]
    /\ ListAlone /\ BootAlone /\ UNCHANGED <<root, slips>>

-----------------------------------------------------------------------------
\* The fstab (lib/fstab.c): an entry is [path, off, skipped], skipped for recoveryonly.
Entry(path) == [path |-> path, off |-> FALSE, skipped |-> FALSE]
fstab_load(paths) == [i \in DOMAIN paths |-> Entry(paths[i])]
Lists(tab, path) == \E i \in DOMAIN tab : tab[i].path = path

fstab_disable_parts(tab, path) == [i \in DOMAIN tab |-> IF tab[i].path = path THEN [tab[i] EXCEPT !.off = TRUE] ELSE tab[i]]

fstab_disable_first(tab, path) ==
    LET i == SelectInSeq(tab, LAMBDA e : e.path = path) IN IF i = 0 THEN tab ELSE [tab EXCEPT ![i].off = TRUE]

\* multirom_process_android_fstab: <<>> when it gives up, before anything is saved.
Changed(tab, has_fw, treble) ==
    LET off == fstab_disable_parts(fstab_disable_parts(fstab_disable_parts(tab, "/system"), "/data"), "/cache")
        entries == Append(IF has_fw THEN fstab_disable_first(off, "/firmware") ELSE off, [Entry("/data") EXCEPT !.skipped = TRUE])
    IN  IF ~(treble \/ Lists(tab, "/system")) \/ ~Lists(tab, "/data") \/ ~Lists(tab, "/cache") THEN <<>>
        ELSE IF Len(entries) <= 3 + (IF has_fw THEN 1 ELSE 0) THEN Append(entries, Entry("/dummy_tmpfs")) ELSE entries

has_fw == Holds(selected_rom, {"firmware.img"})

\* What becomes of the root once the fstab of its ramdisk, or of its vendor partition, has been
\* changed.  The copy that is saved is in the root in either case; the vendor's own is covered
\* by a bind mount of it, without which this fstab does not count.
multirom_process_android_fstab(which, covers) ==
    LET changed == Changed(root.fstab[which], has_fw, which = "vendor")
        good == changed # <<>> /\ covers IN
    /\ root' = IF good THEN [root EXCEPT !.fstab[which] = changed, !.processed = which] ELSE root
    /\ job' = [job EXCEPT !.fw_part = @ \/ (good /\ has_fw /\ Lists(changed, "/firmware"))]

-----------------------------------------------------------------------------
\* multirom_prep_android_mounts.

\* The ROM's ramdisk files are copied: which come depends on the ROM.
CopyBootFiles(rootTab, vendorTab, named, shown) ==
    /\ Step("root", "fstab")
    /\ IsAndroid(selected_rom)
    /\ root' = [root EXCEPT !.fstab = [root |-> fstab_load(rootTab), vendor |-> fstab_load(vendorTab)],
                            !.named = named, !.dtb = shown]
    /\ job' = [job EXCEPT !.exit = @ \ {"umount"}]
    /\ ListAlone /\ BootAlone /\ NothingFails

\* An fstab that init.rc names and the ramdisk has not, is not looked for elsewhere in the root.
ProcessRootFstab ==
    /\ Step("fstab", "folders")
    /\ IF root.named = "vendor" THEN UNCHANGED <<root, job>> ELSE multirom_process_android_fstab("root", TRUE)
    /\ ListAlone /\ BootAlone /\ NothingFails

Folder == Folders[job.done + 1]
HasFolder(f) == \/ Holds(selected_rom, {f})
                \/ HoldsOne(selected_rom, {f \o ".img", f \o ".sparse.img"})
IsSparse(f) == ~HoldsOne(selected_rom, {f, f \o ".img"})

\* A vendor that is not there, or without vendor/etc, is passed over; what is tested for
\* "vendor" is the whole path, with the ROM's name in it.
SkipsFolder(f) ==
    /\ f = "vendor" \/ selected_rom.name \in NamedVendor
    /\ ~HasFolder(f) \/ (Holds(selected_rom, {f}) /\ ~Holds(selected_rom, {"vendor/etc"}))

\* A folder is bound or an image mounted.  multirom_mount_image never gives up.
MountFolder(ok) ==
    /\ stage = "folders" /\ job.done < Len(Folders)
    /\ SkipsFolder(Folder) => ok
    /\ Spend(ok)
    /\ job' = [job EXCEPT !.done = @ + 1]
    /\ root' = IF ok /\ ~SkipsFolder(Folder) THEN [root EXCEPT !.tree[Folder] = "rom"] ELSE root
    /\ stage' = IF ok THEN stage ELSE IF IsSparse(Folder) THEN "hung" ELSE "failed"
    /\ ListAlone /\ BootAlone /\ UNCHANGED slips

\* /vendor/etc is there once a vendor is mounted, or through a link into /system.
SeesVendor == root.tree["vendor"] # "primary" \/ Holds(selected_rom, {"system/vendor/etc"})

\* The vendor partition of the device tree is the primary's; then the device tree's fstab is
\* hidden, so that init does not mount from it.
MountVendor(mounts, hides) ==
    LET uses == root.dtb = "shown" /\ ~SeesVendor IN
    /\ job.done = Len(Folders) /\ Step("folders", "treble")
    /\ (uses \/ mounts) /\ (root.dtb = "shown" \/ hides)
    /\ Spend(mounts /\ hides) /\ Slip(hides, "device tree")
    /\ root' = [root EXCEPT !.tree["vendor"] = IF uses /\ mounts THEN "dtb" ELSE @,
                            !.dtb = IF @ = "shown" /\ hides THEN "hidden" ELSE @]
    /\ ListAlone /\ BootAlone /\ UNCHANGED job

ProcessVendorFstab(covers) ==
    /\ stage = "treble" /\ Spend(covers)
    /\ IF root.processed = "none" /\ SeesVendor THEN multirom_process_android_fstab("vendor", covers)
       ELSE covers /\ UNCHANGED <<root, job>>
    /\ stage' = IF root'.processed = "none" THEN "failed" ELSE "firmware"
    /\ ListAlone /\ BootAlone /\ UNCHANGED slips

\* multirom_inject_fw_mounter: init is to mount the ROM's image for the partition.
InjectFirmware ==
    /\ Step("firmware", "media")
    /\ job' = [job EXCEPT !.rc = @ \cup (IF job.fw_part THEN {"firmware trigger", "firmware context"} ELSE {}),
                          !.fw_part = FALSE]
    /\ ListAlone /\ BootAlone /\ NothingFails /\ UNCHANGED root

\* multirom_create_media_link: by Android's version ("old" up to API 16) and by where the
\* primary keeps the user's files, under /data/media or /data/media/0.
MediaTo(api, newLayout) == IF api = "old" \/ newLayout THEN "/data/media" ELSE "/data/media/0"
MediaFrom(api, newLayout) == IF api = "old" /\ newLayout THEN "media/0" ELSE "media"

\* Where the files are seen that are in from's part of the primary's media directory.
SeenAt(api, newLayout) ==
    IF newLayout /\ MediaFrom(api, newLayout) = "media" THEN "/data/media/0" ELSE MediaTo(api, newLayout)

multirom_create_media_link(api, newLayout, ok) ==
    /\ Spend(ok)
    /\ Step("media", IF ok THEN "quirks" ELSE "failed")
    /\ root' = IF ok THEN [root EXCEPT !.media = SeenAt(api, newLayout),
                                       !.sought = IF api = "old" THEN "/data/media" ELSE "/data/media/0"] ELSE root
    /\ job' = [job EXCEPT !.rc = @ \cup (IF ok /\ api = "new" THEN {"layout trigger"} ELSE {})]
    /\ ListAlone /\ BootAlone /\ UNCHANGED slips

-----------------------------------------------------------------------------
\* Quirks and rc additions.

\* rom_quirks_on_initrd_finalized: every file of contexts is told to leave the ROMs alone; if
\* one cannot be, the lines that relabel are taken out of init's scripts.
rom_quirks_on_initrd_finalized(failing, disabled, covered) ==
    /\ disabled \/ failing
    /\ Spend(~failing /\ disabled /\ covered) /\ Slip(disabled /\ covered, "contexts")
    /\ root' = [root EXCEPT !.relabels = failing /\ ~disabled]

\* The primary's own system: the device tree is not to have it mounted again.
PrepareInternal(failing, disabled, covered, shown, mounts) ==
    /\ Step("root", "save")
    /\ Here = "default"
    /\ (shown \/ mounts)
    /\ disabled \/ failing
    /\ Spend(~failing /\ disabled /\ covered /\ mounts) /\ Slip(disabled /\ covered /\ mounts, "internal")
    /\ root' = [root EXCEPT !.relabels = failing /\ ~disabled, !.dtb = IF ~shown THEN "none" ELSE IF mounts THEN "hidden" ELSE "shown"]
    /\ ListAlone /\ BootAlone /\ UNCHANGED job

Quirks(failing, disabled, covered) ==
    /\ Step("quirks", "patch")
    /\ rom_quirks_on_initrd_finalized(failing, disabled, covered)
    /\ ListAlone /\ BootAlone /\ UNCHANGED job

\* rom_quirks_change_patch_and_osver reads past NULL for a build.prop without its two lines.
ChangePatchLevel(hasLines) ==
    /\ Spend(hasLines) /\ Slip(hasLines, "build.prop")
    /\ Step("patch", IF hasLines THEN "write" ELSE "undefined")
    /\ ListAlone /\ BootAlone /\ UNCHANGED <<root, job>>

\* rcadditions_write_to_files and _free: a file that cannot be opened ends it quietly, with or
\* without what was written to init's scripts before.
rcadditions_write_to_files(upTo) ==
    LET ok == upTo = "the end" IN
    /\ upTo = "init.rc" => job.rc # {}
    /\ upTo = "file_contexts" => "firmware context" \in job.rc
    /\ Spend(ok) /\ Slip(ok, "rc")
    /\ Step("write", "keep")
    /\ root' = [root EXCEPT !.added = CASE upTo = "init.rc" -> {}
                                        [] upTo = "file_contexts" -> job.rc \ {"firmware context"}
                                        [] OTHER -> job.rc]
    /\ job' = [job EXCEPT !.rc = {}]
    /\ ListAlone /\ BootAlone

PrepareOther ==
    /\ Step("root", IF IsLinux(selected_rom) THEN "save" ELSE "failed")
    /\ ~IsAndroid(selected_rom) /\ Here # "default"
    /\ ListAlone /\ UNCHANGED prepVars

\* The drive is not to be unmounted with the list.
KeepMounted ==
    /\ Step("keep", IF Dangles THEN "undefined" ELSE "save")
    /\ kept' = IF OnUsb(selected_rom) THEN kept \cup {Partition(selected_rom)} ELSE kept
    /\ DrivesAlone /\ IniAlone /\ WatcherAlone /\ RomsAlone /\ UNCHANGED <<partitions, mounted, updates, selected_rom, prepVars>>

-----------------------------------------------------------------------------
\* The end of multirom(): multirom_save_status, multirom_free_status and main.

Saved(r) == [rom |-> r.name, part |-> IF OnUsb(r) THEN r.place ELSE NoPart]

\* current_rom is what was prepared, or what it was when that failed: then the fault screen
\* waits for the power key.  Nobody looks at whether multirom.ini was written: it may be as it
\* was, or empty.  main leaves a mark for the trampoline to keep /realdata mounted.
SaveAndFree(prepared, ok) ==
    LET now == IF prepared THEN Saved(selected_rom)
               ELSE [rom |-> multirom_fixup_rom_name(current_rom, Internal), part |-> curr_rom_part] IN
    /\ Step(IF prepared THEN "save" ELSE "failed",
            IF prepared /\ Dangles THEN "undefined"
            ELSE IF ~prepared \/ "reboot" \in job.exit THEN "reboot" ELSE IF "kexec" \in job.exit THEN "kexeced" ELSE "started")
    /\ Spend(ok)
    /\ ini' \in IF ~ok THEN {ini, EmptyIni} ELSE
          {[rom |-> now.rom, part |-> now.part, auto |-> multirom_fixup_rom_name(auto_boot_rom, ""),
            last |-> ini.last /\ "load" \notin ini_fails]}
    /\ ini_fails' = IF ok THEN ini_fails \ {"save"} ELSE ini_fails \cup {"save"}
    /\ wanted' = IF prepared /\ ("reboot" \in job.exit \/ ("kexec" \in job.exit /\ IsAndroid(selected_rom))) THEN now ELSE NoWish
    /\ mounted' = mounted \ {p.drive : p \in Range(partitions) \ kept}
    /\ partitions' = <<>> /\ roms' = <<>> /\ kept' = {}
    /\ current_rom' = NoRom /\ auto_boot_rom' = NoRom
    /\ DrivesAlone /\ WatcherAlone
    /\ root' = [root EXCEPT !.keep_realdata = prepared /\ "umount" \notin job.exit]
    /\ UNCHANGED <<mr_no_kexec, updates, scans, curr_rom_part, selected_rom, second_boot, boots, slips, job>>

\* The bootloader or the kernel that was kexeced starts it all again.
NextBoot ==
    /\ boots < Boots /\ boots' = boots + 1
    /\ stage = "reboot" \/ (stage = "kexeced" /\ wanted # NoWish)
    /\ stage' = "load"
    /\ second_boot' = (wanted # NoWish)
    /\ root' = FreshRoot /\ job' = FreshJob /\ slips' = {} /\ ini_fails' = ini_fails \ {"load"}
    /\ mounted' = {} /\ updates' = 0 /\ scans' = 0 /\ selected_rom' = NoRom /\ curr_rom_part' = NoPart
    /\ news' = TRUE /\ watcher' = "none" /\ asked' = FALSE
    /\ DrivesAlone /\ UNCHANGED <<ini, mr_no_kexec, roms, partitions, kept, current_rom, auto_boot_rom, wanted, faults>>

PrepareNext ==
    \/ \E ok \in BOOLEAN : FlashSecondary(ok) \/ RestorePrimary(ok) \/ kexec_load_exec(ok) \/ MountFolder(ok)
                           \/ ProcessVendorFstab(ok) \/ ChangePatchLevel(ok)
    \/ \E upTo \in {"init.rc", "file_contexts", "the end"} : rcadditions_write_to_files(upTo)
    \/ \E ok \in BOOLEAN, fails \in SUBSET plugged : KexecPartitions(ok, fails)
    \/ \E ok, read, room \in BOOLEAN : multirom_fill_kexec_android(ok, read, room)
    \/ \E keys \in RomInfos, where \in {"root_img", "root_dir"}, ok \in BOOLEAN : multirom_fill_kexec_linux(keys, where, ok)
    \/ \E r \in RootFstabs, v \in VendorFstabs, named \in {"root", "vendor", "any"}, shown \in {"none", "shown"} :
          CopyBootFiles(r, v, named, shown)
    \/ \E mounts, hides \in BOOLEAN : MountVendor(mounts, hides)
    \/ \E api \in {"old", "new"}, newLayout, ok \in BOOLEAN : multirom_create_media_link(api, newLayout, ok)
    \/ \E failing, disabled, covered \in BOOLEAN :
          \/ Quirks(failing, disabled, covered)
          \/ \E shown, mounts \in BOOLEAN : PrepareInternal(failing, disabled, covered, shown, mounts)
    \/ SkipUi \/ Begin \/ ProcessRootFstab \/ InjectFirmware \/ PrepareOther \/ KeepMounted
    \/ \E prepared, ok \in BOOLEAN : SaveAndFree(prepared, ok)
    \/ NextBoot

PrepNext ==
    \/ PrepareNext
    \/ \E fails \in SUBSET plugged, opens \in BOOLEAN : LoadStatus(fails, opens)
    \/ ListNext /\ UNCHANGED prepVars
    \/ ~second_boot /\ (BootsAtOnce \/ ShowUi) /\ UNCHANGED prepVars

PrepSpec == PrepInit /\ [][PrepNext]_<<listVars, prepVars>>

-----------------------------------------------------------------------------
\* What is handed over.

\* The fstab init will mount, and what it must not mount over the ROM.
InForce == IF root.named = "any" THEN root.processed ELSE root.named
Quiet(tab) ==
    \A i \in DOMAIN tab : tab[i].path \in {"/system", "/data", "/cache"} => tab[i].off \/ tab[i].skipped

\* An fstab of the root that init.rc names is overlooked when that of the vendor was good.
Overlooked == root.named = "root" /\ root.processed = "vendor"

\* What init has to be told: to relabel a file multirom may have made, and to mount the ROM's
\* firmware for the entry that was taken out of the fstab.
Asked == (IF root.sought = "/data/media/0" THEN {"layout trigger"} ELSE {})
         \cup (IF has_fw /\ Lists(root.fstab[root.processed], "/firmware") THEN {"firmware trigger", "firmware context"} ELSE {})

RootWhole ==
    /\ \A f \in {"system", "data", "cache"} : SkipsFolder(f) \/ root.tree[f] = "rom"
    /\ ~Overlooked => Quiet(root.fstab[InForce]) /\ \E i \in DOMAIN root.fstab[InForce] : root.fstab[InForce][i].skipped
    /\ root.media = root.sought
    /\ "device tree" \notin slips => root.dtb # "shown"
    /\ "contexts" \notin slips => ~root.relabels
    /\ "rc" \notin slips => Asked \subseteq root.added
    /\ root.keep_realdata

DriveHeld == OnUsb(selected_rom) => selected_rom.place \in mounted

KernelWhole ==
    /\ job.kernel.of = selected_rom.name
    /\ "command line" \notin slips /\ IsAndroid(selected_rom) => job.kernel.cmdline = {"rom", "bootloader", "mrom_kexecd=1"}

\* What multirom() leaves behind is what was chosen, and whole: an Android ROM's root has its
\* folders (but those of a ROM that is taken for a vendor by its name) and the user's files
\* where this Android looks for them, init will mount nothing of the primary's over them nor
\* relabel them, and the ROM's drive stays mounted; a kernel that is loaded is the ROM's; the
\* boot after it, if the drive is still there, comes up with the same ROM, through
\* multirom.ini and a list made anew; and a second boot of the no-kexec workaround prepares no
\* other, even if multirom.ini cannot be read or the drive is gone.  Passed over are the
\* failures the code passes over.
StartsWhole ==
    /\ stage = "started" /\ IsAndroid(selected_rom) => RootWhole /\ DriveHeld
    /\ stage = "kexeced" => KernelWhole
    /\ stage = "loaded" /\ second_boot /\ ini_fails = {} /\ wanted.part \in mounted \cup {NoPart} =>
          Saved(current_rom) = wanted
    /\ stage \in {"root", "keep", "save"} /\ second_boot /\ mr_no_kexec /\ "save" \notin ini_fails =>
          Saved(selected_rom) = wanted

\* Of the pointers into the lists (multirom.c:545, :1733, multirom_ui.c:286), only those to a
\* drive's ROM are used after what they point to is gone: whatever comes and goes, is listed
\* anew or asked meanwhile, a ROM of the storage is there until multirom() is done with it.
OnlyDrivesDangle ==
    stage = "undefined" => OnUsb(selected_rom) \/ "build.prop" \in slips
=============================================================================
