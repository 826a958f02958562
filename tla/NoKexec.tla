------------------------------- MODULE NoKexec -------------------------------
(***************************************************************************)
(* The no-kexec workaround (no_kexec.c): how MultiROM starts a secondary   *)
(* ROM by writing its boot.img into the one boot partition ("the slot"),   *)
(* and how it puts the primary boot.img back.                              *)
(*                                                                         *)
(* An image is abstracted to whose kernel it is, whether byte              *)
(* BOOT_NAME_SIZE-1 of its name carries the secondary tag (0x71), and      *)
(* whether all of it was written.  Each file operation of the code is one  *)
(* action; nothing it writes is durable before the caller's sync()         *)
(* (multirom.c:548), so a power loss leaves any mixture of old, new and    *)
(* torn contents in what was written since.                                *)
(*                                                                         *)
(* A definition named X_Y, just above X, is X with the bug Y: the property *)
(* PROJECT.json pairs it with fails when it takes the place of X.          *)
(***************************************************************************)
EXTENDS Integers

CONSTANTS
    Primaries,  \* primary boot images the user may install over time
    Roms,       \* secondary ROMs that have a boot.img
    MaxFaults   \* bound: I/O errors and power losses in a behaviour

ASSUME NoKexecAssumption ==
    /\ Primaries # {}
    /\ Primaries \cap Roms = {}
    /\ {"none", "slot", "backup"} \cap (Primaries \cup Roms) = {}
    /\ MaxFaults \in Nat

VARIABLES
    slot,       \* the boot partition, as a read returns it
    backup,     \* <mrom_dir>/primary_boot.img
    temp,       \* /secondary_boot.img, on the root tmpfs
    romImg,     \* romImg[r]: r's own boot.img is whole
    disk,       \* what storage held in the slot and the backup at the last sync
    dirty,      \* what was written since the last sync
    pc,         \* the next step of the call in progress
    req,        \* the ROM being flashed, "none" while restoring or idle
    res,        \* what the call returned, 0 until it returns
    primary,    \* history: the primary image the user installed last
    faults,     \* bounds the faults injected so far
    exposed     \* history: the last mishap that can cost the primary image, or "none"

vars == <<slot, backup, temp, romImg, disk, dirty, pc, req, res, primary,
          faults, exposed>>

-----------------------------------------------------------------------------
Images == [img : Primaries \cup Roms, tag : BOOLEAN, whole : BOOLEAN]
NoFile == [img |-> "none", tag |-> FALSE, whole |-> FALSE]

Torn(f) == [img |-> f.img, tag |-> f.tag, whole |-> FALSE]
WithTag(f) == [img |-> f.img, tag |-> TRUE, whole |-> f.whole]
HalfWritten(f) == {[img |-> f.img, tag |-> t, whole |-> FALSE] : t \in BOOLEAN}
PrimaryImage == [img |-> primary, tag |-> FALSE, whole |-> TRUE]

Labels == {"idle", "is_new_primary", "backup_primary", "set_oslevel",
           "copy_to_temp", "inject", "flash_slot", "set_secondary_flag",
           "is_secondary_in_primary", "access_backup", "cleanup", "returned"}

\* The ways the primary image can come to harm:
\*   "cut"      power lost, or the process killed, between writing the slot
\*              and the sync
\*   "untagged" the slot holds a secondary that could not be tagged
\*   "short"    copy_file wrote less than it read and still returned 0
\*   "misread"  an unreadable header taken for a tagged one
\*   "stale"    the copy to the temp file failed and an older one was flashed
Mishaps == {"cut", "untagged", "short", "misread", "stale"}

TypeOK ==
    /\ slot \in Images
    /\ backup \in Images \cup {NoFile}
    /\ temp \in Images \cup {NoFile}
    /\ romImg \in [Roms -> BOOLEAN]
    /\ disk \in [slot : Images, backup : Images \cup {NoFile}]
    /\ dirty \in SUBSET ({"slot", "backup"} \cup Roms)
    /\ pc \in Labels
    /\ req \in Roms \cup {"none"}
    /\ res \in -4 .. 0
    /\ primary \in Primaries
    /\ faults \in 0 .. MaxFaults
    /\ exposed \in Mishaps \cup {"none"}

\* The user has just installed MultiROM: a primary image in the slot, no backup.
Init ==
    /\ primary \in Primaries
    /\ slot = PrimaryImage
    /\ backup = NoFile
    /\ temp = NoFile
    /\ romImg = [r \in Roms |-> TRUE]
    /\ disk = [slot |-> slot, backup |-> backup]
    /\ dirty = {}
    /\ pc = "idle"
    /\ req = "none"
    /\ res = 0
    /\ faults = 0
    /\ exposed = "none"

-----------------------------------------------------------------------------
Goto(label) == pc' = label /\ UNCHANGED res
Return(code) == pc' = "returned" /\ res' = code
Idle == pc' = "idle" /\ req' = "none" /\ res' = 0

Spend(ok) ==
    /\ ok \/ faults < MaxFaults
    /\ faults' = IF ok THEN faults ELSE faults + 1

\* copy_file: "fail" when a file cannot be opened, "short" when reading or
\* writing stops early, which the code does not notice.
Hows == {"ok", "short", "fail"}
Copied(from, to, how) ==
    CASE how = "ok" -> from
      [] how = "short" -> Torn(from)
      [] how = "fail" -> to
Harm(mishap, happened) == exposed' = IF happened THEN mishap ELSE exposed

\* What the tag check says when it works.
Tagged == slot.tag
HasBackup == backup # NoFile

\* The boot partition is only unknown when neither fstab nor mrom.fstab names it.
FindBoot(next) ==
    \E found \in BOOLEAN :
        /\ Spend(found)
        /\ IF found THEN Goto(next) ELSE Return(-1)

\* ---- nokexec_flash_secondary_bootimg
FlashSecondary(r) ==
    /\ pc = "idle"
    /\ req' = r
    /\ FindBoot("is_new_primary")
    /\ UNCHANGED <<slot, backup, temp, romImg, disk, dirty, primary, exposed>>

\* Is the image in the slot one that has not been backed up?
IsNew_NoTagCheck(readable) == ~HasBackup
IsNew(readable) == ~HasBackup \/ (readable /\ ~Tagged)

IsNewPrimary ==
    /\ pc = "is_new_primary"
    /\ \E readable \in BOOLEAN :
         /\ Spend(readable)
         /\ HasBackup \/ readable
         /\ Harm("misread", ~readable /\ ~Tagged)
         /\ Goto(IF IsNew(readable) THEN "backup_primary" ELSE "set_oslevel")
    /\ UNCHANGED <<slot, backup, temp, romImg, disk, dirty, req, primary>>

BackupPrimary_Unchecked(how) ==
    /\ pc = "backup_primary"
    /\ Spend(how = "ok")
    /\ backup' = Copied(slot, backup, how)
    /\ dirty' = IF how = "fail" THEN dirty ELSE dirty \cup {"backup"}
    /\ Harm("short", how = "short")
    /\ Goto("set_oslevel")
    /\ UNCHANGED <<slot, temp, romImg, disk, req, primary>>

BackupPrimary(how) ==
    /\ pc = "backup_primary"
    /\ Spend(how = "ok")
    /\ backup' = Copied(slot, backup, how)
    /\ dirty' = IF how = "fail" THEN dirty ELSE dirty \cup {"backup"}
    /\ Harm("short", how = "short")
    /\ IF how = "fail" THEN Return(-2) ELSE Goto("set_oslevel")
    /\ UNCHANGED <<slot, temp, romImg, disk, req, primary>>

\* Loads both images and rewrites the ROM's boot.img in place.  A torn image
\* may fail to load.
SetOslevel(failed) ==
    /\ pc = "set_oslevel"
    /\ Spend(\/ failed = "nothing"
             \/ failed = "load" /\ ~(romImg[req] /\ slot.whole))
    /\ romImg' = IF failed = "write" THEN [romImg EXCEPT ![req] = FALSE] ELSE romImg
    /\ dirty' = IF failed = "load" THEN dirty ELSE dirty \cup {req}
    /\ IF failed = "nothing" THEN Goto("copy_to_temp") ELSE Return(-3)
    /\ UNCHANGED <<slot, backup, temp, disk, req, primary, exposed>>

\* ---- nokexec_flash_to_primary, for a ROM's boot.img or for the backup
Source == IF req \in Roms THEN [img |-> req, tag |-> FALSE, whole |-> romImg[req]]
                          ELSE backup

\* The result of this copy is not looked at.
CopyToTemp(how) ==
    /\ pc = "copy_to_temp"
    /\ Spend(how = "ok")
    /\ temp' = Copied(Source, temp, how)
    /\ IF how = "short" THEN Harm("short", TRUE)
       ELSE Harm("stale", how = "fail" /\ temp # NoFile)
    /\ Goto("inject")
    /\ UNCHANGED <<slot, backup, romImg, disk, dirty, req, primary>>

\* Reads the header of the temp file and, where its trampoline is out of date,
\* injects the current one.  Neither changes what the model keeps of an image.
InjectTemp_HeaderUnchecked ==
    /\ pc = "inject"
    /\ \E ok \in BOOLEAN :
         /\ Spend(ok \/ ~temp.whole)
         /\ IF ok THEN Goto("flash_slot") ELSE Return(-3)
    /\ UNCHANGED <<slot, backup, temp, romImg, disk, dirty, req, primary, exposed>>

InjectTemp_InPlace ==
    /\ pc = "inject"
    /\ slot' = IF temp = NoFile THEN slot ELSE Torn(temp)
    /\ dirty' = dirty \cup {"slot"}
    /\ \E ok \in BOOLEAN :
         /\ Spend(ok \/ ~temp.whole)
         /\ ok => temp # NoFile
         /\ IF ok THEN Goto("flash_slot") ELSE Return(-3)
    /\ UNCHANGED <<backup, temp, romImg, disk, req, primary, exposed>>

InjectTemp ==
    /\ pc = "inject"
    /\ \E ok \in BOOLEAN :
         /\ Spend(ok \/ ~temp.whole)
         /\ ok => temp # NoFile
         /\ IF ok THEN Goto("flash_slot") ELSE Return(-3)
    /\ UNCHANGED <<slot, backup, temp, romImg, disk, dirty, req, primary, exposed>>

FlashSlot(how) ==
    /\ pc = "flash_slot"
    /\ Spend(how = "ok")
    /\ slot' = Copied(temp, slot, how)
    /\ dirty' = IF how = "fail" THEN dirty ELSE dirty \cup {"slot"}
    /\ Harm("short", how = "short")
    /\ IF how = "fail" THEN Return(-3)
       ELSE Goto(IF req \in Roms THEN "set_secondary_flag" ELSE "cleanup")
    /\ UNCHANGED <<backup, temp, romImg, disk, req, primary>>

\* A failing libbootimg_write_img leaves the slot as it was or partly rewritten.
SetSecondaryFlag(ok) ==
    /\ pc = "set_secondary_flag"
    /\ Spend(ok \/ ~slot.whole)
    /\ slot' \in IF ok THEN {WithTag(slot)} ELSE {slot} \cup HalfWritten(slot)
    /\ dirty' = dirty \cup {"slot"}
    /\ Harm("untagged", ~ok)
    /\ Return(IF ok THEN 0 ELSE -4)
    /\ UNCHANGED <<backup, temp, romImg, disk, req, primary>>

\* ---- nokexec_restore_primary_and_cleanup
RestorePrimary ==
    /\ pc = "idle"
    /\ req' = "none"
    /\ FindBoot("is_secondary_in_primary")
    /\ UNCHANGED <<slot, backup, temp, romImg, disk, dirty, primary, exposed>>

\* Any answer but 0 counts as a secondary, the -1 of an unreadable header too.
MustRestore_Inverted(readable) == readable /\ ~Tagged
MustRestore(readable) == ~readable \/ Tagged

IsSecondaryInPrimary ==
    /\ pc = "is_secondary_in_primary"
    /\ \E readable \in BOOLEAN :
         /\ Spend(readable)
         /\ Harm("misread", ~readable /\ ~Tagged)
         /\ Goto(IF MustRestore(readable) THEN "access_backup" ELSE "cleanup")
    /\ UNCHANGED <<slot, backup, temp, romImg, disk, dirty, req, primary>>

AccessBackup ==
    /\ pc = "access_backup"
    /\ Spend(TRUE)
    /\ IF HasBackup THEN Goto("copy_to_temp") ELSE Return(-2)
    /\ UNCHANGED <<slot, backup, temp, romImg, disk, dirty, req, primary, exposed>>

\* A backup that cannot be removed is only logged.
Cleanup ==
    /\ pc = "cleanup"
    /\ \E ok \in BOOLEAN :
         /\ Spend(ok)
         /\ backup' = IF ok THEN NoFile ELSE backup
         /\ dirty' = dirty \cup {"backup"}
    /\ Return(0)
    /\ UNCHANGED <<slot, temp, romImg, disk, req, primary, exposed>>

\* ---- around the calls
\* multirom() syncs before it returns; then the next call may come.
Sync ==
    /\ pc = "returned"
    /\ disk' = [slot |-> slot, backup |-> backup]
    /\ dirty' = {}
    /\ Idle
    /\ UNCHANGED <<slot, backup, temp, romImg, primary, faults, exposed>>

\* The process dies in the middle of a call: its caller sees neither result nor
\* sync, and what it had written reaches storage in the kernel's own time.
Killed ==
    /\ pc \notin {"idle", "returned"}
    /\ Spend(FALSE)
    /\ Harm("cut", "slot" \in dirty)
    /\ Return(-1)
    /\ UNCHANGED <<slot, backup, temp, romImg, disk, dirty, req, primary>>

\* What a power loss leaves of a file: any of the contents since the last sync,
\* or a torn one with either name byte.
Survivors(what, now, old) ==
    IF what \notin dirty THEN {now}
    ELSE {now, old} \cup (IF now = NoFile THEN {}
                          ELSE HalfWritten(now))

PowerLoss ==
    /\ pc # "idle"
    /\ Spend(FALSE)
    /\ slot' \in Survivors("slot", slot, disk.slot)
    /\ backup' \in Survivors("backup", backup, disk.backup)
    /\ romImg' \in {f \in [Roms -> BOOLEAN] :
                      \A r \in Roms : f[r] = romImg[r] \/ (r \in dirty /\ ~f[r])}
    /\ Harm("cut", "slot" \in dirty)
    /\ disk' = [slot |-> slot', backup |-> backup']
    /\ dirty' = {}
    /\ temp' = NoFile
    /\ Idle
    /\ UNCHANGED primary

\* The root tmpfs does not outlive a boot.
Reboot ==
    /\ pc = "idle"
    /\ temp' = NoFile
    /\ UNCHANGED <<slot, backup, romImg, disk, dirty, pc, req, res, primary,
                   faults, exposed>>

\* The user installs another primary boot image from the recovery, which does
\* not know of the backup.
InstallPrimary(p) ==
    /\ pc = "idle"
    /\ primary' = p
    /\ slot' = [img |-> p, tag |-> FALSE, whole |-> TRUE]
    /\ disk' = [disk EXCEPT !.slot = slot']
    /\ temp' = NoFile
    /\ exposed' = "none"
    /\ UNCHANGED <<backup, romImg, dirty, pc, req, res, faults>>

\* The user reinstalls a secondary ROM.
InstallRom(r) ==
    /\ pc = "idle"
    /\ romImg' = [romImg EXCEPT ![r] = TRUE]
    /\ UNCHANGED <<slot, backup, temp, disk, dirty, pc, req, res, primary,
                   faults, exposed>>

\* One step of the call in progress.
CallStep ==
    \/ IsNewPrimary
    \/ \E how \in Hows : BackupPrimary(how)
    \/ \E failed \in {"nothing", "load", "write"} : SetOslevel(failed)
    \/ \E how \in Hows : CopyToTemp(how)
    \/ InjectTemp
    \/ \E how \in Hows : FlashSlot(how)
    \/ \E ok \in BOOLEAN : SetSecondaryFlag(ok)
    \/ IsSecondaryInPrimary
    \/ AccessBackup
    \/ Cleanup

Next ==
    \/ \E r \in Roms : FlashSecondary(r)
    \/ RestorePrimary
    \/ CallStep
    \/ Killed
    \/ Sync
    \/ PowerLoss
    \/ Reboot
    \/ \E p \in Primaries : InstallPrimary(p)
    \/ \E r \in Roms : InstallRom(r)

Spec == Init /\ [][Next]_vars

-----------------------------------------------------------------------------
Holds(f) == f = PrimaryImage

\* The primary boot image the user installed last can be had back at any moment
\* of any call: it is in the slot or in primary_boot.img, complete and untagged,
\* as long as none of the five mishaps happened since it was installed.
PrimaryRecoverable == exposed = "none" => Holds(slot) \/ Holds(backup)

\* A call that returns 0 has done what its caller acts on: after a flash the slot
\* holds exactly the ROM asked for and is tagged, after a restore it holds the
\* primary (multirom.c:483-495 reboots into the one, 473-503 goes on in the other).
ResultTruthful ==
    pc = "returned" /\ res = 0 /\ exposed = "none" =>
        IF req \in Roms THEN slot.img = req /\ slot.tag ELSE Holds(slot)

\* A call that fails without a mishap has left the slot as it found it, so the
\* recovery or the running system the caller falls back to sees the old image.
FailedCallHarmless ==
    pc = "returned" /\ res # 0 /\ exposed = "none" => "slot" \notin dirty /\ slot = disk.slot

\* multirom.c:481: "a secondary boot.img in primary slot will trigger
\* second_boot=1 so we don't need to worry about that any more".
SecondaryTriggersSecondBoot == pc = "returned" /\ slot.img \in Roms => slot.tag

\* Who has the primary image, for PrimaryCustody.
held == {x \in {"slot", "backup"} : Holds(IF x = "slot" THEN slot ELSE backup)}
lost == exposed # "none"
Custody == INSTANCE PrimaryCustody
CustodySpec == Custody!Spec
=============================================================================
