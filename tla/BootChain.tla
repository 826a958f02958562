------------------------------ MODULE BootChain ------------------------------
(***************************************************************************)
(* The boot chain around the no-kexec workaround, in an MR_NO_KEXEC build: *)
(* the bootloader starts the kernel in the slot, the trampoline (its       *)
(* /init) mounts /data and runs multirom, and multirom() decides from      *)
(* multirom.ini, the tag in the slot and the user what runs: it reboots    *)
(* into another image, kexecs, or returns so that the trampoline executes  *)
(* /main_init.  A running Android may call multirom --boot-rom.            *)
(*                                                                         *)
(* The calls on the slot are NoKexec's own actions, and every step of this *)
(* module is a step of NoKexec or leaves its variables alone.              *)
(***************************************************************************)
EXTENDS NoKexec

CONSTANTS
    Shared,         \* Android ROMs without a boot.img: they run on the primary's
    Linux,          \* ROMs that need kexec (MASK_KEXEC)
    External,       \* the ROMs that are on a USB drive
    HasKexec,       \* multirom_has_kexec(), the same for every kernel
    Option,         \* the no_kexec option
    MaxBootFaults   \* bound: faults of the boot chain in a behaviour

Internal == "Internal"
Systems == {Internal} \cup Roms \cup Shared \cup Linux
Kernels == Primaries \cup Roms \cup Linux

ASSUME BootChainAssumption ==
    /\ External \subseteq Systems \ {Internal}
    /\ Shared \cap (Roms \cup Linux \cup Primaries) = {}
    /\ Linux \cap (Roms \cup Primaries) = {}
    /\ {Internal, "none"} \cap (Roms \cup Shared \cup Linux \cup Primaries) = {}
    /\ HasKexec \in BOOLEAN
    /\ Option \in {"disabled", "allowed", "confirm", "choice", "forced"}
    /\ MaxBootFaults \in Nat

VARIABLES
    stage,      \* where the boot is
    kernel,     \* the kernel that runs
    system,     \* the system that runs, or ran when --boot-rom was called
    ini,        \* multirom.ini: current_rom and AUTOBOOT_FORCE_CURRENT
    pending,    \* what was written to multirom.ini and is not durable yet
    s,          \* multirom()'s locals and the process-wide selected_method
    usb,        \* the USB drive is plugged in
    chosen,     \* history: what the user asked for and no fault or refusal voided
    bootFaults, \* bounds the faults injected so far
    strained    \* history: the last mishap since the slot held the primary, or "none"

chain == <<stage, kernel, system, ini, pending, s, usb, chosen, bootFaults, strained>>
bootVars == <<chain, vars>>

-----------------------------------------------------------------------------
Stages == {"down", "boot", "trampoline", "load", "select", "commit", "flashing",
           "restoring", "prepare", "save", "sync", "exit", "running",
           "recovery", "hung"}
Exits == {"reboot", "recovery", "bootloader", "shutdown", "kexec", "run", "umount",
          "restart"}

\* What a truncated multirom.ini reads as.
EmptyIni == [rom |-> Internal, force |-> FALSE]

\* multirom() before it starts; exit's initial value is EXIT_REBOOT.
Blank == [rom |-> Internal, force |-> FALSE, second |-> FALSE, toBoot |-> "none",
          exit |-> "reboot", arg |-> "none", method |-> "normal"]

\* The ways the chain can lose track of what is in the slot:
\*   "blind"    the header could not be read to tell whether this is a second boot
\*   "gaveUp"   run_core found no framebuffer device or no fstab in a second boot
\*   "died"     multirom crashed during a second boot or a flash
\*   "saveLost" multirom.ini could not be written
BootMishaps == {"blind", "gaveUp", "died", "saveLost"}

BootTypeOK ==
    /\ TypeOK
    /\ stage \in Stages
    /\ kernel \in Kernels \cup {"none"}
    /\ system \in Systems \cup {"none"}
    /\ ini \in [rom : Systems, force : BOOLEAN]
    /\ pending \in [rom : Systems, force : BOOLEAN]
    /\ s \in [rom : Systems, force : BOOLEAN, second : BOOLEAN,
              toBoot : Systems \cup {"none"}, exit : Exits,
              arg : Systems \cup {"none"}, method : {"normal", "nokexec"}]
    /\ usb \in BOOLEAN
    /\ chosen \in Systems \cup {"none"}
    /\ bootFaults \in 0 .. MaxBootFaults
    /\ strained \in BootMishaps \cup {"none"}

BootInit ==
    /\ Init
    /\ stage = "boot"
    /\ kernel = "none"
    /\ system = "none"
    /\ ini = EmptyIni
    /\ pending = ini
    /\ s = Blank
    /\ usb \in BOOLEAN
    /\ chosen = "none"
    /\ bootFaults = 0
    /\ strained = "none"

-----------------------------------------------------------------------------
At(here) == stage = here
To(there) == stage' = there

BootSpend(ok) ==
    /\ ok \/ bootFaults < MaxBootFaults
    /\ bootFaults' = IF ok THEN bootFaults ELSE bootFaults + 1
Strain(mishap, happened) ==
    strained' = IF happened THEN mishap ELSE strained
Fresh == UNCHANGED <<bootFaults, strained>>

Reachable == {x \in Systems : x \in External => usb}

\* x runs on kernel k until the user does something, and owes him nothing.
Run(x, k) == To("running") /\ system' = x /\ kernel' = k /\ chosen' = "none"
Halt(there) == To(there) /\ system' = "none" /\ kernel' = "none"

-----------------------------------------------------------------------------
\* ---- the bootloader and the trampoline
\* A torn image may not boot; the bootloader then offers the recovery.
Bootloader ==
    /\ At("boot")
    /\ Reboot
    /\ strained' = IF slot = PrimaryImage THEN "none" ELSE strained
    /\ \/ To("trampoline") /\ kernel' = slot.img /\ UNCHANGED <<system, chosen>>
       \/ ~slot.whole /\ Halt("recovery") /\ chosen' = "none"
    /\ UNCHANGED <<ini, pending, s, usb, bootFaults>>

RunMultirom ==
    /\ At("trampoline")
    /\ To("load")
    /\ UNCHANGED <<kernel, system, ini, pending, s, usb, chosen, vars>> /\ Fresh

\* run_core stops before it gets to /data, and main does not look at its result.
RunCoreGivesUp ==
    /\ At("trampoline")
    /\ BootSpend(FALSE)
    /\ Strain("gaveUp", Tagged)
    /\ Run(Internal, kernel)
    /\ UNCHANGED <<ini, pending, s, usb, vars>>

\* /data cannot be mounted or holds no multirom directory.  mrom_is_second_boot
\* answers 0 when it cannot read the header.
MountFails(readable) ==
    /\ At("trampoline")
    /\ BootSpend(FALSE)
    /\ Strain("blind", ~readable)
    /\ IF readable /\ Tagged THEN Halt("recovery") /\ chosen' = "none"
       ELSE Run(Internal, kernel)
    /\ UNCHANGED <<ini, pending, s, usb, vars>>

\* The button of the password screen: "boot primary", or in a second boot "reboot to
\* recovery".  A second boot whose header cannot be read is offered the former.
DecryptScreen ==
    /\ At("trampoline")
    /\ \E readable \in BOOLEAN :
         /\ BootSpend(readable)
         /\ Strain("blind", ~readable /\ Tagged)
         /\ IF readable /\ Tagged THEN Halt("recovery") /\ chosen' = "none"
            ELSE Run(Internal, kernel)
    /\ UNCHANGED <<ini, pending, s, usb, vars>>

-----------------------------------------------------------------------------
\* ---- multirom(): which system?
\* selected_method before the user is asked.
SetStruct == IF ~HasKexec \/ Option = "forced" THEN "nokexec" ELSE "normal"

\* After the status is loaded: --boot-rom, a second or forced boot, or the UI.
Decide_ForcesCurrent(l) ==
    \/ /\ l.arg = "none" /\ (l.second \/ l.force)
       /\ s' = [l EXCEPT !.toBoot = l.rom]
       /\ To("commit") /\ UNCHANGED chosen
    \/ /\ l.arg = "none" /\ ~(l.second \/ l.force)
       /\ s' = l
       /\ To("select") /\ chosen' = "none"
    \/ /\ l.arg \in Reachable \cap (Roms \cup Linux)
       /\ s' = [l EXCEPT !.toBoot = l.arg, !.second = FALSE]
       /\ To("commit") /\ UNCHANGED chosen
    \/ /\ l.arg \in Reachable \ (Roms \cup Linux)
       /\ s' = [l EXCEPT !.force = TRUE]
       /\ To("save") /\ UNCHANGED chosen
    \/ /\ l.arg \notin Reachable \cup {"none"}
       /\ s' = [l EXCEPT !.exit = "umount"]
       /\ To("save") /\ chosen' = "none"

Decide(l) ==
    \/ /\ l.arg = "none" /\ (l.second \/ l.force)
       /\ s' = [l EXCEPT !.toBoot = l.rom]
       /\ To("commit") /\ UNCHANGED chosen
    \/ /\ l.arg = "none" /\ ~(l.second \/ l.force)
       /\ s' = l
       /\ To("select") /\ chosen' = "none"
    \/ /\ l.arg \in Reachable \cap (Roms \cup Linux)
       /\ s' = [l EXCEPT !.toBoot = l.arg, !.second = FALSE]
       /\ To("commit") /\ UNCHANGED chosen
    \/ /\ l.arg \in Reachable \ (Roms \cup Linux)
       /\ s' = [l EXCEPT !.rom = l.arg, !.force = TRUE]
       /\ To("save") /\ UNCHANGED chosen
    \/ /\ l.arg \notin Reachable \cup {"none"}
       /\ s' = [l EXCEPT !.exit = "umount"]
       /\ To("save") /\ chosen' = "none"

\* What multirom_load_status makes of multirom.ini: a ROM that is not there
\* becomes Internal.
Loaded(readable) ==
    [Blank EXCEPT !.rom = IF ini.rom \in Reachable THEN ini.rom ELSE Internal,
                  !.force = ini.force, !.second = readable /\ Tagged,
                  !.arg = s.arg, !.method = SetStruct]

\* Internal on a secondary's kernel: something went wrong.  The answer to the first
\* reading of the header is cached, a failure is not: then it is read again, and a
\* second failure (-1) counts as a second boot.
SomethingWrong_NotChecked(l, again) == FALSE
SomethingWrong(l, again) == l.rom = Internal /\ (again => Tagged)

FallBack_Reboots(l) ==
    /\ s' = [l EXCEPT !.second = FALSE, !.method = "normal", !.exit = "reboot"]
    /\ To("save") /\ chosen' = "none"

FallBack(l) ==
    /\ s' = [l EXCEPT !.second = FALSE, !.method = "normal", !.exit = "recovery"]
    /\ To("save") /\ chosen' = "none"

LoadStatus(readable, again) ==
    /\ At("load")
    /\ readable => again
    /\ BootSpend(readable)
    /\ Strain("blind", ~readable)
    /\ LET l == Loaded(readable)
       IN  IF SomethingWrong(l, again) THEN FallBack(l) ELSE Decide(l)
    /\ UNCHANGED <<kernel, system, ini, pending, usb, vars>>

\* The methods multirom_ui can leave selected for x, asking or not; an auto-boot
\* that only checks the keys leaves the one of nokexec_set_struct.  Nothing reads it after that:
\* the flash is decided without it (multirom.c:478).
Methods(x) ==
    {SetStruct} \cup CASE x = Internal -> {"normal"}
                       [] ~HasKexec -> {"nokexec"}
                       [] Option = "choice" -> {"normal", "nokexec"}
                       [] OTHER -> {}

\* Any system can be picked: what the boot button refuses, auto_boot_rom can name.
Pick(x) ==
    /\ At("select")
    /\ \E m \in Methods(x) : s' = [s EXCEPT !.toBoot = x, !.method = m]
    /\ chosen' = x
    /\ To("commit")
    /\ UNCHANGED <<kernel, system, ini, pending, usb, vars>> /\ Fresh

\* The power menu.  Without a framebuffer the UI returns with nothing to boot, and
\* exit still says reboot.
LeaveUI_BootsNull ==
    /\ At("select")
    /\ \E e \in {"reboot", "recovery", "bootloader", "shutdown"} :
         s' = [s EXCEPT !.exit = e]
    /\ To("commit")
    /\ UNCHANGED <<kernel, system, ini, pending, usb, chosen, vars>> /\ Fresh

LeaveUI ==
    /\ At("select")
    /\ \E e \in {"reboot", "recovery", "bootloader", "shutdown"} :
         s' = [s EXCEPT !.exit = e]
    /\ To("save")
    /\ UNCHANGED <<kernel, system, ini, pending, usb, chosen, vars>> /\ Fresh

-----------------------------------------------------------------------------
\* ---- multirom(): boot it
Unforced_Kept == s
Unforced == [s EXCEPT !.force = FALSE]

\* MR_NO_KEXEC_ABORT
Abort(l) ==
    /\ s' = [l EXCEPT !.exit = IF s.arg = "none" THEN "recovery" ELSE "umount"]
    /\ To("save") /\ chosen' = "none"

\* In a second boot the primary goes back into the slot first; otherwise a ROM
\* with a boot.img is flashed.
Route_NoRestore == IF ~s.second /\ s.toBoot \in Roms THEN "flashing" ELSE "prepare"
Route_FlashesAgain ==
    IF s.toBoot \in Roms THEN "flashing" ELSE IF s.second THEN "restoring" ELSE "prepare"
Route ==
    IF s.second THEN "restoring" ELSE IF s.toBoot \in Roms THEN "flashing" ELSE "prepare"

Commit ==
    /\ At("commit")
    /\ s' = Unforced
    /\ To(Route)
    /\ CASE Route = "restoring" -> RestorePrimary
         [] Route = "flashing" -> FlashSecondary(s.toBoot)
         [] Route = "prepare" -> UNCHANGED vars
    /\ UNCHANGED <<kernel, system, ini, pending, usb, chosen>> /\ Fresh

InCall == CallStep /\ UNCHANGED chain

FlashReturned_KeepsRom ==
    /\ At("flashing") /\ pc = "returned"
    /\ IF res < 0 THEN Abort(s)
       ELSE s' = [s EXCEPT !.exit = "reboot"] /\ To("save") /\ UNCHANGED chosen
    /\ UNCHANGED <<kernel, system, ini, pending, usb, vars>> /\ Fresh

FlashReturned ==
    /\ At("flashing") /\ pc = "returned"
    /\ IF res < 0 THEN Abort(s)
       ELSE /\ s' = [s EXCEPT !.rom = s.toBoot, !.exit = "reboot"]
            /\ To("save") /\ UNCHANGED chosen
    /\ UNCHANGED <<kernel, system, ini, pending, usb, vars>> /\ Fresh

RestoreReturned ==
    /\ At("restoring") /\ pc = "returned"
    /\ IF res < 0 THEN Abort(s) ELSE To("prepare") /\ UNCHANGED <<s, chosen>>
    /\ UNCHANGED <<kernel, system, ini, pending, usb, vars>> /\ Fresh

\* multirom_prepare_for_boot: load the kexec kernel, or set up the ROM's mounts.
\* When it fails the emergency screen waits for the power key and reboots.
NeedsKexec == s.toBoot \in Linux /\ ~s.second
PreparedExit ==
    CASE NeedsKexec -> "kexec"
      [] s.toBoot \in Shared \cup Roms -> "run"
      [] OTHER -> "umount"

Prepare(ok) ==
    /\ At("prepare")
    /\ ok => (NeedsKexec => HasKexec)
    /\ ~ok => NeedsKexec \/ PreparedExit = "run"
    /\ BootSpend(ok \/ (NeedsKexec /\ ~HasKexec))
    /\ IF ok
       THEN /\ s' = [s EXCEPT !.rom = s.toBoot, !.second = FALSE, !.exit = PreparedExit]
            /\ UNCHANGED chosen
       ELSE /\ s' = [s EXCEPT !.exit = IF s.arg = "none" THEN "reboot" ELSE "umount"]
            /\ chosen' = "none"
    /\ To("save")
    /\ UNCHANGED <<kernel, system, ini, pending, usb, strained, vars>>

\* multirom_save_status truncates multirom.ini first; its result is not looked at.
Save(ok) ==
    /\ At("save")
    /\ BootSpend(ok)
    /\ Strain("saveLost", ~ok)
    /\ pending' \in IF ok THEN {[rom |-> s.rom, force |-> s.force]} ELSE {ini, EmptyIni}
    /\ chosen' = IF ok THEN chosen ELSE "none"
    /\ To("sync")
    /\ UNCHANGED <<kernel, system, ini, s, usb, vars>>

SyncAll_Skipped ==
    /\ At("sync")
    /\ ini' = pending
    /\ pc' = "idle" /\ UNCHANGED <<slot, backup, temp, romImg, disk, dirty, req, res,
                                   primary, faults, exposed>>
    /\ To("exit")
    /\ UNCHANGED <<kernel, system, pending, s, usb, chosen>> /\ Fresh

SyncAll ==
    /\ At("sync")
    /\ ini' = pending
    /\ IF pc = "returned" THEN Sync ELSE UNCHANGED vars
    /\ To("exit")
    /\ UNCHANGED <<kernel, system, pending, s, usb, chosen>> /\ Fresh

\* main() acts on the result.  Without a reboot or a kexec the trampoline goes on
\* to /main_init, or Android goes on running when it was --boot-rom.
Leave ==
    /\ At("exit")
    /\ CASE s.exit = "reboot" -> Halt("boot") /\ UNCHANGED chosen
         [] s.exit \in {"bootloader", "shutdown"} -> Halt("down") /\ UNCHANGED chosen
         [] s.exit = "recovery" -> Halt("recovery") /\ UNCHANGED chosen
         [] s.exit = "kexec" -> Run(s.toBoot, s.toBoot)
         [] s.exit = "run" -> Run(s.toBoot, kernel)
         [] s.exit = "umount" /\ s.arg = "none" -> Run(Internal, kernel)
         [] s.exit = "umount" /\ s.arg # "none" -> Run(system, kernel)
         [] s.exit = "restart" -> To("load") /\ UNCHANGED <<kernel, system, chosen>>
    /\ s' = Blank
    /\ UNCHANGED <<ini, pending, usb, vars>> /\ Fresh

\* do_kexec spins for ever when kexec -e comes back.
KexecFails ==
    /\ At("exit") /\ s.exit = "kexec"
    /\ BootSpend(FALSE)
    /\ To("hung")
    /\ UNCHANGED <<kernel, system, ini, pending, s, usb, chosen, strained, vars>>

\* multirom dies, or its file is missing; run_multirom starts it again when
\* restart_after_crash exists.  What it had written becomes durable meanwhile.
Died(restart) ==
    /\ stage \in {"load", "select", "commit", "flashing", "restoring", "prepare", "save"}
    /\ BootSpend(FALSE)
    /\ Strain("died", pc # "idle" \/ kernel \notin Primaries)
    /\ IF pc \in {"idle", "returned"} THEN UNCHANGED vars ELSE Killed
    /\ restart => s.arg = "none"
    /\ s' = [Blank EXCEPT !.arg = s.arg, !.exit = IF restart THEN "restart" ELSE "umount"]
    /\ To("sync") /\ chosen' = "none"
    /\ UNCHANGED <<kernel, system, ini, pending, usb>>

-----------------------------------------------------------------------------
\* ---- the user and the world
PressPower ==
    /\ At("down")
    /\ To("boot")
    /\ UNCHANGED <<kernel, system, ini, pending, s, usb, chosen, vars>> /\ Fresh

\* Also what a multirom.ini written just before leaves is up to chance.
PowerCut ==
    /\ ~At("down")
    /\ IF pc = "idle" THEN UNCHANGED vars ELSE PowerLoss
    /\ ini' \in IF At("sync") THEN {ini, pending, EmptyIni} ELSE {ini}
    /\ pending' = ini'
    /\ Strain("saveLost", ini' # pending)
    /\ Halt("down") /\ s' = Blank /\ chosen' = "none"
    /\ UNCHANGED <<usb, bootFaults>>

\* From the running system, or out of the recovery.
Restart ==
    /\ stage \in {"running", "recovery"}
    /\ \E there \in {"boot", "recovery"} : Halt(there)
    /\ UNCHANGED <<ini, pending, s, usb, chosen, vars>> /\ Fresh

\* MultiROM Manager runs multirom --boot-rom=x in the running Android.
BootRom(x) ==
    /\ At("running") /\ system \notin Linux
    /\ s' = [Blank EXCEPT !.arg = x]
    /\ chosen' = x
    /\ To("load")
    /\ UNCHANGED <<kernel, system, ini, pending, usb, vars>> /\ Fresh

\* The user reinstalls a primary or a secondary image in the recovery.
Reinstall ==
    /\ At("recovery")
    /\ \/ \E p \in Primaries : InstallPrimary(p)
       \/ \E r \in Roms : InstallRom(r)
    /\ UNCHANGED chain

\* Whoever takes the drive away waives what he asked for on it.
PlugUsb ==
    /\ External # {}
    /\ stage \in {"down", "boot", "select", "running"} /\ system \notin External
    /\ usb' = ~usb
    /\ chosen' = IF chosen \in External THEN "none" ELSE chosen
    /\ UNCHANGED <<stage, kernel, system, ini, pending, s, vars>> /\ Fresh

-----------------------------------------------------------------------------
\* What the device does by itself.
DeviceStep ==
    \/ Bootloader
    \/ RunMultirom
    \/ RunCoreGivesUp
    \/ \E readable \in BOOLEAN : MountFails(readable)
    \/ \E readable, again \in BOOLEAN : LoadStatus(readable, again)
    \/ Commit
    \/ InCall
    \/ FlashReturned
    \/ RestoreReturned
    \/ \E ok \in BOOLEAN : Prepare(ok) \/ Save(ok)
    \/ SyncAll
    \/ Leave
    \/ KexecFails
    \/ \E restart \in BOOLEAN : Died(restart)

UserStep ==
    \/ DecryptScreen
    \/ \E x \in Reachable : Pick(x)
    \/ LeaveUI
    \/ PressPower
    \/ PowerCut
    \/ Restart
    \/ \E x \in Systems : BootRom(x)
    \/ Reinstall
    \/ PlugUsb

BootNext == DeviceStep \/ UserStep
BootSpec == BootInit /\ [][BootNext]_bootVars
FairBootSpec == BootSpec /\ WF_bootVars(DeviceStep)

-----------------------------------------------------------------------------
Clean == exposed = "none" /\ strained = "none"

\* A system only ever runs on a kernel made for it: Internal and the ROMs without
\* a boot.img on a primary kernel, any other ROM on its own.
KernelMatchesSystem ==
    At("running") /\ Clean =>
        kernel \in IF system \in Roms \cup Linux THEN {system} ELSE Primaries

\* While a secondary runs, the slot already holds the primary again, so that the
\* next boot goes through the primary whatever happens (multirom.c:472-475).
SlotRestoredWhileRunning == At("running") /\ Clean => slot = PrimaryImage

\* Between the flash and the second boot the slot and multirom.ini name the same
\* ROM: the second boot takes the system from the one and the kernel from the
\* other.  Only a boot without the USB drive parts them, and then multirom.ini
\* says Internal, which LoadStatus turns away.
PendingMatchesIni ==
    At("boot") /\ Clean /\ Tagged =>
        \/ ini.rom = slot.img
        \/ ini.rom = Internal /\ slot.img \in External

\* What starts to run is what the user asked for, in the UI or by --boot-rom,
\* however many reboots lie in between.
RequestServed ==
    [][At("exit") /\ To("running") /\ chosen # "none" /\ Clean
         => system' = chosen]_bootVars

\* AUTOBOOT_FORCE_CURRENT is good for one boot: once multirom started a system it
\* is gone from multirom.ini.
ForceIsOneShot ==
    [][At("exit") /\ To("running") /\ s.arg = "none" /\ s.toBoot # "none" /\ Clean
         => ~ini.force]_bootVars

\* A boot ends: the device does not reboot for ever between images (trampoline.c:370
\* favours the recovery for that reason).
BootSettles == At("boot") ~> stage \in {"select", "running", "recovery", "down", "hung"}

\* Every request is answered: the system runs, the user sees that it will not, or the
\* device hangs in do_kexec.
RequestAnswered == \A x \in Systems : chosen = x ~> (chosen # x \/ At("hung"))

\* The slot is only touched through whole calls of no_kexec.c.
NoKexecSpec == Spec

\* trampoline.c:367: "This is second boot and we couldn't mount /data, reboot!", said
\* by whoever can read that it is one.
SecondBootNeedsData ==
    [][At("trampoline") /\ Tagged /\ exposed = "none" /\ strained' # "blind"
         => ~To("running")]_bootVars
=============================================================================
