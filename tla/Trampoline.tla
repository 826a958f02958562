------------------------------- MODULE Trampoline -------------------------------
(***************************************************************************)
(* The trampoline's main (trampoline/trampoline.c) from devices_init to    *)
(* the execve of the ROM's own init, with its uevent thread, adbd's thread *)
(* and the decryption.  What multirom does meanwhile is BootChain's; here  *)
(* it leaves .keep_realdata or not, or the device goes down.               *)
(***************************************************************************)
EXTENDS Decryption, Adbd

CONSTANTS
    Fb0, Data       \* the paths of the framebuffer and of /data

ASSUME TrampolineAssumption == {Fb0, Data} \subseteq Paths

VARIABLES
    phase,          \* where main is
    res,            \* what mount_and_run returned
    realdata,       \* what is mounted on /realdata: "none", "plain" or "dm"
    keep_realdata,  \* KEEP_REALDATA is there
    second_boot,    \* mrom_is_second_boot()
    own             \* history: /vendor and /firmware as the ramdisk has them

mainVars == <<phase, res, realdata, keep_realdata, second_boot, own>>

TrampolineInit ==
    /\ DevicesInit /\ AdbInit /\ EncInit
    /\ phase \in {"devices", "exec"}    \* in charger mode nothing is done
    /\ res = -1 /\ second_boot \in BOOLEAN
    /\ realdata = "none" /\ keep_realdata = FALSE /\ ~Mapped
    /\ own = [vendor |-> vendor, firmware |-> firmware]

Goto(p) == phase' = p /\ UNCHANGED <<second_boot, own>>
Fails == res' = -1 /\ Goto("core") /\ UNCHANGED <<realdata, keep_realdata>>
Rest == UNCHANGED <<res, realdata, keep_realdata>>
OthersAlone == UNCHANGED <<deviceVars, adbVars, encVars>>

\* Without a socket devices_init returns at once.
DevicesReady ==
    /\ phase = "devices"
    /\ uevent_thread # "none" \/ ~device_fd
    /\ Goto("fb0") /\ Rest /\ OthersAlone

\* run_core: wait_for_file polls for five seconds; there may be no fstab.
WaitsForFb0 ==
    /\ phase = "fb0"
    /\ \/ NodeName[Fb0] \in DOMAIN nodes /\ Goto("data")
       \/ Goto("close")
    /\ Rest /\ OthersAlone

\* mount_and_run: /data has no entry, its device does not come, or it can be tried.
WaitsForData ==
    /\ phase = "data"
    /\ \/ NodeName[Data] \in DOMAIN nodes /\ Goto("mount") /\ Rest
       \/ Fails
    /\ OthersAlone

\* An encrypted /data cannot be mounted.
try_mount_all_entries ==
    /\ phase = "mount"
    /\ \/ realdata' = "plain" /\ Goto("find") /\ UNCHANGED <<res, keep_realdata>> /\ OthersAlone
       \/ Goto("decrypt") /\ Rest /\ EncBegins /\ UNCHANGED <<deviceVars, adbVars>>

encryption_before_mount ==
    /\ phase = "decrypt" /\ EncEnds /\ UNCHANGED <<deviceVars, adbVars>>
    /\ \/ output = "none" /\ Fails
       \/ output = "internal" /\ res' = 0 /\ Goto("core") /\ UNCHANGED <<realdata, keep_realdata>>
       \/ output = "recovery" /\ Goto("off") /\ Rest
       \/ output = "device" /\ Goto("remount") /\ Rest

MountsDecrypted ==
    /\ phase = "remount"
    /\ \/ realdata' = "dm" /\ Goto("find") /\ UNCHANGED <<res, keep_realdata>>
       \/ Fails
    /\ OthersAlone

find_multirom ==
    /\ phase = "find"
    /\ \/ Goto("multirom") /\ Rest /\ adb_init
       \/ Fails /\ UNCHANGED adbVars
    /\ UNCHANGED <<deviceVars, encVars>>

\* run_multirom, until it returns 0 or may not be restarted; it may take the device down.
run_multirom ==
    /\ phase = "multirom"
    /\ \/ keep_realdata' \in BOOLEAN /\ Goto("quit") /\ UNCHANGED <<res, realdata>>
       \/ Goto("off") /\ Rest
    /\ OthersAlone

Quitting(from, to, step) ==
    /\ phase = from /\ step /\ Goto(to)
    /\ Rest /\ UNCHANGED <<deviceVars, encVars>>

adb_quit ==
    \/ Quitting("quit", IF run_thread THEN "kill" ELSE "joined", adb_quit_Stops)
    \/ adb_pid # "unset" /\ Quitting("kill", "forget", adb_quit_Kills)
    \/ adb_pid = "unset" /\ Quitting("kill", "join", adb_quit_Kills)
    \/ Quitting("forget", "join", adb_quit_Forgets)
    \/ Joinable /\ Quitting("join", "joined", UNCHANGED adbVars)

adb_quit_Returns ==
    /\ phase = "joined"
    /\ res' = 0 /\ Goto("core")
    /\ UNCHANGED <<realdata, keep_realdata>> /\ OthersAlone

\* umount(REALDATA) fails while a process uses it.  A bind mount on /sdcard, too, keeps the
\* mapping busy.
run_core ==
    /\ phase = "core"
    /\ IF res < 0 /\ second_boot THEN Goto("off") /\ Rest /\ OthersAlone
       ELSE /\ Goto("cleanup")
            /\ IF keep_realdata THEN Rest /\ OthersAlone
               ELSE LET used == realdata # "none" /\ "realdata" \in users
                    IN  /\ realdata' = IF used THEN realdata ELSE "none"
                        /\ kept' = IF used THEN kept \cup {"realdata"} ELSE kept
                        /\ encryption_destroy(used \/ "sdcard" \in set_up)
                        /\ UNCHANGED <<res, keep_realdata, run_thread, adb_pid, adb_thread, child, any, set_up,
                                       missed, users>>

Cleanup ==
    /\ phase = "cleanup"
    /\ encryption_cleanup
    /\ Goto("close") /\ Rest /\ UNCHANGED <<deviceVars, adbVars>>

Close ==
    /\ phase = "close"
    /\ devices_close
    /\ Goto("closing") /\ Rest /\ UNCHANGED <<adbVars, encVars>>

\* Without a socket there is no thread, and what the join does is undefined: it returns, or
\* main dies.
Exec ==
    /\ phase = "closing"
    /\ IF uevent_thread = "none" THEN Goto("exec") \/ Goto("off") ELSE uevent_thread = "ended" /\ Goto("exec")
    /\ Rest /\ OthersAlone

Main ==
    \/ DevicesReady \/ WaitsForFb0 \/ WaitsForData \/ try_mount_all_entries
    \/ encryption_before_mount \/ MountsDecrypted \/ find_multirom \/ run_multirom
    \/ adb_quit \/ adb_quit_Returns \/ run_core \/ Cleanup \/ Close \/ Exec

Running == phase \notin {"exec", "off"}

\* Only trampoline_encmnt makes the mapping.
TrampolineNext ==
    \/ Main
    \/ Running /\ DevicesNext /\ Mapped' = Mapped /\ UNCHANGED <<adbVars, encVars, mainVars>>
    \/ Running /\ AdbThread /\ UNCHANGED <<deviceVars, encVars, mainVars>>
    \/ /\ phase = "decrypt" /\ encmnt # "off"
       /\ Encmnt \/ Click(IF second_boot THEN "recovery" ELSE "internal")
       /\ UNCHANGED <<adbVars, mainVars>>

TrampolineSpec == TrampolineInit /\ [][TrampolineNext]_<<deviceVars, adbVars, encVars, mainVars>>

-----------------------------------------------------------------------------
\* When main executes the ROM's init (main), nothing of the trampoline's own is left: its
\* threads have ended, adbd's mounts are gone, /realdata is mounted only if multirom asked for
\* it, the mapping is there only under it, and /vendor and /firmware are the ramdisk's own.
\* What the code does not take back is named.  A mount stays if a process of some shell was
\* using it when it was to be unmounted, and the mapping under such a mount; the mapping stays
\* also if an answer was changed after the right password, its node came too late,
\* trampoline_encmnt died or "remove" failed.  What adbd's set-up had done stays if it broke
\* off, /sdcard's folder if nothing was mounted on it.  A ramdisk without /vendor keeps the
\* link to trampoline_encmnt's; an empty /firmware is removed although no decryption was
\* needed, and one the modem's firmware is still used from is not put back.
HandsOverClean ==
    phase = "exec" =>
        /\ uevent_thread # "runs" /\ Joinable /\ child # "runs"
        /\ realdata # "none" => keep_realdata \/ "realdata" \in kept
        /\ Mapped => \/ keep_realdata /\ realdata = "dm"
                     \/ {"realdata", "sdcard"} \cap kept # {}
                     \/ slips \cap {"answer changed", "node late", "child died", "not removed"} # {}
        /\ set_up \in BrokenOff \/ set_up \subseteq kept \cup {"folder"}
        /\ vendor # own.vendor => own.vendor = "none" /\ encmnt = "done"
        /\ firmware # own.firmware => \/ own.firmware = "empty" /\ encmnt = "none"
                                      \/ "firmware busy" \in slips

\* adb_quit's join waits for a thread that will end: an adbd that runs while main joins was
\* forked between the thread's test of run_thread and its note of the pid, around the kill.
NobodyLeftToKill ==
    phase = "join" /\ child = "runs" => missed
===============================================================================
