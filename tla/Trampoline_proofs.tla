--------------------------- MODULE Trampoline_proofs ---------------------------
(***************************************************************************)
(* What the trampoline leaves to the ROM's init, and that /dev follows     *)
(* sysfs, for every device and any order of its threads.  The first        *)
(* invariant goes along main's way: what adbd's thread may still do, where *)
(* the ramdisk's folders are, and who knows of the mapping.  The second    *)
(* says what the events that wait still have to do to the nodes.           *)
(***************************************************************************)
EXTENDS Trampoline, TLAPS

Early == {"devices", "fb0", "data", "mount"}
BeforeAdb == Early \cup {"decrypt", "remount", "find"}
Leaving == {"close", "closing", "exec"}
AfterAdb == {"joined", "core", "cleanup"} \cup Leaving
Phases == BeforeAdb \cup AfterAdb \cup {"multirom", "quit", "kill", "forget", "join", "off"}

\* adbd's thread, seen from main: it goes round while it may, a kill finds every child
\* whose pid it has noted, and after the join nothing is left of it.
AdbInv ==
    /\ run_thread \in BOOLEAN
    /\ phase \in BeforeAdb => adb_thread = "none" /\ ~run_thread
    /\ phase \in {"multirom", "quit"} => run_thread
    /\ phase \in {"kill", "forget", "join"} => ~run_thread
    /\ phase \in AfterAdb => Joinable
    /\ child = "runs" => adb_thread \in {"forked", "noted", "waits"}
    /\ phase \in {"multirom", "quit", "kill", "forget"} /\ adb_thread \in {"noted", "waits"} => adb_pid = "child"
    /\ phase \in {"forget", "join"} /\ (child = "runs" \/ adb_thread = "fork") => missed
    /\ adb_thread \in {"none", "starts"} => set_up = {}
    /\ adb_thread = "ended" => set_up \in BrokenOff \/ set_up \subseteq kept \cup {"folder"}

\* /vendor and /firmware, and where the ramdisk's own are kept meanwhile.
FoldersInv ==
    /\ own.vendor \in {"own", "none"} /\ own.firmware \in {"none", "empty", "full"}
    /\ phase \in Early => encmnt = "none"
    /\ phase \notin {"decrypt", "off"} => encmnt \in {"none", "done"}
    /\ phase \notin Leaving \cup {"off"} =>
          IF encmnt = "none"
          THEN vendor = own.vendor /\ ~vendor_boot /\ firmware = own.firmware /\ firmware_boot = "none"
          ELSE vendor = "enc" /\ (vendor_boot <=> own.vendor = "own") /\ firmware = "made" /\ firmware_boot = own.firmware
    /\ phase \in Leaving =>
          /\ vendor # own.vendor => own.vendor = "none" /\ encmnt = "done"
          /\ firmware # own.firmware => (own.firmware = "empty" /\ encmnt = "none") \/ "firmware busy" \in slips

\* What the mapping may be left for.
Excused ==
    \/ {"realdata", "sdcard"} \cap kept # {}
    \/ slips \cap {"answer changed", "node late", "child died", "not removed"} # {}

\* A mapping is one that somebody has yet to answer for, or that slipped away.
MappingInv ==
    /\ encmnt \in {"none", "begins", "checks"} => ~Mapped
    /\ encmnt \in {"none", "begins", "checks", "screen", "leaves", "looks"} => output = "none"
    /\ encmnt \notin {"screen", "leaves"} => typing = "idle"
    /\ encmnt \in {"screen", "leaves"} /\ Mapped => typing = "ok" \/ exit_code = "ok" \/ Excused
    /\ encmnt = "exits" /\ Mapped => output = "device" \/ Excused
    /\ phase \notin Leaving \cup {"cleanup", "off"} /\ encmnt = "done" /\ Mapped => g_decrypted \/ Excused
    /\ phase \in Leaving \cup {"cleanup"} /\ Mapped => (keep_realdata /\ realdata = "dm") \/ Excused

\* What is mounted on /realdata.
MountInv ==
    /\ realdata \in {"none", "plain", "dm"}
    /\ phase \in Early \cup {"decrypt", "remount"} => realdata = "none"
    /\ phase \in {"find", "multirom"} => realdata # "none"
    /\ realdata = "plain" => encmnt = "none"
    /\ keep_realdata => realdata # "none"
    /\ phase \in Leaving \cup {"cleanup"} => (realdata # "none" => keep_realdata \/ "realdata" \in kept)

TrampolineInv ==
    /\ phase \in Phases
    /\ phase = "exec" => uevent_thread # "runs"
    /\ AdbInv /\ FoldersInv /\ MappingInv /\ MountInv

-----------------------------------------------------------------------------
LEMMA InitInv == TrampolineInit => TrampolineInv
<1> SUFFICES ASSUME TrampolineInit PROVE TrampolineInv OBVIOUS
<1> USE DEF TrampolineInit, Early, BeforeAdb, Leaving, AfterAdb
<1>1. phase \in Phases /\ uevent_thread # "runs" BY DEF Phases, DevicesInit
<1>2. AdbInv BY DEF AdbInv, AdbInit, Joinable
<1>3. FoldersInv BY DEF FoldersInv, EncInit
<1>4. MappingInv BY DEF MappingInv, EncInit
<1>5. MountInv BY DEF MountInv, EncInit
<1> QED BY <1>1, <1>2, <1>3, <1>4, <1>5 DEF TrampolineInv

\* adbd's thread alone.
LEMMA AdbThreadInv ==
    ASSUME AdbInv, AdbThread, phase' = phase
    PROVE  AdbInv'
<1> USE DEF AdbInv, Early, BeforeAdb, Leaving, AfterAdb, Joinable, BrokenOff, Base, shellVars
<1>1. CASE adb_thread_Starts BY <1>1 DEF adb_thread_Starts
<1>2. CASE adb_thread_Tests BY <1>2 DEF adb_thread_Tests
<1>3. CASE adb_thread_Forks BY <1>3 DEF adb_thread_Forks
<1>4. CASE adb_thread_Notes BY <1>4 DEF adb_thread_Notes
<1>5. CASE adb_thread_Waits BY <1>5 DEF adb_thread_Waits
<1>6. CASE adb_thread_Reaps BY <1>6 DEF adb_thread_Reaps
<1>7. CASE AdbdEnds BY <1>7 DEF AdbdEnds
<1>8. CASE adb_cleanup BY <1>8 DEF adb_cleanup
<1>9. CASE ShellsEnd BY <1>9 DEF ShellsEnd
<1>10. CASE \E mount \in Mounts \cup {"realdata"} : ShellUses(mount) BY <1>10 DEF ShellUses
<1> QED BY <1>1, <1>2, <1>3, <1>4, <1>5, <1>6, <1>7, <1>8, <1>9, <1>10 DEF AdbThread

\* What was once in use at its unmounting stays on record.
LEMMA KeptGrows == AdbThread => kept \subseteq kept'
BY DEF AdbThread, adb_thread_Starts, adb_thread_Tests, adb_thread_Forks, adb_thread_Notes, adb_thread_Waits,
       adb_thread_Reaps, AdbdEnds, adb_cleanup, ShellsEnd, ShellUses, shellVars

LEMMA ExcusedKept == kept \subseteq kept' /\ slips \subseteq slips' => (Excused => Excused')
BY DEF Excused

\* trampoline_encmnt: a mapping that was made has an answer on its way, or slipped.
LEMMA MappedKept == UNCHANGED deviceVars => Mapped' = Mapped
BY DEF deviceVars, Mapped

LEMMA MapMade == Comes(Dm) => Mapped'
BY DEF Comes, Mapped

LEMMA EncmntInv ==
    ASSUME TrampolineInv, phase = "decrypt", encmnt # "off",
           Encmnt \/ \E answer \in {"internal", "recovery"} : Click(answer),
           UNCHANGED <<adbVars, mainVars>>
    PROVE  FoldersInv' /\ MappingInv' /\ MountInv'
<1> USE DEF Early, BeforeAdb, Leaving, AfterAdb, InputAlone, PwUiAlone, DirsAlone
<1>1. FoldersInv'
  <2>1. DirsAlone /\ encmnt # "none" /\ encmnt' # "none"
    <3> USE DEF TrampolineInv, MappingInv
    <3>1. CASE EncmntStarts BY <3>1 DEF EncmntStarts
    <3>2. CASE CheckDefault BY <3>2 DEF CheckDefault, cryptfs_check_passwd
    <3>3. CASE TryPassword BY <3>3 DEF TryPassword
    <3>4. CASE try_password BY <3>4 DEF try_password
    <3>5. CASE \E answer \in {"internal", "recovery"} : Click(answer) BY <3>5 DEF Click
    <3>6. CASE Answered BY <3>6 DEF Answered
    <3>7. CASE PowerKey BY <3>7 DEF PowerKey
    <3>8. CASE pw_ui_shutdown_counter_touch_handler BY <3>8 DEF pw_ui_shutdown_counter_touch_handler
    <3>9. CASE LoopLeft BY <3>9 DEF LoopLeft
    <3>10. CASE pw_ui_Ends BY <3>10 DEF pw_ui_Ends
    <3>11. CASE FindNode BY <3>11 DEF FindNode
    <3>12. CASE EncmntDies BY <3>12 DEF EncmntDies
    <3> QED BY <3>1, <3>2, <3>3, <3>4, <3>5, <3>6, <3>7, <3>8, <3>9, <3>10, <3>11, <3>12 DEF Encmnt
  <2>2. UNCHANGED <<vendor, vendor_boot, firmware, firmware_boot, phase, own>>
    BY <2>1 DEF mainVars
  <2> QED BY <2>1, <2>2 DEF TrampolineInv, FoldersInv
<1>2. MountInv'
  BY DEF TrampolineInv, MountInv, mainVars, adbVars, shellVars
<1>3. MappingInv'
  <2>0. UNCHANGED kept BY DEF adbVars, shellVars
  <2> USE <2>0, MappedKept, ExcusedKept DEF TrampolineInv, MappingInv, mainVars
  <2>1. CASE EncmntStarts BY <2>1 DEF EncmntStarts
  <2>2. CASE CheckDefault BY <2>2, MapMade DEF CheckDefault, cryptfs_check_passwd
  <2>3. CASE TryPassword BY <2>3 DEF TryPassword
  <2>4. CASE try_password BY <2>4, MapMade DEF try_password, cryptfs_check_passwd
  <2>5. CASE \E answer \in {"internal", "recovery"} : Click(answer) BY <2>5 DEF Click
  <2>6. CASE Answered
    <3>1. Mapped' = Mapped /\ encmnt' = encmnt /\ output' = output /\ g_decrypted' = g_decrypted
      BY <2>6 DEF Answered
    <3>2. encmnt \in {"screen", "leaves"} BY <2>6 DEF Answered
    <3>3. exit_code' = typing /\ typing' = "idle" /\ (exit_code = "ok" => Excused') /\ (Excused => Excused')
      BY <2>6 DEF Answered, Excused
    <3> QED BY <3>1, <3>2, <3>3
  <2>7. CASE PowerKey BY <2>7 DEF PowerKey
  <2>8. CASE pw_ui_shutdown_counter_touch_handler BY <2>8 DEF pw_ui_shutdown_counter_touch_handler
  <2>9. CASE LoopLeft BY <2>9 DEF LoopLeft
  <2>10. CASE pw_ui_Ends BY <2>10 DEF pw_ui_Ends
  <2>11. CASE FindNode
    <3>1. Mapped' = Mapped /\ encmnt' = "exits" /\ UNCHANGED <<typing, g_decrypted>> BY <2>11 DEF FindNode
    <3>2. output' = "device" \/ Excused' BY <2>11 DEF FindNode, Excused
    <3> QED BY <2>11, <3>1, <3>2 DEF FindNode
  <2>12. CASE EncmntDies
    <3>1. Mapped' = Mapped /\ encmnt' = "exits" /\ typing' = "idle" /\ UNCHANGED g_decrypted BY <2>12 DEF EncmntDies
    <3>2. Mapped => Excused' BY <2>12 DEF EncmntDies, Excused
    <3> QED BY <3>1, <3>2
  <2> QED BY <2>1, <2>2, <2>3, <2>4, <2>5, <2>6, <2>7, <2>8, <2>9, <2>10, <2>11, <2>12 DEF Encmnt
<1> QED BY <1>1, <1>2, <1>3

-----------------------------------------------------------------------------
LEMMA AdbMain ==
    ASSUME TrampolineInv, Main
    PROVE  AdbInv'
<1> USE DEF TrampolineInv, AdbInv, Early, BeforeAdb, Leaving, AfterAdb, Phases, Joinable, Goto, Fails, Rest, OthersAlone, Quitting, adbVars, shellVars, encVars, deviceVars
<1>1. CASE DevicesReady BY <1>1 DEF DevicesReady
<1>2. CASE WaitsForFb0 BY <1>2 DEF WaitsForFb0
<1>3. CASE WaitsForData BY <1>3 DEF WaitsForData
<1>4. CASE try_mount_all_entries BY <1>4 DEF try_mount_all_entries, EncBegins
<1>5. CASE encryption_before_mount BY <1>5 DEF encryption_before_mount, EncEnds, DirsAlone
<1>6. CASE MountsDecrypted BY <1>6 DEF MountsDecrypted
<1>7. CASE find_multirom BY <1>7 DEF find_multirom, adb_init
<1>8. CASE run_multirom BY <1>8 DEF run_multirom
<1>9. CASE adb_quit
  <2>1. CASE Quitting("quit", IF run_thread THEN "kill" ELSE "joined", adb_quit_Stops) BY <2>1 DEF adb_quit_Stops
  <2>2. CASE adb_pid # "unset" /\ Quitting("kill", "forget", adb_quit_Kills) BY <2>2 DEF adb_quit_Kills
  <2>3. CASE adb_pid = "unset" /\ Quitting("kill", "join", adb_quit_Kills) BY <2>3 DEF adb_quit_Kills
  <2>4. CASE Quitting("forget", "join", adb_quit_Forgets) BY <2>4 DEF adb_quit_Forgets
  <2>5. CASE Joinable /\ Quitting("join", "joined", UNCHANGED adbVars) BY <2>5
  <2> QED BY <1>9, <2>1, <2>2, <2>3, <2>4, <2>5 DEF adb_quit
<1>10. CASE adb_quit_Returns BY <1>10 DEF adb_quit_Returns
<1>11. CASE run_core BY <1>11 DEF run_core, encryption_destroy, DirsAlone, Goes
<1>12. CASE Cleanup BY <1>12 DEF Cleanup, encryption_cleanup
<1>13. CASE Close BY <1>13 DEF Close, devices_close
<1>14. CASE Exec BY <1>14 DEF Exec
<1> QED BY <1>1, <1>2, <1>3, <1>4, <1>5, <1>6, <1>7, <1>8, <1>9, <1>10, <1>11, <1>12, <1>13, <1>14 DEF Main

LEMMA FoldersMain ==
    ASSUME TrampolineInv, Main
    PROVE  FoldersInv'
<1> USE DEF TrampolineInv, FoldersInv, Early, BeforeAdb, Leaving, AfterAdb, Phases, Goto, Fails, Rest, OthersAlone, Quitting, adbVars, shellVars, encVars, deviceVars
<1>1. CASE DevicesReady BY <1>1 DEF DevicesReady
<1>2. CASE WaitsForFb0 BY <1>2 DEF WaitsForFb0
<1>3. CASE WaitsForData BY <1>3 DEF WaitsForData
<1>4. CASE try_mount_all_entries
  <2>1. CASE realdata' = "plain" /\ Goto("find") /\ UNCHANGED <<res, keep_realdata>> /\ OthersAlone
    BY <2>1, <1>4 DEF try_mount_all_entries, FoldersInv
  <2>2. CASE Goto("decrypt") /\ Rest /\ EncBegins /\ UNCHANGED <<deviceVars, adbVars>>
    BY <2>2, <1>4 DEF EncBegins, try_mount_all_entries, FoldersInv
  <2> QED BY <1>4, <2>1, <2>2 DEF try_mount_all_entries
<1>5. CASE encryption_before_mount BY <1>5 DEF encryption_before_mount, EncEnds, DirsAlone
<1>6. CASE MountsDecrypted BY <1>6 DEF MountsDecrypted
<1>7. CASE find_multirom BY <1>7 DEF find_multirom, adb_init
<1>8. CASE run_multirom BY <1>8 DEF run_multirom
<1>9. CASE adb_quit
  <2>1. phase \in {"quit", "kill", "forget", "join"} /\ phase' \in {"kill", "forget", "join", "joined"}
        /\ UNCHANGED <<encVars, own>>
    BY <1>9 DEF adb_quit
  <2> QED BY <2>1
<1>10. CASE adb_quit_Returns BY <1>10 DEF adb_quit_Returns
<1>11. CASE run_core BY <1>11 DEF run_core, encryption_destroy, DirsAlone, Goes
<1>12. CASE Cleanup BY <1>12 DEF Cleanup, encryption_cleanup
<1>13. CASE Close BY <1>13 DEF Close, devices_close
<1>14. CASE Exec BY <1>14 DEF Exec
<1> QED BY <1>1, <1>2, <1>3, <1>4, <1>5, <1>6, <1>7, <1>8, <1>9, <1>10, <1>11, <1>12, <1>13, <1>14 DEF Main

LEMMA MappingMain ==
    ASSUME TrampolineInv, Main
    PROVE  MappingInv'
<1> USE ExcusedKept DEF TrampolineInv, MappingInv, Early, BeforeAdb, Leaving, AfterAdb, Phases, Goto, Fails, Rest, OthersAlone, Quitting, adbVars, shellVars, encVars, deviceVars
<1>1. CASE DevicesReady BY <1>1, MappedKept DEF DevicesReady
<1>2. CASE WaitsForFb0
  <2>1. phase = "fb0" /\ phase' \in {"data", "close"} /\ Mapped' = Mapped /\ UNCHANGED <<encVars, realdata, keep_realdata, kept>>
    BY <1>2, MappedKept DEF WaitsForFb0
  <2> QED BY <2>1 DEF FoldersInv
<1>3. CASE WaitsForData BY <1>3, MappedKept DEF WaitsForData
<1>4. CASE try_mount_all_entries
  <2>1. CASE realdata' = "plain" /\ Goto("find") /\ UNCHANGED <<res, keep_realdata>> /\ OthersAlone
    BY <2>1, <1>4, MappedKept DEF try_mount_all_entries, FoldersInv
  <2>2. CASE Goto("decrypt") /\ Rest /\ EncBegins /\ UNCHANGED <<deviceVars, adbVars>>
    BY <2>2, <1>4, MappedKept DEF EncBegins, try_mount_all_entries, FoldersInv
  <2> QED BY <1>4, <2>1, <2>2 DEF try_mount_all_entries
<1>5. CASE encryption_before_mount
  <2>1. phase = "decrypt" /\ phase' \in {"core", "off", "remount"} /\ Mapped' = Mapped
    BY <1>5, MappedKept DEF encryption_before_mount
  <2>2. encmnt = "exits" /\ encmnt' = "done" /\ (g_decrypted' <=> output = "device") /\ UNCHANGED <<typing, slips, kept>>
    BY <1>5 DEF encryption_before_mount, EncEnds
  <2> QED BY <2>1, <2>2
<1>6. CASE MountsDecrypted BY <1>6, MappedKept DEF MountsDecrypted
<1>7. CASE find_multirom BY <1>7, MappedKept DEF find_multirom, adb_init
<1>8. CASE run_multirom BY <1>8, MappedKept DEF run_multirom
<1>9. CASE adb_quit BY <1>9, MappedKept DEF adb_quit, adb_quit_Stops, adb_quit_Kills, adb_quit_Forgets
<1>10. CASE adb_quit_Returns BY <1>10, MappedKept DEF adb_quit_Returns
<1>11. CASE run_core
  <2>1. phase = "core" /\ encmnt \in {"none", "done"} /\ encmnt' = encmnt BY <1>11 DEF run_core, encryption_destroy, FoldersInv
  <2>2. UNCHANGED <<typing, exit_code, output>> BY <1>11 DEF run_core, encryption_destroy
  <2>3. CASE phase' = "off" \/ keep_realdata
    <3>1. phase' \in {"off", "cleanup"} /\ Mapped' = Mapped /\ UNCHANGED <<g_decrypted, realdata, keep_realdata, slips, kept>>
      BY <1>11, <2>3, MappedKept DEF run_core
    <3> QED BY <2>1, <2>2, <2>3, <3>1 DEF MountInv
  <2>4. CASE phase' # "off" /\ ~keep_realdata
    <3> DEFINE used == realdata # "none" /\ "realdata" \in users
    <3>1. phase' = "cleanup" /\ encryption_destroy(used \/ "sdcard" \in set_up)
          /\ kept' = IF used THEN kept \cup {"realdata"} ELSE kept
      BY <1>11, <2>4 DEF run_core
    <3>2. "sdcard" \in set_up => "sdcard" \in kept
      BY <2>1 DEF AdbInv, Joinable, BrokenOff, Base
    <3>3. Goes(Dm) => ~Mapped' BY DEF Goes, Mapped
    <3>4. Excused => Excused' BY <3>1 DEF encryption_destroy
    <3>5. Mapped' => (Mapped /\ ~g_decrypted) \/ Excused'
      <4>1. CASE ~(used \/ "sdcard" \in set_up) /\ Goes(Dm) BY <4>1, <3>3
      <4>2. CASE UNCHANGED deviceVars /\ (used \/ "sdcard" \in set_up)
        <5>1. {"realdata", "sdcard"} \cap kept' # {} BY <4>2, <3>1, <3>2
        <5> QED BY <5>1 DEF Excused
      <4>3. CASE UNCHANGED deviceVars /\ (~g_decrypted \/ ~Mapped) BY <4>3, MappedKept
      <4>4. CASE slips' = slips \cup {"not removed"} BY <4>4 DEF Excused
      <4> QED BY <3>1, <4>1, <4>2, <4>3, <4>4 DEF encryption_destroy
    <3>6. phase' = "cleanup" /\ encmnt' \in {"none", "done"} /\ typing' = typing /\ output' = output
      BY <2>1, <2>2, <3>1
    <3>7. Mapped' => Excused' BY <2>1, <3>4, <3>5
    <3>8. encmnt' = "none" => ~Mapped'
      <4>1. Mapped' => Mapped
        <5>1. Goes(Dm) \/ UNCHANGED deviceVars BY <3>1 DEF encryption_destroy
        <5> QED BY <5>1, <3>3, MappedKept
      <4> QED BY <4>1, <2>1
    <3> QED BY <2>1, <3>6, <3>7, <3>8
  <2> QED BY <2>3, <2>4
<1>12. CASE Cleanup
  <2>1. phase = "cleanup" /\ phase' = "close" /\ Mapped' = Mapped BY <1>12, MappedKept DEF Cleanup
  <2>2. UNCHANGED <<realdata, keep_realdata, kept, encmnt, typing, output, g_decrypted, exit_code>>
    BY <1>12 DEF Cleanup, encryption_cleanup
  <2>3. Excused => Excused'
    <3>1. slips \subseteq slips' BY <1>12 DEF Cleanup, encryption_cleanup
    <3> QED BY <2>2, <3>1
  <2> QED BY <2>1, <2>2, <2>3 DEF FoldersInv
<1>13. CASE Close
  <2>1. phase = "close" /\ phase' = "closing" /\ Mapped' = Mapped /\ UNCHANGED <<encVars, realdata, keep_realdata, kept>>
    BY <1>13 DEF Close, devices_close, Mapped
  <2> QED BY <2>1
<1>14. CASE Exec BY <1>14, MappedKept DEF Exec
<1> QED BY <1>1, <1>2, <1>3, <1>4, <1>5, <1>6, <1>7, <1>8, <1>9, <1>10, <1>11, <1>12, <1>13, <1>14 DEF Main

LEMMA MountMain ==
    ASSUME TrampolineInv, Main
    PROVE  MountInv'
<1> USE DEF TrampolineInv, MountInv, Early, BeforeAdb, Leaving, AfterAdb, Phases, Goto, Fails, Rest, OthersAlone, Quitting, adbVars, shellVars, encVars, deviceVars
<1>1. CASE DevicesReady BY <1>1 DEF DevicesReady
<1>2. CASE WaitsForFb0 BY <1>2 DEF WaitsForFb0
<1>3. CASE WaitsForData BY <1>3 DEF WaitsForData
<1>4. CASE try_mount_all_entries
  <2>1. CASE realdata' = "plain" /\ Goto("find") /\ UNCHANGED <<res, keep_realdata>> /\ OthersAlone
    BY <2>1, <1>4 DEF try_mount_all_entries, FoldersInv
  <2>2. CASE Goto("decrypt") /\ Rest /\ EncBegins /\ UNCHANGED <<deviceVars, adbVars>>
    BY <2>2, <1>4 DEF EncBegins, try_mount_all_entries, FoldersInv
  <2> QED BY <1>4, <2>1, <2>2 DEF try_mount_all_entries
<1>5. CASE encryption_before_mount BY <1>5 DEF encryption_before_mount, EncEnds, DirsAlone
<1>6. CASE MountsDecrypted BY <1>6 DEF MountsDecrypted
<1>7. CASE find_multirom BY <1>7 DEF find_multirom, adb_init
<1>8. CASE run_multirom BY <1>8 DEF run_multirom
<1>9. CASE adb_quit BY <1>9 DEF adb_quit, adb_quit_Stops, adb_quit_Kills, adb_quit_Forgets
<1>10. CASE adb_quit_Returns BY <1>10 DEF adb_quit_Returns
<1>11. CASE run_core BY <1>11 DEF run_core, encryption_destroy, DirsAlone, Goes
<1>12. CASE Cleanup BY <1>12 DEF Cleanup, encryption_cleanup
<1>13. CASE Close BY <1>13 DEF Close, devices_close
<1>14. CASE Exec BY <1>14 DEF Exec
<1> QED BY <1>1, <1>2, <1>3, <1>4, <1>5, <1>6, <1>7, <1>8, <1>9, <1>10, <1>11, <1>12, <1>13, <1>14 DEF Main

-----------------------------------------------------------------------------
LEMMA PhaseMain == TrampolineInv /\ Main => phase' \in Phases /\ (phase' = "exec" => uevent_thread' # "runs")
<1> SUFFICES ASSUME TrampolineInv, Main
             PROVE  phase' \in Phases /\ (phase' = "exec" => uevent_thread' # "runs")
  OBVIOUS
<1>1. CASE Exec BY <1>1 DEF Exec, Goto, OthersAlone, deviceVars, Phases, AfterAdb, Leaving
<1>2. CASE adb_quit
  <2>1. phase' \in {"kill", "joined", "forget", "join"} BY <1>2 DEF adb_quit, Quitting, Goto
  <2> QED BY <2>1 DEF Phases, AfterAdb
<1>3. CASE Main /\ ~Exec /\ ~adb_quit
  <2>1. phase' \in {"fb0", "data", "close", "mount", "core", "find", "decrypt", "off", "remount", "multirom", "quit",
                    "cleanup", "closing"}
    BY <1>3 DEF Main, DevicesReady, WaitsForFb0, WaitsForData, try_mount_all_entries, encryption_before_mount,
                MountsDecrypted, find_multirom, run_multirom, adb_quit_Returns, run_core, Cleanup, Close, Goto, Fails
  <2> QED BY <2>1 DEF Phases, BeforeAdb, Early, AfterAdb, Leaving
<1> QED BY <1>1, <1>2, <1>3

\* The uevent thread does not touch what the invariant speaks of.
LEMMA DevicesInv ==
    ASSUME TrampolineInv, Running, Mapped' = Mapped, UNCHANGED <<adbVars, encVars, mainVars>>
    PROVE  TrampolineInv'
<1> USE DEF TrampolineInv, adbVars, shellVars, encVars, mainVars
<1>1. AdbInv' BY DEF AdbInv, Joinable
<1>2. FoldersInv' BY DEF FoldersInv
<1>3. MappingInv' BY ExcusedKept DEF MappingInv
<1>4. MountInv' BY DEF MountInv
<1> QED BY <1>1, <1>2, <1>3, <1>4 DEF Running

LEMMA StepInv == TrampolineInv /\ [TrampolineNext]_<<deviceVars, adbVars, encVars, mainVars>> => TrampolineInv'
<1> SUFFICES ASSUME TrampolineInv, [TrampolineNext]_<<deviceVars, adbVars, encVars, mainVars>>
             PROVE  TrampolineInv'
  OBVIOUS
<1>1. CASE Main
  BY <1>1, PhaseMain, AdbMain, FoldersMain, MappingMain, MountMain DEF TrampolineInv
<1>2. CASE Running /\ DevicesNext /\ Mapped' = Mapped /\ UNCHANGED <<adbVars, encVars, mainVars>>
  BY <1>2, DevicesInv
<1>3. CASE Running /\ AdbThread /\ UNCHANGED <<deviceVars, encVars, mainVars>>
  <2>1. AdbInv' BY <1>3, AdbThreadInv DEF TrampolineInv, mainVars
  <2>2. Mapped' = Mapped /\ UNCHANGED <<encVars, mainVars>> BY <1>3, MappedKept
  <2>3. FoldersInv' BY <2>2 DEF TrampolineInv, FoldersInv, encVars, mainVars
  <2>4. MappingInv' BY <1>3, <2>2, KeptGrows, ExcusedKept DEF TrampolineInv, MappingInv, encVars, mainVars
  <2>5. MountInv' BY <1>3, <2>2, KeptGrows DEF TrampolineInv, MountInv, encVars, mainVars
  <2> QED BY <1>3, <2>1, <2>3, <2>4, <2>5 DEF TrampolineInv, Running, mainVars
<1>4. CASE /\ phase = "decrypt" /\ encmnt # "off"
           /\ Encmnt \/ Click(IF second_boot THEN "recovery" ELSE "internal")
           /\ UNCHANGED <<adbVars, mainVars>>
  <2>1. Encmnt \/ \E answer \in {"internal", "recovery"} : Click(answer) BY <1>4
  <2>2. FoldersInv' /\ MappingInv' /\ MountInv' BY <1>4, <2>1, EncmntInv
  <2>3. AdbInv' BY <1>4 DEF TrampolineInv, AdbInv, Joinable, adbVars, shellVars, mainVars
  <2> QED BY <1>4, <2>2, <2>3 DEF TrampolineInv, mainVars
<1>5. CASE UNCHANGED <<deviceVars, adbVars, encVars, mainVars>>
  <2>1. Mapped' = Mapped /\ UNCHANGED <<adbVars, encVars, mainVars>> BY <1>5, MappedKept
  <2>2. CASE Running BY <2>1, <2>2, DevicesInv
  <2>3. CASE ~Running
    <3>1. AdbInv' BY <2>1 DEF TrampolineInv, AdbInv, Joinable, adbVars, shellVars, mainVars
    <3>2. FoldersInv' BY <2>1 DEF TrampolineInv, FoldersInv, encVars, mainVars
    <3>3. MappingInv' BY <2>1, ExcusedKept DEF TrampolineInv, MappingInv, encVars, mainVars, adbVars, shellVars
    <3>4. MountInv' BY <2>1 DEF TrampolineInv, MountInv, encVars, mainVars, adbVars, shellVars
    <3> QED BY <1>5, <3>1, <3>2, <3>3, <3>4 DEF TrampolineInv, mainVars, deviceVars
  <2> QED BY <2>2, <2>3
<1> QED BY <1>1, <1>2, <1>3, <1>4, <1>5 DEF TrampolineNext

\* What the trampoline's threads, main and trampoline_encmnt know of each other holds all
\* along.
THEOREM TrampolineSafe == TrampolineSpec => []TrampolineInv
<1> QED BY InitInv, StepInv, PTL DEF TrampolineSpec

\* adb_quit's join (trampoline/adb.c) is only endless when the kill came around the fork.
THEOREM NobodyLeftAlways == TrampolineSpec => []NobodyLeftToKill
<1>1. TrampolineInv => NobodyLeftToKill
  BY DEF TrampolineInv, AdbInv, NobodyLeftToKill
<1> QED BY <1>1, TrampolineSafe, PTL

\* What main leaves to the ROM's init, whatever the devices and the processes of a shell did
\* and whichever way the decryption went: only what HandsOverClean names, each with its cause
\* on record.
THEOREM HandsOverAlways == TrampolineSpec => []HandsOverClean
<1>1. TrampolineInv => HandsOverClean
  <2> SUFFICES ASSUME TrampolineInv, phase = "exec" PROVE HandsOverClean BY DEF HandsOverClean
  <2> USE DEF AfterAdb, Leaving
  <2>1. uevent_thread # "runs" /\ Joinable /\ child # "runs" BY DEF TrampolineInv, AdbInv, Joinable
  <2>2. realdata # "none" => keep_realdata \/ "realdata" \in kept BY DEF TrampolineInv, MountInv
  <2>3. Mapped => (keep_realdata /\ realdata = "dm") \/ Excused BY DEF TrampolineInv, MappingInv
  <2>4. set_up \in BrokenOff \/ set_up \subseteq kept \cup {"folder"}
    BY <2>1 DEF TrampolineInv, AdbInv, Joinable, BrokenOff
  <2>5. /\ vendor # own.vendor => own.vendor = "none" /\ encmnt = "done"
        /\ firmware # own.firmware => (own.firmware = "empty" /\ encmnt = "none") \/ "firmware busy" \in slips
    BY DEF TrampolineInv, FoldersInv
  <2> QED BY <2>1, <2>2, <2>3, <2>4, <2>5 DEF HandsOverClean, Excused
<1> QED BY <1>1, TrampolineSafe, PTL
-----------------------------------------------------------------------------
\* DevFollows.  Only the kernel, and whoever handles an event, change what it speaks of.
followVars == <<plugged, device_fd, socket, platform_names, nodes, links, announced, mishaps>>

Devs == {p \in Paths : Subsystem[p] # "platform"}
Events == [action : {"add", "remove"}, path : Paths]
Tells(s, i, p) == i \in 1..Len(s) /\ s[i].path = p
Adds(s, i, p) == Tells(s, i, p) /\ s[i].action = "add"
Removes(s, i, p) == Tells(s, i, p) /\ s[i].action = "remove"
HasNode(names, p) == \E n \in DOMAIN names : names[n] = p

NamesInv ==
    /\ plugged \subseteq Paths /\ socket \in Seq(Events)
    /\ \A p, q \in plugged : NodeName[p] = NodeName[q] => p = q
    /\ ~device_fd => announced = {}
    /\ \A n \in DOMAIN nodes : nodes[n] \in Devs /\ NodeName[nodes[n]] = n

\* How the events that wait lead from the nodes there are to what the kernel has told: the
\* last one of a device says what has become of it, and another device of its name is told of
\* only after it has gone.
EventsInv ==
    /\ announced \subseteq plugged
    /\ \A p \in Devs \cap announced :
          /\ \A i : Removes(socket, i, p) => \E m : m > i /\ Adds(socket, m, p)
          /\ HasNode(nodes, p) \/ \E m : Adds(socket, m, p)
    /\ \A p \in Devs \ announced :
          /\ \A i : Adds(socket, i, p) => \E m : m > i /\ Removes(socket, m, p)
          /\ HasNode(nodes, p) => \E m : Removes(socket, m, p)
    /\ \A p, q \in Devs : p # q /\ NodeName[p] = NodeName[q] =>
          \A j : Tells(socket, j, q) =>
             /\ \A i : Adds(socket, i, p) /\ i < j => \E m : i < m /\ m < j /\ Removes(socket, m, p)
             /\ HasNode(nodes, p) => \E m : m < j /\ Removes(socket, m, p)

\* The links are those of the nodes, and lead to them.
LinksInv ==
    /\ \A l \in DOMAIN links : links[l] \in DOMAIN nodes /\ l \in LinksOf(platform_names, nodes[links[l]])
    /\ \A n \in DOMAIN nodes : \A l \in LinksOf(platform_names, nodes[n]) : l \in DOMAIN links /\ links[l] = n

FollowInv ==
    /\ NamesInv
    /\ "lost" \notin mishaps => EventsInv
    /\ mishaps = {} => LinksInv

LEMMA FollowKept == FollowInv /\ UNCHANGED followVars => FollowInv'
BY DEF FollowInv, NamesInv, EventsInv, LinksInv, Tells, Adds, Removes, HasNode, followVars

LEMMA InitFollow == DevicesInit => FollowInv
<1> SUFFICES ASSUME DevicesInit PROVE FollowInv OBVIOUS
<1>1. DOMAIN nodes = {} /\ DOMAIN links = {} /\ Len(socket) = 0
  BY DEF DevicesInit
<1>2. \A i, p : ~Tells(socket, i, p)
  BY <1>1 DEF Tells
<1>3. \A p : ~HasNode(nodes, p)
  BY <1>1 DEF HasNode
<1>4. NamesInv
  BY <1>1 DEF DevicesInit, NamesInv
<1>5. EventsInv
  BY <1>2, <1>3 DEF EventsInv, Adds, Removes, DevicesInit
<1>6. LinksInv
  BY <1>1 DEF LinksInv
<1> QED BY <1>4, <1>5, <1>6 DEF FollowInv

\* An event is appended, of the one device of its name that is plugged or comes.
LEMMA EventAppended ==
    ASSUME NamesInv, EventsInv, NEW p \in Paths, NEW action \in {"add", "remove"},
           socket' = Append(socket, [action |-> action, path |-> p]),
           announced' = IF action = "add" THEN announced \cup {p} ELSE announced \ {p},
           announced' \subseteq plugged', UNCHANGED nodes,
           \A q \in plugged : NodeName[q] = NodeName[p] => q = p
    PROVE  EventsInv'
<1>0. PICK new \in Nat : new = Len(socket) + 1
  BY DEF NamesInv
<1>1. /\ Len(socket) \in Nat /\ Len(socket') = new
      /\ \A i : i \in 1..new <=> i \in 1..Len(socket) \/ i = new
      /\ \A i \in 1..Len(socket) : socket'[i] = socket[i]
      /\ socket'[new] = [action |-> action, path |-> p]
  BY <1>0 DEF NamesInv, Events
<1>2. \A i, q : Tells(socket', i, q) <=> Tells(socket, i, q) \/ (i = new /\ q = p)
  <2>1. \A q : Tells(socket', new, q) <=> q = p BY <1>1 DEF Tells
  <2>2. ASSUME NEW i, i # new, NEW q PROVE Tells(socket', i, q) <=> Tells(socket, i, q)
    <3>1. i \in 1..Len(socket') <=> i \in 1..Len(socket) BY <1>1, <2>2
    <3>2. i \in 1..Len(socket) => socket'[i] = socket[i] BY <1>1
    <3> QED BY <3>1, <3>2 DEF Tells
  <2>3. \A q : ~Tells(socket, new, q) BY <1>0, <1>1 DEF Tells
  <2> QED BY <2>1, <2>2, <2>3
<1>20. \A i, q : Tells(socket, i, q) => socket'[i] = socket[i] /\ i # new
  BY <1>0, <1>1 DEF Tells
<1>3. \A i, q : Adds(socket', i, q) <=> Adds(socket, i, q) \/ (i = new /\ q = p /\ action = "add")
  <2>1. socket'[new].action = action BY <1>1
  <2> QED BY <2>1, <1>2, <1>20 DEF Adds
<1>4. \A i, q : Removes(socket', i, q) <=> Removes(socket, i, q) \/ (i = new /\ q = p /\ action = "remove")
  <2>1. socket'[new].action = action BY <1>1
  <2> QED BY <2>1, <1>2, <1>20 DEF Removes
<1>5. \A i, q : Tells(socket, i, q) => i \in Nat /\ i < new
  BY <1>0, <1>1 DEF Tells
<1>6. \A q : HasNode(nodes', q) <=> HasNode(nodes, q)
  BY DEF HasNode
<1>7. ASSUME NEW q \in Devs \cap announced'
      PROVE  /\ \A i : Removes(socket', i, q) => \E m : m > i /\ Adds(socket', m, q)
             /\ HasNode(nodes', q) \/ \E m : Adds(socket', m, q)
  <2>1. CASE q = p
    <3>1. Adds(socket', new, q) BY <1>3, <1>7, <2>1
    <3>2. \A i : Removes(socket', i, q) => new > i BY <1>4, <1>5, <1>7, <2>1 DEF Removes
    <3> QED BY <3>1, <3>2
  <2>2. CASE q # p
    <3>1. q \in Devs \cap announced BY <1>7, <2>2
    <3> QED BY <3>1, <2>2, <1>3, <1>4, <1>6 DEF EventsInv
  <2> QED BY <2>1, <2>2
<1>8. ASSUME NEW q \in Devs \ announced'
      PROVE  /\ \A i : Adds(socket', i, q) => \E m : m > i /\ Removes(socket', m, q)
             /\ HasNode(nodes', q) => \E m : Removes(socket', m, q)
  <2>1. CASE q = p
    <3>1. Removes(socket', new, q) BY <1>4, <1>8, <2>1
    <3>2. \A i : Adds(socket', i, q) => new > i BY <1>3, <1>5, <1>8, <2>1 DEF Adds
    <3> QED BY <3>1, <3>2
  <2>2. CASE q # p
    <3>1. q \in Devs \ announced BY <1>8, <2>2
    <3> QED BY <3>1, <2>2, <1>3, <1>4, <1>6 DEF EventsInv
  <2> QED BY <2>1, <2>2
<1>9. ASSUME NEW r \in Devs, NEW q \in Devs, r # q, NodeName[r] = NodeName[q], NEW j, Tells(socket', j, q)
      PROVE  /\ \A i : Adds(socket', i, r) /\ i < j => \E m : i < m /\ m < j /\ Removes(socket', m, r)
             /\ HasNode(nodes', r) => \E m : m < j /\ Removes(socket', m, r)
  <2>1. CASE Tells(socket, j, q)
    <3>1. j < new BY <1>5, <2>1
    <3>2. \A i : Adds(socket', i, r) /\ i < j => Adds(socket, i, r) BY <1>1, <1>3, <1>5, <2>1, <3>1
    <3> QED BY <2>1, <3>2, <1>4, <1>6, <1>9 DEF EventsInv
  <2>2. CASE j = new /\ q = p
    <3>1. r \in Devs \ announced BY <2>2, <1>9 DEF EventsInv
    <3>2. \A i : Adds(socket', i, r) => Adds(socket, i, r) BY <2>2, <1>3, <1>9
    <3>3. \A m : Removes(socket, m, r) => m < j /\ Removes(socket', m, r) BY <2>2, <1>4, <1>5 DEF Removes
    <3> QED BY <3>1, <3>2, <3>3, <1>6 DEF EventsInv
  <2> QED BY <2>1, <2>2, <1>2, <1>9
<1> QED BY <1>7, <1>8, <1>9 DEF EventsInv

\* The kernel tells, or the socket is full or closed.
LEMMA TellFollows ==
    ASSUME FollowInv, NEW p \in Paths, NEW action \in {"add", "remove"}, Tell(action, p),
           UNCHANGED <<device_fd, platform_names, nodes, links>>,
           plugged' \subseteq Paths,
           \A q, r \in plugged' : NodeName[q] = NodeName[r] => q = r,
           \A q \in plugged : NodeName[q] = NodeName[p] => q = p,
           IF action = "add" THEN plugged' = plugged \cup {p} ELSE plugged' = plugged \ {p}
    PROVE  FollowInv'
<1>1. socket' \in Seq(Events)
  <2>1. [action |-> action, path |-> p] \in Events BY DEF Events
  <2> QED BY <2>1 DEF Tell, FollowInv, NamesInv
<1>2. ~device_fd' => announced' = {}
  BY DEF Tell, FollowInv, NamesInv
<1>3. NamesInv'
  BY <1>1, <1>2 DEF FollowInv, NamesInv
<1>4. mishaps' = {} => LinksInv'
  BY DEF Tell, FollowInv, LinksInv
<1>5. ASSUME "lost" \notin mishaps' PROVE EventsInv'
  <2>1. CASE ~device_fd
    <3>1. announced = {} /\ announced' = {} /\ socket' = socket /\ mishaps' = mishaps
      BY <2>1 DEF Tell, FollowInv, NamesInv
    <3> QED BY <3>1, <1>5 DEF FollowInv, EventsInv, Tells, Adds, Removes, HasNode
  <2>2. CASE device_fd /\ Len(socket) # SocketRoom
    <3>1. /\ socket' = Append(socket, [action |-> action, path |-> p])
          /\ announced' = IF action = "add" THEN announced \cup {p} ELSE announced \ {p}
          /\ mishaps' = mishaps
      BY <2>2 DEF Tell
    <3>2. NamesInv /\ EventsInv BY <1>5, <3>1 DEF FollowInv
    <3>3. announced' \subseteq plugged' BY <3>1, <3>2 DEF EventsInv
    <3> QED BY <3>1, <3>2, <3>3, EventAppended
  <2> QED BY <1>5, <2>1, <2>2 DEF Tell
<1> QED BY <1>3, <1>4, <1>5 DEF FollowInv

LEMMA SwapFollows ==
    ASSUME FollowInv, NEW p \in Paths, Comes(p) \/ Goes(p)
    PROVE  FollowInv'
<1>1. CASE Comes(p)
  <2>1. /\ Tell("add", p) /\ UNCHANGED <<device_fd, platform_names, nodes, links>>
        /\ plugged' = plugged \cup {p} /\ \A q \in plugged : NodeName[q] # NodeName[p]
    BY <1>1 DEF Comes, ReadersAlone
  <2>2. plugged' \subseteq Paths /\ \A q, r \in plugged' : NodeName[q] = NodeName[r] => q = r
    BY <2>1 DEF FollowInv, NamesInv
  <2> QED BY <2>1, <2>2, TellFollows
<1>2. CASE Goes(p)
  <2>1. /\ Tell("remove", p) /\ UNCHANGED <<device_fd, platform_names, nodes, links>>
        /\ plugged' = plugged \ {p} /\ p \in plugged
    BY <1>2 DEF Goes, ReadersAlone
  <2>2. /\ plugged' \subseteq Paths /\ \A q, r \in plugged' : NodeName[q] = NodeName[r] => q = r
        /\ \A q \in plugged : NodeName[q] = NodeName[p] => q = p
    BY <2>1 DEF FollowInv, NamesInv
  <2> QED BY <2>1, <2>2, TellFollows
<1> QED BY <1>1, <1>2

LEMMA VisitFollows == ASSUME FollowInv, init_single_path PROVE FollowInv'
<1> DEFINE p == Head(walk).path
<1>1. CASE p \in plugged
  <2>1. Tell("add", p) /\ UNCHANGED <<plugged, device_fd, platform_names, nodes, links>>
    BY <1>1 DEF init_single_path
  <2>2. /\ p \in Paths /\ plugged' = plugged \cup {p} /\ plugged' \subseteq Paths
        /\ \A q, r \in plugged' : NodeName[q] = NodeName[r] => q = r
        /\ \A q \in plugged : NodeName[q] = NodeName[p] => q = p
    BY <1>1, <2>1 DEF FollowInv, NamesInv
  <2> HIDE DEF p
  <2> QED BY <2>1, <2>2, TellFollows
<1>2. CASE p \notin plugged
  <2>1. UNCHANGED followVars BY <1>2 DEF init_single_path, followVars
  <2> QED BY <2>1, FollowKept
<1> QED BY <1>1, <1>2

\* What the head of the socket says is done, and the rest moves up.
LEMMA EventHandled ==
    ASSUME NamesInv, EventsInv, handle_device_event, UNCHANGED <<plugged, announced>>
    PROVE  /\ EventsInv'
           /\ Subsystem[Head(socket).path] # "platform" =>
                \A q \in Devs : HasNode(nodes, q) /\ NodeName[q] = NodeName[Head(socket).path] => q = Head(socket).path
<1> DEFINE e == Head(socket)
           p == e.path
<1>1. /\ Len(socket) \in Nat /\ Len(socket) > 0 /\ Len(socket') = Len(socket) - 1
      /\ \A i \in 1..Len(socket') : socket'[i] = socket[i + 1]
      /\ e = socket[1] /\ e \in Events
  BY DEF handle_device_event, NamesInv
<1>2. p \in Paths /\ e.action \in {"add", "remove"} /\ Tells(socket, 1, p)
  BY <1>1 DEF Events, Tells
<1>3. \A i, q : i \in Int => (Tells(socket', i, q) <=> Tells(socket, i + 1, q) /\ i # 0)
  BY <1>1 DEF Tells
<1>4. \A i, q : i \in Int => (Adds(socket', i, q) <=> Adds(socket, i + 1, q) /\ i # 0)
  BY <1>1, <1>3 DEF Adds, Tells
<1>5. \A i, q : i \in Int => (Removes(socket', i, q) <=> Removes(socket, i + 1, q) /\ i # 0)
  BY <1>1, <1>3 DEF Removes, Tells
<1>6. /\ \A i, q : Tells(socket, i, q) => i \in Int /\ i >= 1 /\ (i = 1 => q = p)
      /\ \A i, q : Tells(socket', i, q) => i \in Int /\ i >= 1
  BY <1>1 DEF Tells
<1>7. \A i, q : (Adds(socket, i, q) => Tells(socket, i, q)) /\ (Removes(socket, i, q) => Tells(socket, i, q))
  BY DEF Adds, Removes
<1>8. \A i, q : (Adds(socket', i, q) => Tells(socket', i, q)) /\ (Removes(socket', i, q) => Tells(socket', i, q))
  BY DEF Adds, Removes
<1>9. \A i, q : i > 1 /\ Adds(socket, i, q) => i - 1 \in Int /\ Adds(socket', i - 1, q)
  BY <1>4, <1>6, <1>7
<1>10. \A i, q : i > 1 /\ Removes(socket, i, q) => i - 1 \in Int /\ Removes(socket', i - 1, q)
  BY <1>5, <1>6, <1>7
<1>11. Adds(socket, 1, p) <=> e.action = "add"
  BY <1>1, <1>2 DEF Adds
<1>12. Removes(socket, 1, p) <=> e.action = "remove"
  BY <1>1, <1>2 DEF Removes
<1>13. Subsystem[p] # "platform" => p \in Devs /\ \A q \in Devs : HasNode(nodes, q) /\ NodeName[q] = NodeName[p] => q = p
  <2>1. ASSUME p \in Devs, NEW q \in Devs, HasNode(nodes, q), NodeName[q] = NodeName[p], q # p PROVE FALSE
    <3>1. \E m : m < 1 /\ Removes(socket, m, q) BY <2>1, <1>2 DEF EventsInv
    <3> QED BY <3>1, <1>6, <1>7
  <2> QED BY <2>1, <1>2 DEF Devs
\* The nodes after it.
<1>14. \A q \in Devs : HasNode(nodes', q) <=>
          IF q # p THEN HasNode(nodes, q) ELSE e.action = "add"
  <2>1. CASE Subsystem[p] = "platform"
    <3>1. nodes' = nodes BY <2>1 DEF handle_device_event, handle_platform_device_event
    <3> QED BY <2>1, <3>1 DEF HasNode, Devs
  <2>2. CASE Subsystem[p] # "platform" /\ e.action = "add"
    <3>1. nodes' = [n \in DOMAIN nodes \cup {NodeName[p]} |-> IF n \in DOMAIN nodes THEN nodes[n] ELSE p]
      BY <2>2 DEF handle_device_event, handle_device, handle_device_add
    <3>2. NodeName[p] \in DOMAIN nodes => nodes[NodeName[p]] = p
      BY <2>2, <1>13 DEF NamesInv, HasNode
    <3>3. \A q : q = p => HasNode(nodes', q) BY <3>1, <3>2 DEF HasNode
    <3>4. ASSUME NEW q \in Devs, q # p PROVE HasNode(nodes', q) <=> HasNode(nodes, q)
      BY <3>1, <3>4 DEF HasNode
    <3> QED BY <2>2, <3>3, <3>4
  <2>3. CASE Subsystem[p] # "platform" /\ e.action = "remove"
    <3>1. nodes' = [n \in DOMAIN nodes \ {NodeName[p]} |-> nodes[n]]
      BY <2>3 DEF handle_device_event, handle_device, handle_device_remove
    <3>2. \A q : q = p => ~HasNode(nodes', q) BY <3>1 DEF HasNode, NamesInv
    <3>3. ASSUME NEW q \in Devs, q # p PROVE HasNode(nodes', q) <=> HasNode(nodes, q)
      <4>1. NodeName[p] \in DOMAIN nodes => nodes[NodeName[p]] = p
        BY <2>3, <1>13 DEF NamesInv, HasNode
      <4> QED BY <3>1, <3>3, <4>1 DEF HasNode
    <3> QED BY <2>3, <3>2, <3>3
  <2> QED BY <2>1, <2>2, <2>3, <1>2
<1> HIDE DEF e, p
<1>15. ASSUME NEW q \in Devs \cap announced'
       PROVE  /\ \A i : Removes(socket', i, q) => \E m : m > i /\ Adds(socket', m, q)
              /\ HasNode(nodes', q) \/ \E m : Adds(socket', m, q)
  <2>0. q \in Devs \cap announced BY <1>15
  <2>1. ASSUME NEW i, Removes(socket', i, q) PROVE \E m : m > i /\ Adds(socket', m, q)
    <3>1. i \in Int /\ i >= 1 /\ Removes(socket, i + 1, q) BY <2>1, <1>5, <1>6, <1>8
    <3>2. PICK m : m > i + 1 /\ Adds(socket, m, q) BY <2>0, <3>1 DEF EventsInv
    <3>3. m \in Int /\ m > 1 BY <3>1, <3>2, <1>6, <1>7
    <3>4. m - 1 > i /\ Adds(socket', m - 1, q) BY <3>1, <3>2, <3>3, <1>9
    <3> QED BY <3>4
  <2>2. ASSUME ~HasNode(nodes', q) PROVE \E m : Adds(socket', m, q)
    <3>1. CASE q = p
      <4>1. Removes(socket, 1, q) BY <3>1, <2>2, <1>2, <1>12, <1>14
      <4>2. PICK m : m > 1 /\ Adds(socket, m, q) BY <2>0, <4>1 DEF EventsInv
      <4> QED BY <4>2, <1>9
    <3>2. CASE q # p
      <4>1. ~HasNode(nodes, q) BY <3>2, <2>2, <1>14
      <4>2. PICK m : Adds(socket, m, q) BY <2>0, <4>1 DEF EventsInv
      <4>3. m \in Int /\ m > 1 BY <4>2, <3>2, <1>6, <1>7
      <4> QED BY <4>2, <4>3, <1>9
    <3> QED BY <3>1, <3>2
  <2> QED BY <2>1, <2>2
<1>16. ASSUME NEW q \in Devs \ announced'
       PROVE  /\ \A i : Adds(socket', i, q) => \E m : m > i /\ Removes(socket', m, q)
              /\ HasNode(nodes', q) => \E m : Removes(socket', m, q)
  <2>0. q \in Devs \ announced BY <1>16
  <2>1. ASSUME NEW i, Adds(socket', i, q) PROVE \E m : m > i /\ Removes(socket', m, q)
    <3>1. i \in Int /\ i >= 1 /\ Adds(socket, i + 1, q) BY <2>1, <1>4, <1>6, <1>8
    <3>2. PICK m : m > i + 1 /\ Removes(socket, m, q) BY <2>0, <3>1 DEF EventsInv
    <3>3. m \in Int /\ m > 1 BY <3>1, <3>2, <1>6, <1>7
    <3>4. m - 1 > i /\ Removes(socket', m - 1, q) BY <3>1, <3>2, <3>3, <1>10
    <3> QED BY <3>4
  <2>2. ASSUME HasNode(nodes', q) PROVE \E m : Removes(socket', m, q)
    <3>1. CASE q = p
      <4>1. Adds(socket, 1, q) BY <3>1, <2>2, <1>2, <1>11, <1>14
      <4>2. PICK m : m > 1 /\ Removes(socket, m, q) BY <2>0, <4>1 DEF EventsInv
      <4> QED BY <4>2, <1>10
    <3>2. CASE q # p
      <4>1. HasNode(nodes, q) BY <3>2, <2>2, <1>14
      <4>2. PICK m : Removes(socket, m, q) BY <2>0, <4>1 DEF EventsInv
      <4>3. m \in Int /\ m > 1 BY <4>2, <3>2, <1>6, <1>7
      <4> QED BY <4>2, <4>3, <1>10
    <3> QED BY <3>1, <3>2
  <2> QED BY <2>1, <2>2
<1>17. ASSUME NEW r \in Devs, NEW q \in Devs, r # q, NodeName[r] = NodeName[q], NEW j, Tells(socket', j, q)
       PROVE  /\ \A i : Adds(socket', i, r) /\ i < j => \E m : i < m /\ m < j /\ Removes(socket', m, r)
              /\ HasNode(nodes', r) => \E m : m < j /\ Removes(socket', m, r)
  <2>0. j \in Int /\ j >= 1 /\ Tells(socket, j + 1, q) BY <1>17, <1>3, <1>6
  <2>1. ASSUME NEW i, Adds(socket', i, r), i < j PROVE \E m : i < m /\ m < j /\ Removes(socket', m, r)
    <3>1. i \in Int /\ i >= 1 /\ Adds(socket, i + 1, r) BY <2>1, <1>4, <1>6, <1>8
    <3>2. i + 1 < j + 1 BY <2>0, <2>1, <3>1
    <3>3. PICK m : i + 1 < m /\ m < j + 1 /\ Removes(socket, m, r) BY <1>17, <2>0, <3>1, <3>2 DEF EventsInv
    <3>4. m \in Int /\ m > 1 BY <3>1, <3>3, <1>6, <1>7
    <3>5. i < m - 1 /\ m - 1 < j /\ Removes(socket', m - 1, r) BY <2>0, <3>1, <3>3, <3>4, <1>10
    <3> QED BY <3>5
  <2>2. ASSUME HasNode(nodes', r) PROVE \E m : m < j /\ Removes(socket', m, r)
    <3>1. \E m : m > 1 /\ m < j + 1 /\ Removes(socket, m, r)
      <4>1. CASE r = p
        <5>1. Adds(socket, 1, r) BY <4>1, <2>2, <1>2, <1>11, <1>14
        <5> QED BY <5>1, <1>17, <2>0 DEF EventsInv
      <4>2. CASE r # p
        <5>1. HasNode(nodes, r) BY <4>2, <2>2, <1>14
        <5>2. PICK m : m < j + 1 /\ Removes(socket, m, r) BY <5>1, <1>17, <2>0 DEF EventsInv
        <5>3. m \in Int /\ m > 1 BY <5>2, <4>2, <1>6, <1>7
        <5> QED BY <5>2, <5>3
      <4> QED BY <4>1, <4>2
    <3>2. PICK m : m > 1 /\ m < j + 1 /\ Removes(socket, m, r) BY <3>1
    <3>3. m \in Int BY <3>2, <1>6, <1>7
    <3>4. m - 1 < j /\ Removes(socket', m - 1, r) BY <2>0, <3>2, <3>3, <1>10
    <3> QED BY <3>4
  <2> QED BY <2>1, <2>2
<1>18. announced' \subseteq plugged' BY DEF EventsInv
<1> QED BY <1>13, <1>15, <1>16, <1>17, <1>18 DEF EventsInv, e, p

\* The nodes keep their names, and the links follow them.
LEMMA HandledFollows ==
    ASSUME FollowInv, handle_device_event, UNCHANGED <<plugged, device_fd, announced>>
    PROVE  FollowInv'
<1> DEFINE p == Head(socket).path
           action == Head(socket).action
           mine == LinksOf(platform_names, p)
<1>1. /\ p \in Paths /\ action \in {"add", "remove"} /\ socket' \in Seq(Events)
      /\ Subsystem[p] # "platform" => p \in Devs
  <2>1. socket \in Seq(Events) /\ socket # <<>> /\ socket' = Tail(socket)
    BY DEF handle_device_event, FollowInv, NamesInv
  <2>2. Head(socket) \in Events /\ socket' \in Seq(Events) BY <2>1
  <2> QED BY <2>2 DEF Events, Devs
<1>2. CASE Subsystem[p] = "platform"
  <2>1. UNCHANGED <<nodes, links>> /\ mishaps \subseteq mishaps'
        /\ mishaps' = IF Regroups(platform_names') THEN mishaps \cup {"regrouped"} ELSE mishaps
    BY <1>2 DEF handle_device_event, handle_platform_device_event
  <2>2. NamesInv' BY <1>1, <2>1 DEF FollowInv, NamesInv
  <2>3. "lost" \notin mishaps' => EventsInv' BY <2>1, EventHandled DEF FollowInv
  <2>4. ASSUME mishaps' = {} PROVE LinksInv'
    <3>1. ~Regroups(platform_names') /\ mishaps = {} BY <2>1, <2>4
    <3>2. \A n \in DOMAIN nodes : LinksOf(platform_names', nodes[n]) = LinksOf(platform_names, nodes[n])
      BY <3>1 DEF Regroups
    <3> QED BY <3>1, <3>2, <2>1 DEF FollowInv, LinksInv
  <2> QED BY <2>2, <2>3, <2>4 DEF FollowInv
<1>3. CASE Subsystem[p] # "platform" /\ action = "add"
  <2>1. /\ nodes' = [n \in DOMAIN nodes \cup {NodeName[p]} |-> IF n \in DOMAIN nodes THEN nodes[n] ELSE p]
        /\ links' = [l \in DOMAIN links \cup mine |-> IF l \in DOMAIN links THEN links[l] ELSE NodeName[p]]
        /\ mishaps' = IF \E l \in mine \cap DOMAIN links : links[l] # NodeName[p]
                      THEN mishaps \cup {"eclipsed"} ELSE mishaps
        /\ UNCHANGED platform_names
    BY <1>3 DEF handle_device_event, handle_device, handle_device_add
  <2> HIDE DEF p, mine
  <2>2. NamesInv'
    <3>1. \A n \in DOMAIN nodes' : nodes'[n] \in Devs /\ NodeName[nodes'[n]] = n
      BY <1>1, <1>3, <2>1 DEF FollowInv, NamesInv
    <3> QED BY <1>1, <3>1 DEF FollowInv, NamesInv
  <2>3. "lost" \notin mishaps' => EventsInv' BY <2>1, EventHandled DEF FollowInv
  <2>4. ASSUME mishaps' = {} PROVE LinksInv'
    <3>1. mishaps = {} /\ \A l \in mine \cap DOMAIN links : links[l] = NodeName[p] BY <2>1, <2>4
    <3>2. EventsInv /\ LinksInv /\ NamesInv BY <3>1 DEF FollowInv
    <3>3. NodeName[p] \in DOMAIN nodes => nodes[NodeName[p]] = p
      BY <3>2, <1>3, EventHandled DEF NamesInv, HasNode, p
    <3>4. /\ NodeName[p] \in DOMAIN nodes' /\ nodes'[NodeName[p]] = p
          /\ \A n \in DOMAIN nodes : n \in DOMAIN nodes' /\ nodes'[n] = nodes[n]
          /\ \A n \in DOMAIN nodes' : n \in DOMAIN nodes \/ n = NodeName[p]
      BY <2>1, <3>3
    <3>5. /\ \A l \in DOMAIN links : l \in DOMAIN links' /\ links'[l] = links[l]
          /\ \A l \in mine : l \in DOMAIN links' /\ links'[l] = NodeName[p]
          /\ \A l \in DOMAIN links' : l \in DOMAIN links \/ l \in mine
      BY <2>1, <3>1
    <3>6. \A l \in DOMAIN links' : links'[l] \in DOMAIN nodes' /\ l \in LinksOf(platform_names, nodes'[links'[l]])
      BY <3>2, <3>4, <3>5 DEF LinksInv, mine
    <3>7. \A n \in DOMAIN nodes' : \A l \in LinksOf(platform_names, nodes'[n]) : l \in DOMAIN links' /\ links'[l] = n
      BY <3>2, <3>4, <3>5 DEF LinksInv, mine
    <3> QED BY <2>1, <3>6, <3>7 DEF LinksInv
  <2> QED BY <2>2, <2>3, <2>4 DEF FollowInv
<1>4. CASE Subsystem[p] # "platform" /\ action = "remove"
  <2> DEFINE its == {l \in mine \cap DOMAIN links : links[l] = NodeName[p]}
  <2>1. /\ links' = [l \in DOMAIN links \ its |-> links[l]]
        /\ nodes' = [n \in DOMAIN nodes \ {NodeName[p]} |-> nodes[n]]
        /\ UNCHANGED <<mishaps, platform_names>>
    BY <1>4 DEF handle_device_event, handle_device, handle_device_remove
  <2> HIDE DEF p, mine
  <2>2. NamesInv'
    <3>1. \A n \in DOMAIN nodes' : nodes'[n] \in Devs /\ NodeName[nodes'[n]] = n
      BY <2>1 DEF FollowInv, NamesInv
    <3> QED BY <1>1, <3>1 DEF FollowInv, NamesInv
  <2>3. "lost" \notin mishaps' => EventsInv' BY <2>1, EventHandled DEF FollowInv
  <2>4. ASSUME mishaps' = {} PROVE LinksInv'
    <3>1. mishaps = {} BY <2>1, <2>4
    <3>2. EventsInv /\ LinksInv /\ NamesInv BY <3>1 DEF FollowInv
    <3>3. NodeName[p] \in DOMAIN nodes => nodes[NodeName[p]] = p
      BY <3>2, <1>4, EventHandled DEF NamesInv, HasNode, p
    <3>4. /\ \A n \in DOMAIN nodes' : n \in DOMAIN nodes /\ n # NodeName[p] /\ nodes'[n] = nodes[n]
          /\ \A n \in DOMAIN nodes : n # NodeName[p] => n \in DOMAIN nodes'
      BY <2>1
    <3>5. /\ \A l \in DOMAIN links' : l \in DOMAIN links /\ l \notin its /\ links'[l] = links[l]
          /\ \A l \in DOMAIN links : l \notin its => l \in DOMAIN links'
      BY <2>1
    <3>6. ASSUME NEW l \in DOMAIN links'
          PROVE  links'[l] \in DOMAIN nodes' /\ l \in LinksOf(platform_names, nodes'[links'[l]])
      <4>1. links[l] \in DOMAIN nodes /\ l \in LinksOf(platform_names, nodes[links[l]]) /\ l \notin its
            /\ l \in DOMAIN links /\ links'[l] = links[l]
        BY <3>2, <3>5, <3>6 DEF LinksInv
      <4>2. links[l] # NodeName[p] BY <4>1, <3>3 DEF mine
      <4> QED BY <4>1, <4>2, <3>4
    <3>7. ASSUME NEW n \in DOMAIN nodes', NEW l \in LinksOf(platform_names, nodes'[n])
          PROVE  l \in DOMAIN links' /\ links'[l] = n
      <4>1. l \in DOMAIN links /\ links[l] = n /\ n # NodeName[p] BY <3>2, <3>4, <3>7 DEF LinksInv
      <4> QED BY <4>1, <3>5
    <3> QED BY <2>1, <3>6, <3>7 DEF LinksInv
  <2> QED BY <2>2, <2>3, <2>4 DEF FollowInv
<1> QED BY <1>1, <1>2, <1>3, <1>4

\* Nobody else changes a thing.
LEMMA DevicesFollow == ASSUME FollowInv, DevicesNext PROVE FollowInv'
<1>1. ASSUME NEW p \in Paths, Swap(p) PROVE FollowInv' BY <1>1, SwapFollows DEF Swap
<1>2. CASE handle_device_fd
  <2>1. CASE handle_device_event /\ UNCHANGED <<plugged, device_fd, announced>> BY <2>1, HandledFollows
  <2>2. CASE UNCHANGED followVars BY <2>2, FollowKept
  <2> QED BY <1>2, <2>1, <2>2 DEF handle_device_fd, followVars
<1>3. CASE init_single_path BY <1>3, VisitFollows
<1>4. CASE init_folder BY <1>4, FollowKept DEF init_folder, followVars
<1>5. CASE devices_init_Ends BY <1>5, FollowKept DEF devices_init_Ends, followVars
<1>6. CASE uevent_thread_work BY <1>6, FollowKept DEF uevent_thread_work, followVars
<1> QED BY <1>1, <1>2, <1>3, <1>4, <1>5, <1>6 DEF DevicesNext

\* main, and trampoline_encmnt, move only the mapping.
LEMMA TrampolineFollows ==
    ASSUME FollowInv, [TrampolineNext]_<<deviceVars, adbVars, encVars, mainVars>>
    PROVE  FollowInv'
<1> USE DmAssumption
<1>1. UNCHANGED deviceVars \/ devices_close => UNCHANGED followVars
  BY DEF deviceVars, followVars, devices_close
<1>2. CASE DevicesNext BY <1>2, DevicesFollow
<1>3. CASE Comes(Dm) \/ Goes(Dm) BY <1>3, SwapFollows
<1>4. CASE UNCHANGED deviceVars \/ devices_close BY <1>1, <1>4, FollowKept
<1>5. Main => UNCHANGED deviceVars \/ devices_close \/ Goes(Dm)
  <2> SUFFICES ASSUME Main PROVE UNCHANGED deviceVars \/ devices_close \/ Goes(Dm) OBVIOUS
  <2>1. CASE DevicesReady \/ WaitsForFb0 \/ WaitsForData \/ MountsDecrypted \/ run_multirom \/ adb_quit_Returns \/ Exec
    BY <2>1 DEF DevicesReady, WaitsForFb0, WaitsForData, MountsDecrypted, run_multirom, adb_quit_Returns, Exec, OthersAlone
  <2>2. CASE try_mount_all_entries \/ encryption_before_mount \/ find_multirom \/ Cleanup
    BY <2>2 DEF try_mount_all_entries, encryption_before_mount, find_multirom, Cleanup, OthersAlone
  <2>3. CASE adb_quit BY <2>3 DEF adb_quit, Quitting
  <2>4. CASE run_core
    <3>1. UNCHANGED deviceVars \/ \E busy \in BOOLEAN : encryption_destroy(busy) BY <2>4 DEF run_core, OthersAlone
    <3> QED BY <3>1 DEF encryption_destroy
  <2>5. CASE Close BY <2>5 DEF Close
  <2> QED BY <2>1, <2>2, <2>3, <2>4, <2>5 DEF Main
<1>6. Encmnt => UNCHANGED deviceVars \/ Comes(Dm)
  <2> SUFFICES ASSUME Encmnt PROVE UNCHANGED deviceVars \/ Comes(Dm) OBVIOUS
  <2>1. CASE EncmntStarts \/ TryPassword \/ Answered
    BY <2>1 DEF EncmntStarts, TryPassword, Answered
  <2>2. CASE CheckDefault \/ try_password
    BY <2>2 DEF CheckDefault, try_password, cryptfs_check_passwd
  <2>3. CASE PowerKey \/ pw_ui_shutdown_counter_touch_handler \/ LoopLeft \/ pw_ui_Ends
    BY <2>3 DEF PowerKey, pw_ui_shutdown_counter_touch_handler, LoopLeft, pw_ui_Ends, PwUiAlone
  <2>4. CASE FindNode \/ EncmntDies BY <2>4 DEF FindNode, EncmntDies
  <2> QED BY <2>1, <2>2, <2>3, <2>4 DEF Encmnt
<1>7. \A answer : Click(answer) => UNCHANGED deviceVars
  BY DEF Click
<1> QED BY <1>2, <1>3, <1>4, <1>5, <1>6, <1>7 DEF TrampolineNext

LEMMA FollowAlways == TrampolineSpec => []FollowInv
<1>1. TrampolineInit => FollowInv BY InitFollow DEF TrampolineInit
<1> QED BY <1>1, TrampolineFollows, PTL DEF TrampolineSpec

\* /dev follows sysfs (devices.c, handle_device_event) through any plugging and unplugging,
\* repeated events and handlers that lag behind, for any devices, names and labels.
THEOREM DevAlwaysFollows == TrampolineSpec => []DevFollows
<1>1. FollowInv => DevFollows
  <2> SUFFICES ASSUME FollowInv, "lost" \notin mishaps PROVE DevFollows BY DEF DevFollows
  <2>1. NamesInv /\ EventsInv BY DEF FollowInv
  <2>2. ASSUME socket = <<>> PROVE {nodes[n] : n \in DOMAIN nodes} = Expected
    <3>1. \A i, p : ~Adds(socket, i, p) /\ ~Removes(socket, i, p)
      BY <2>2 DEF Adds, Removes, Tells
    <3>2. \A p \in Devs : HasNode(nodes, p) <=> p \in announced
      BY <2>1, <3>1 DEF EventsInv
    <3>3. \A n \in DOMAIN nodes : nodes[n] \in Devs BY <2>1 DEF NamesInv
    <3>4. \A p : p \in Expected <=> p \in Devs /\ p \in announced
      BY <2>1 DEF Expected, Devs, NamesInv, EventsInv
    <3> QED BY <3>2, <3>3, <3>4 DEF HasNode
  <2>3. \A n \in DOMAIN nodes : NodeName[nodes[n]] = n BY <2>1 DEF NamesInv
  <2>4. ASSUME mishaps = {}
        PROVE  /\ \A l \in DOMAIN links : links[l] \in DOMAIN nodes
               /\ DOMAIN links = UNION {LinksOf(platform_names, nodes[n]) : n \in DOMAIN nodes}
    <3>1. LinksInv BY <2>4 DEF FollowInv
    <3>2. \A l \in DOMAIN links : links[l] \in DOMAIN nodes /\ l \in LinksOf(platform_names, nodes[links[l]])
      BY <3>1 DEF LinksInv
    <3>3. \A n \in DOMAIN nodes : \A l \in LinksOf(platform_names, nodes[n]) : l \in DOMAIN links
      BY <3>1 DEF LinksInv
    <3> QED BY <3>2, <3>3
  <2> QED BY <2>2, <2>3, <2>4 DEF DevFollows
<1> QED BY <1>1, FollowAlways, PTL
===============================================================================
