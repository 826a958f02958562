------------------------------- MODULE Decryption -------------------------------
(***************************************************************************)
(* Decrypting /data: the trampoline (trampoline/encryption.c) runs         *)
(* trampoline_encmnt (encmnt.cpp), which asks for the password on a screen *)
(* of its own (pw_ui.cpp) and prints what came of it.  cryptfs, external,  *)
(* maps the decrypted device; the kernel tells of it, and its node is made *)
(* by the trampoline's uevent thread while trampoline_encmnt looks for it. *)
(***************************************************************************)
EXTENDS Devices

CONSTANT Dm         \* the path of the mapping
ASSUME DmAssumption == Dm \in Paths

VARIABLES
    vendor,         \* /vendor: "own", "none" or "enc" (a link to /mrom_enc/vendor)
    vendor_boot,    \* /vendor_boot is there
    firmware,       \* /firmware: "none", "empty", "full", or "made" by encryption_before_mount
    firmware_boot,  \* what is in /firmware_boot
    encmnt,         \* where trampoline_encmnt is
    exit_code,      \* of pw_ui: "error", "ok", "internal" or "recovery"
    typing,         \* the input thread's handler: "idle", "checks" or an answer it is to give
    shutdown_counter,
    output,         \* what trampoline_encmnt printed: "none", "internal", "recovery" or "device"
    g_decrypted,
    slips           \* history: "answer changed", "node late", "child died", "not removed", "firmware busy"

encVars == <<vendor, vendor_boot, firmware, firmware_boot, encmnt, exit_code, typing, shutdown_counter, output,
             g_decrypted, slips>>

EncInit ==
    /\ vendor \in {"own", "none"} /\ vendor_boot = FALSE
    /\ firmware \in {"none", "empty", "full"} /\ firmware_boot = "none"
    /\ encmnt = "none" /\ exit_code = "error" /\ typing = "idle" /\ shutdown_counter = 0
    /\ output = "none" /\ g_decrypted = FALSE /\ slips = {}

Mapped == Dm \in plugged
DirsAlone == UNCHANGED <<vendor, vendor_boot, firmware, firmware_boot>>
ChildAlone == UNCHANGED <<encmnt, exit_code, typing, shutdown_counter, output, slips>>

\* encryption_before_mount up to the call: the libraries of /mrom_enc take /vendor's place, and
\* the modem's firmware may be mounted for the key master.
EncBegins ==
    /\ vendor' = "enc" /\ vendor_boot' = (vendor = "own")
    /\ firmware' = "made" /\ firmware_boot' = firmware
    /\ encmnt' = "begins"
    /\ UNCHANGED <<exit_code, typing, shutdown_counter, output, g_decrypted, slips>>

\* main and handle_decrypt up to the password: no fstab, footer or password type; the default
\* password; or the screen, if there is a framebuffer.
EncmntStarts ==
    /\ encmnt = "begins"
    /\ encmnt' \in {"exits", "checks", "screen"}
    /\ UNCHANGED <<exit_code, typing, shutdown_counter, output, g_decrypted, slips, deviceVars>>
    /\ DirsAlone

\* cryptfs_check_passwd, external: the right password is mapped, and there is one mapping.
cryptfs_check_passwd(next, nextElse) ==
    \/ /\ ~Mapped /\ Comes(Dm) /\ next
       /\ UNCHANGED swaps
    \/ nextElse /\ UNCHANGED deviceVars

CheckDefault ==
    /\ encmnt = "checks"
    /\ cryptfs_check_passwd(encmnt' = "looks", encmnt' = "exits")
    /\ UNCHANGED <<exit_code, typing, shutdown_counter, output, g_decrypted, slips>>
    /\ DirsAlone

-----------------------------------------------------------------------------
\* pw_ui: the input thread.

InputAlone == UNCHANGED <<encmnt, shutdown_counter, output, g_decrypted>> /\ DirsAlone

\* type_pass_key_pressed or type_pattern_touch_handler has a password for try_password.
TryPassword ==
    /\ encmnt \in {"screen", "leaves"} /\ typing = "idle"
    /\ typing' = "checks"
    /\ UNCHANGED <<exit_code, slips, deviceVars>> /\ InputAlone

try_password ==
    /\ typing = "checks"
    /\ cryptfs_check_passwd(typing' = "ok", typing' = "idle")
    /\ UNCHANGED <<exit_code, slips>> /\ InputAlone

\* boot_internal_clicked, or boot_reboot_to_recovery in a second boot: the card and the quirks
\* first, then the answer.
Click(answer) ==
    /\ encmnt \in {"screen", "leaves"} /\ typing = "idle"
    /\ typing' = answer
    /\ UNCHANGED <<exit_code, slips, deviceVars>> /\ InputAlone

Answered ==
    /\ typing \in {"ok", "internal", "recovery"}
    /\ exit_code' = typing /\ typing' = "idle"
    /\ slips' = IF exit_code = "ok" THEN slips \cup {"answer changed"} ELSE slips
    /\ UNCHANGED deviceVars /\ InputAlone

-----------------------------------------------------------------------------
\* pw_ui_run: the main thread.

PwUiAlone == UNCHANGED <<exit_code, typing, g_decrypted, slips, deviceVars>> /\ DirsAlone

PowerKey ==
    /\ encmnt = "screen" /\ exit_code = "error"
    /\ shutdown_counter' = shutdown_counter + 1
    /\ encmnt' = IF shutdown_counter = 1 THEN "leaves" ELSE encmnt
    /\ UNCHANGED output /\ PwUiAlone

\* Any touch takes the card away and starts the count again, also once the loop has been left
\* for it.
pw_ui_shutdown_counter_touch_handler ==
    /\ encmnt \in {"screen", "leaves"} /\ shutdown_counter > 0
    /\ shutdown_counter' = 0
    /\ UNCHANGED <<encmnt, output>> /\ PwUiAlone

LoopLeft ==
    /\ encmnt = "screen" /\ exit_code # "error"
    /\ encmnt' = "leaves"
    /\ UNCHANGED <<shutdown_counter, output>> /\ PwUiAlone

\* stop_input_thread waits for the handler; exit_code is read once more, after all threads.
pw_ui_Ends ==
    /\ encmnt = "leaves" /\ typing = "idle"
    /\ encmnt' = CASE shutdown_counter = 2 -> "off"
                   [] shutdown_counter # 2 /\ exit_code = "ok" -> "looks"
                   [] OTHER -> "exits"
    /\ output' = IF shutdown_counter # 2 /\ exit_code \in {"internal", "recovery"} THEN exit_code ELSE output
    /\ UNCHANGED shutdown_counter /\ PwUiAlone

\* handle_decrypt looks through /dev/block for a dm node, once.
FindNode ==
    /\ encmnt = "looks"
    /\ encmnt' = "exits"
    /\ IF NodeName[Dm] \in DOMAIN nodes
       THEN output' = "device" /\ UNCHANGED slips
       ELSE slips' = slips \cup {"node late"} /\ UNCHANGED output
    /\ UNCHANGED <<exit_code, typing, shutdown_counter, g_decrypted, deviceVars>> /\ DirsAlone

\* trampoline_encmnt is killed or crashes, perhaps with the mapping made; what it printed does
\* not count then.
EncmntDies ==
    /\ encmnt \in {"begins", "checks", "screen", "leaves", "looks", "exits"}
    /\ encmnt' = "exits" /\ output' = "none" /\ typing' = "idle"
    /\ slips' = IF Mapped THEN slips \cup {"child died"} ELSE slips
    /\ UNCHANGED <<exit_code, shutdown_counter, g_decrypted, deviceVars>> /\ DirsAlone

Encmnt ==
    \/ EncmntStarts \/ CheckDefault \/ TryPassword \/ try_password
    \/ Answered \/ PowerKey \/ pw_ui_shutdown_counter_touch_handler
    \/ LoopLeft \/ pw_ui_Ends \/ FindNode \/ EncmntDies

-----------------------------------------------------------------------------
\* The trampoline again.

\* encryption_before_mount after the call.
EncEnds ==
    /\ encmnt = "exits"
    /\ encmnt' = "done"
    /\ g_decrypted' = (output = "device")
    /\ UNCHANGED <<exit_code, typing, shutdown_counter, output, slips>> /\ DirsAlone

\* "remove" takes the mapping away unless something is mounted from it; it may fail by itself
\* as well.  Either is only logged.
encryption_destroy(busy) ==
    /\ g_decrypted' = FALSE
    /\ \/ ~busy /\ g_decrypted /\ Mapped /\ Goes(Dm) /\ UNCHANGED <<swaps, slips>>
       \/ (busy \/ ~g_decrypted \/ ~Mapped) /\ UNCHANGED <<deviceVars, slips>>
       \/ g_decrypted /\ slips' = slips \cup {"not removed"} /\ UNCHANGED deviceVars
    /\ UNCHANGED <<encmnt, exit_code, typing, shutdown_counter, output>> /\ DirsAlone

\* The ramdisk's /firmware is put back before the made one is removed.
encryption_cleanup_Early ==
    LET now == IF firmware_boot # "none" THEN firmware_boot ELSE firmware
    IN  /\ vendor' = IF vendor_boot THEN "own" ELSE vendor
        /\ firmware' = IF now = "full" THEN "full" ELSE "none"
        /\ vendor_boot' = FALSE /\ firmware_boot' = "none"
        /\ UNCHANGED g_decrypted /\ ChildAlone

\* Without /vendor_boot the link stays; /firmware is removed if it is empty, whoever made it.
\* A modem's firmware still in use stays mounted there, and the rename fails.
encryption_cleanup ==
    LET left == IF firmware = "full" THEN "full" ELSE "none"
    IN  /\ vendor' = IF vendor_boot THEN "own" ELSE vendor
        /\ vendor_boot' = FALSE
        /\ \/ /\ firmware' = IF firmware_boot # "none" THEN firmware_boot ELSE left
              /\ firmware_boot' = "none" /\ UNCHANGED slips
           \/ firmware = "made" /\ slips' = slips \cup {"firmware busy"} /\ UNCHANGED <<firmware, firmware_boot>>
        /\ UNCHANGED <<g_decrypted, encmnt, exit_code, typing, shutdown_counter, output>>
===============================================================================
