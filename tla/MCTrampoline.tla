------------------------------ MODULE MCTrampoline ------------------------------
(***************************************************************************)
(* The trampoline twice: "devices" with a storage controller under a bus,  *)
(* two partitions and a serial interface that come and go, and "boot" from *)
(* devices_init to /init.                                                  *)
(***************************************************************************)
EXTENDS Trampoline, TLC

VARIABLE focus

MCPaths == {"soc", "mmc", "boot", "spare", "card", "tty", "fb0", "data", "dm"}
MCSubsystem == [p \in MCPaths |-> CASE p \in {"soc", "mmc"} -> "platform" [] p \in {"boot", "spare", "card", "data", "dm"} -> "block"
                                    [] p = "tty" -> "usb" [] OTHER -> "char"]
MCAbove == [p \in MCPaths |-> CASE p \in {"mmc", "tty", "card"} -> {"soc"} [] p \in {"boot", "spare", "data"} -> {"soc", "mmc"}
                                [] OTHER -> {}]
\* The spare partition has the boot partition's label; a card may take the boot partition's node.
MCNodeName == [p \in MCPaths |-> IF p = "card" THEN "boot" ELSE p]
Hot == {"soc", "mmc", "boot", "spare", "card", "tty"}
MCLabels == [p \in MCPaths |-> CASE p = "boot" -> {"BOOT", "p1"} [] p = "spare" -> {"BOOT", "p2"} [] p = "tty" -> {"1-1"} [] p = "card" -> {"p1"}
                                 [] OTHER -> {p}]
MCInitDevices == {<<[path |-> "soc", op |-> "folder"]>>,
                  <<[path |-> "mmc", op |-> "folder"], [path |-> "soc", op |-> "single"]>>,
                  <<[path |-> "mmc", op |-> "single"], [path |-> "soc", op |-> "folder"]>>,
                  <<[path |-> "fb0", op |-> "single"], [path |-> "data", op |-> "single"]>>}

MCInit ==
    /\ TrampolineInit
    /\ focus \in {"devices", "boot"}
    /\ focus = "devices" => /\ phase = "devices" /\ plugged \subseteq Hot
                            /\ walk[1].path # "fb0" /\ vendor = "own" /\ firmware = "none" /\ ~second_boot
    /\ focus = "boot" => /\ plugged = {"soc", "mmc", "fb0", "data"} /\ walk[1].path = "fb0"

MCNext ==
    /\ UNCHANGED focus
    /\ \/ focus = "devices" /\ DevicesNext /\ UNCHANGED <<adbVars, encVars, mainVars>>
       \/ focus = "boot" /\ TrampolineNext /\ UNCHANGED swaps
    /\ focus = "devices" => plugged' \subseteq Hot
===============================================================================
