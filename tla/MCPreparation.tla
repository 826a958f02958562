---------------------------- MODULE MCPreparation ----------------------------
(***************************************************************************)
(* From multirom.ini to the ROM twice: "list" with two drives that come    *)
(* and go while the UI is up, and every step of preparing a ROM going      *)
(* well; "root" with one drive, no watcher, every kind of ROM and calls    *)
(* that fail.                                                              *)
(***************************************************************************)
EXTENDS Preparation

VARIABLE focus

MCDrives == <<"d1", "d2">>
MCOnStorage == <<"Internal", "Dir", "Image", "Odd", "Old", "myvendor">>
MCOnDrive == [d \in {"d1", "d2"} |-> IF d = "d1" THEN <<"Dir", "Sparse", "Tux">> ELSE <<"Dir", "Saucy">>]
MCPairs == ({"Internal", "Dir", "Image", "Odd", "Old", "myvendor", "Sparse", "Tux", "Saucy"} \X {"storage", "d1", "d2"})
MCFiles == [p \in MCPairs |->
    CASE p = <<"Dir", "storage">> -> {"boot", "boot.img", "system", "data", "cache", "vendor", "vendor/etc"}
      [] p = <<"Dir", "d1">> -> {"boot", "boot.img", "system", "data", "cache", "vendor", "system/vendor/etc"}
      [] p = <<"Dir", "d2">> -> {"boot", "system", "data", "cache", "vendor", "system/vendor/etc"}
      [] p[1] = "Image" -> {"boot", "system.img", "data.img", "cache.img", "firmware.img"}
      [] p[1] = "Sparse" -> {"boot", "boot.img", "system.sparse.img", "data", "cache.sparse.img", "vendor.sparse.img"}
      [] p[1] = "Tux" -> {"rom_info.txt"}
      [] p[1] = "Saucy" -> {"root.img"}
      [] p[1] = "Old" -> {"root", "boot.img"}
      [] p[1] = "Odd" -> {"boot"}
      [] p[1] = "myvendor" -> {"boot", "system", "data", "cache", "vendor", "system/vendor/etc"}
      [] OTHER -> {}]

MCRootFstabs == {<<>>, <<"/system", "/data", "/cache">>, <<"/system", "/data", "/data", "/cache", "/firmware">>,
                 <<"/system", "/data">>}
MCVendorFstabs == {<<>>, <<"/data", "/cache", "/firmware">>}
MCRomInfos == {{"type", "kernel_path", "base_cmdline", "root_dir", "root_img", "img_cmdline"},
               {"type", "kernel_path", "root_dir"}}

MCInit ==
    /\ PrepInit
    /\ focus \in {"list", "root"}
    /\ ini.rom \in {"Internal", "Dir"} /\ ini.auto \in {"", "Dir"}
    /\ focus = "root" => plugged = {"d1"} /\ ini = [rom |-> "Dir", part |-> "d1", auto |-> "", last |-> FALSE]

Plain == root'.named = "any" /\ root'.dtb = "none" /\ root'.sought \in {"none", "/data/media"}
         /\ Len(root'.fstab.root) \in {0, 3, 4} /\ (root'.media # "none" => root'.media = "/data/media") /\ root'.fstab.vendor = <<>>
MCNext ==
    /\ PrepNext
    /\ UNCHANGED focus
    /\ focus = "list" => faults' = 0 /\ Plain /\ selected_rom'.name \in {"none", "Dir", "Tux"}
                       /\ (boots' > boots => second_boot')
    /\ focus = "root" => swaps' = 0 /\ watcher' = "none"
=============================================================================
