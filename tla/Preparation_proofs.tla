--------------------------- MODULE Preparation_proofs ---------------------------
(***************************************************************************)
(* Proofs about Preparation: what is left behind for the ROM that was      *)
(* chosen is whole, through any failure and to the next boot.  The         *)
(* inductive invariant Inv says what the list and its pointers hold        *)
(* (ListInv), what a second boot is for (WishInv), and what is done of the *)
(* root and the job by each stage (PrepInv).                               *)
(***************************************************************************)
EXTENDS Preparation, ListLemmas

-----------------------------------------------------------------------------
\* The types of ROMs.
LEMMA DefaultIs ==
    ASSUME NEW r
    PROVE  IsDefault(r) <=> ~OnUsb(r) /\ r.name = Internal
<1>1. CASE ~OnUsb(r) /\ r.name = Internal BY <1>1 DEF IsDefault, multirom_get_rom_type
<1>2. CASE ~(~OnUsb(r) /\ r.name = Internal)
  <2> DEFINE A == Holds(r, {"boot"})
             B == Holds(r, {"system", "data", "cache"})
             C == Holds(r, {"system.img", "data.img", "cache.img"})
             H == IsHybrid(r)
             D == IF Holds(r, {"rom_info.txt"}) \/ (IsUbuntu1304(r) /\ UbuntuInfo) THEN ByPlace(r, "linux_internal", "linux_usb")
                  ELSE IF IsUbuntu1304(r) \/ Holds(r, {"root", "boot.img"})
                  THEN ByPlace(r, "unsupported_int", "unsupported_usb") ELSE "unknown"
  <2>1. multirom_get_rom_type(r) =
          CASE A /\ B -> ByPlace(r, "android_internal", "android_usb_dir")
            [] A /\ ~B /\ H -> ByPlace(r, "android_internal_hybrid", "android_usb_hybrid")
            [] A /\ ~B /\ ~H /\ C -> "android_usb_img"
            [] OTHER -> D
    BY <1>2 DEF multirom_get_rom_type
  <2>2. D # "default" BY DEF ByPlace
  <2>3. /\ ByPlace(r, "android_internal", "android_usb_dir") # "default"
        /\ ByPlace(r, "android_internal_hybrid", "android_usb_hybrid") # "default"
    BY DEF ByPlace
  <2> HIDE DEF A, B, C, H, D
  <2>4. multirom_get_rom_type(r) # "default" BY <2>1, <2>2, <2>3
  <2> QED BY <2>4, <1>2 DEF IsDefault
<1> QED BY <1>1, <1>2

LEMMA DefaultIsNone ==
    ASSUME NEW r
    PROVE  ~(IsDefault(r) /\ IsAndroid(r)) /\ ~(IsDefault(r) /\ IsLinux(r)) /\ ~(IsAndroid(r) /\ IsLinux(r))
BY DEF IsDefault, IsAndroid, IsLinux

-----------------------------------------------------------------------------
\* Looking up a ROM.
LEMMA InternalFound ==
    ASSUME NEW S, NEW list \in Seq(S)
    PROVE  IF \E r \in Range(list) : IsDefault(r)
           THEN multirom_get_internal(list) \in Range(list) /\ IsDefault(multirom_get_internal(list))
           ELSE multirom_get_internal(list) = NoRom
<1> DEFINE I == {i \in 1..Len(list) : IsDefault(list[i])}
<1>1. multirom_get_internal(list) = LET i == IF I # {} THEN Min(I) ELSE 0 IN IF i = 0 THEN NoRom ELSE list[i]
  BY DEF multirom_get_internal, FirstOf, SelectInSeq
<1>2. DOMAIN list = 1..Len(list) /\ Len(list) \in Nat OBVIOUS
<1>3. CASE I = {}
  <2>1. ~ \E r \in Range(list) : IsDefault(r) BY <1>2, <1>3 DEF Range
  <2> QED BY <2>1, <1>1, <1>3
<1>4. CASE I # {}
  <2>1. Min(I) \in I
    <3>1. I \subseteq Nat OBVIOUS
    <3> HIDE DEF I
    <3> QED BY <3>1, <1>4, MinIn
  <2>2. Min(I) \in 1..Len(list) /\ IsDefault(list[Min(I)]) BY <2>1
  <2> HIDE DEF I
  <2>3. multirom_get_internal(list) = list[Min(I)] BY <2>2, <1>1, <1>4
  <2>4. list[Min(I)] \in Range(list) BY <2>2, <1>2 DEF Range
  <2> QED BY <2>2, <2>3, <2>4
<1> QED BY <1>3, <1>4

Fits(r, name, uuid) == ~IsDefault(r) /\ r.name = name /\ uuid \in {NoPart, r.place}

LEMMA RomFound ==
    ASSUME NEW S, NEW list \in Seq(S), NEW name, NEW uuid, ~(uuid = NoPart /\ name = Internal)
    PROVE  IF \E r \in Range(list) : Fits(r, name, uuid)
           THEN multirom_get_rom(list, name, uuid) \in Range(list) /\ Fits(multirom_get_rom(list, name, uuid), name, uuid)
           ELSE multirom_get_rom(list, name, uuid) = NoRom
<1> DEFINE I == {i \in 1..Len(list) : Fits(list[i], name, uuid)}
<1>1. multirom_get_rom(list, name, uuid) = LET i == IF I # {} THEN Min(I) ELSE 0 IN IF i = 0 THEN NoRom ELSE list[i]
  BY DEF multirom_get_rom, FirstOf, SelectInSeq, Fits
<1>2. DOMAIN list = 1..Len(list) /\ Len(list) \in Nat OBVIOUS
<1>3. CASE I = {}
  <2>1. ~ \E r \in Range(list) : Fits(r, name, uuid) BY <1>2, <1>3 DEF Range
  <2> QED BY <2>1, <1>1, <1>3
<1>4. CASE I # {}
  <2>1. Min(I) \in I
    <3>1. I \subseteq Nat OBVIOUS
    <3> HIDE DEF I
    <3> QED BY <3>1, <1>4, MinIn
  <2>2. Min(I) \in 1..Len(list) /\ Fits(list[Min(I)], name, uuid) BY <2>1
  <2> HIDE DEF I
  <2>3. multirom_get_rom(list, name, uuid) = list[Min(I)] BY <2>2, <1>1, <1>4
  <2>4. list[Min(I)] \in Range(list) BY <2>2, <1>2 DEF Range
  <2> QED BY <2>2, <2>3, <2>4
<1> QED BY <1>3, <1>4

LEMMA OneOfThem ==
    ASSUME NEW S, NEW list \in Seq(S), NEW name, NEW uuid
    PROVE  multirom_get_rom(list, name, uuid) \in Range(list) \cup {NoRom}
<1>1. CASE uuid = NoPart /\ name = Internal BY <1>1, InternalFound DEF multirom_get_rom
<1>2. CASE ~(uuid = NoPart /\ name = Internal) BY <1>2, RomFound
<1> QED BY <1>1, <1>2

-----------------------------------------------------------------------------
\* What is among S, in the order of the list.
AmongStep(n, list, S, h) ==
    /\ h[0] = <<>>
    /\ \A k \in 1..n : h[k] = IF list[k] \in S THEN Append(h[k - 1], list[k]) ELSE h[k - 1]
    /\ Among(list, S) = h[n]

LEMMA AmongSteps ==
    ASSUME NEW T, NEW n \in Nat, NEW list \in [1..n -> T], NEW S
    PROVE  \E h : AmongStep(n, list, S, h)
<1> DEFINE Op(l, x) == IF x \in S THEN Append(l, x) ELSE l
           F == [p \in Seq(T) \X (1..n) |-> Op(p[1], list[p[2]])]
           P(g) == g = [s \in SUBSET (1..n) |-> IF s = {} THEN <<>> ELSE Op(g[s \ {Max(s)}], list[Max(s)])]
           iter == CHOOSE g : P(g)
<1>1. F \in [Seq(T) \X (1..n) -> Seq(T)]
  <2> SUFFICES ASSUME NEW v \in Seq(T), NEW k \in 1..n PROVE Op(v, list[k]) \in Seq(T) OBVIOUS
  <2>1. list[k] \in T OBVIOUS
  <2> QED BY <2>1, AppendProperties
<1>2. \E g : P(g)
  <2>1. <<>> \in Seq(T) OBVIOUS
  <2>2. PICK g : FoldsUp(n, Seq(T), <<>>, F, g)
    <3> HIDE DEF F
    <3> QED BY <1>1, <2>1, FoldExists
  <2>3. /\ g \in [SUBSET (1..n) -> Seq(T)]
        /\ \A s \in SUBSET (1..n) : g[s] = IF s = {} THEN <<>> ELSE F[<<g[s \ {Max(s)}], Max(s)>>]
    <3> HIDE DEF F
    <3> QED BY <2>2 DEF FoldsUp
  <2>4. ASSUME NEW s \in SUBSET (1..n), s # {}
        PROVE  F[<<g[s \ {Max(s)}], Max(s)>>] = Op(g[s \ {Max(s)}], list[Max(s)])
    <3>1. Max(s) \in 1..n BY <2>4, MaxIn
    <3>2. g[s \ {Max(s)}] \in Seq(T) BY <2>3
    <3> QED BY <3>1, <3>2
  <2> HIDE DEF F, Op
  <2>5. g = [s \in SUBSET (1..n) |-> IF s = {} THEN <<>> ELSE Op(g[s \ {Max(s)}], list[Max(s)])]
    BY <2>3, <2>4
  <2> QED BY <2>5
<1>3. P(iter)
  <2> HIDE DEF P
  <2> QED BY <1>2
<1>4. Among(list, S) = iter[1..n]
  <2>1. DOMAIN list = 1..n OBVIOUS
  <2> QED BY <2>1 DEF Among, FoldLeft, MapThenFoldSet
<1>5. \A s \in SUBSET (1..n) : iter[s] = IF s = {} THEN <<>> ELSE Op(iter[s \ {Max(s)}], list[Max(s)])
  <2> HIDE DEF iter, Op
  <2> QED BY <1>3
<1> DEFINE h == [k \in 0..n |-> iter[1..k]]
<1>6. h[0] = <<>>
  <2> HIDE DEF iter
  <2>1. 1..0 = {} /\ 1..0 \in SUBSET (1..n) /\ 0 \in 0..n OBVIOUS
  <2> QED BY <2>1, <1>5
<1>7. ASSUME NEW k \in 1..n PROVE h[k] = Op(h[k - 1], list[k])
  <2> HIDE DEF iter, Op
  <2>1. k \in 0..n /\ k - 1 \in 0..n /\ 1..k \in SUBSET (1..n) /\ 1..k # {} /\ (1..k) \ {k} = 1..(k - 1)
    BY FirstOnes
  <2>2. Max(1..k) = k BY MaxUpTo
  <2>3. iter[1..k] = Op(iter[(1..k) \ {Max(1..k)}], list[Max(1..k)]) BY <2>1, <1>5
  <2> QED BY <2>1, <2>2, <2>3
<1>8. h[n] = iter[1..n] OBVIOUS
<1> HIDE DEF iter, h
<1> QED BY <1>4, <1>6, <1>7, <1>8 DEF AmongStep

LEMMA AmongThem ==
    ASSUME NEW T, NEW list \in Seq(T), NEW S
    PROVE  Among(list, S) \in Seq(T) /\ Range(Among(list, S)) = Range(list) \cap S
<1> DEFINE n == Len(list)
<1>1. n \in Nat /\ list \in [1..n -> T] /\ DOMAIN list = 1..n OBVIOUS
<1>2. PICK h : AmongStep(n, list, S, h)
  <2> HIDE DEF n
  <2> QED BY <1>1, AmongSteps
<1> HIDE DEF n
<1>3. /\ h[0] = <<>> /\ Among(list, S) = h[n]
      /\ \A k \in 1..n : h[k] = IF list[k] \in S THEN Append(h[k - 1], list[k]) ELSE h[k - 1]
  BY <1>2 DEF AmongStep
<1> DEFINE First(k) == {list[i] : i \in 1..k}
           Fine(l, k) == l \in Seq(T) /\ Range(l) = First(k) \cap S
           K == {k \in 0..n : Fine(h[k], k)}
<1>4. 0 \in K
  <2>1. First(0) = {} OBVIOUS
  <2>2. 0 \in 0..n BY <1>1
  <2>3. <<>> \in Seq(T) /\ Range(<<>>) = {} BY DEF Range
  <2> HIDE DEF First
  <2> QED BY <2>1, <2>2, <2>3, <1>3
<1>5. ASSUME NEW k \in 0..(n - 1), k \in K PROVE k + 1 \in K
  <2>1. k + 1 \in 1..n /\ k + 1 \in 0..n /\ k + 1 - 1 = k /\ k \in Nat BY <1>1
  <2>2. h[k + 1] = IF list[k + 1] \in S THEN Append(h[k], list[k + 1]) ELSE h[k] BY <2>1, <1>3
  <2>3. First(k + 1) = First(k) \cup {list[k + 1]}
    <3>1. 1..(k + 1) = (1..k) \cup {k + 1} BY <2>1
    <3> QED BY <3>1
  <2>4. Fine(h[k], k) BY <1>5
  <2>5. list[k + 1] \in T BY <2>1, <1>1
  <2> HIDE DEF First
  <2>6. CASE list[k + 1] \in S
    <3> DEFINE l == h[k]
               e == list[k + 1]
    <3>1. l \in Seq(T) /\ e \in T BY <2>4, <2>5
    <3> HIDE DEF l, e
    <3>2. Append(l, e) \in Seq(T) /\ Range(Append(l, e)) = Range(l) \cup {e}
      <4>1. /\ Append(l, e) \in Seq(T) /\ Len(Append(l, e)) = Len(l) + 1
            /\ \A i \in 1..Len(l) : Append(l, e)[i] = l[i]
            /\ Append(l, e)[Len(l) + 1] = e
        BY <3>1, AppendProperties
      <4>2. Len(l) \in Nat /\ DOMAIN l = 1..Len(l) /\ DOMAIN Append(l, e) = 1..(Len(l) + 1) BY <3>1, <4>1
      <4>3. 1..(Len(l) + 1) = (1..Len(l)) \cup {Len(l) + 1} BY <4>2
      <4> QED BY <4>1, <4>2, <4>3 DEF Range
    <3> QED BY <3>2, <2>1, <2>2, <2>3, <2>4, <2>6 DEF l, e
  <2>7. CASE list[k + 1] \notin S BY <2>7, <2>1, <2>2, <2>3, <2>4
  <2> QED BY <2>6, <2>7
<1>6. n \in K
  <2> HIDE DEF K
  <2>1. \A k \in 0..n : k \in K BY <1>1, <1>4, <1>5, UpTo
  <2> QED BY <2>1, <1>1
<1>7. First(n) = Range(list) BY <1>1 DEF Range
<1> HIDE DEF First
<1> QED BY <1>3, <1>6, <1>7

-----------------------------------------------------------------------------
\* The list of ROMs, the partitions and what points to them.
NamesAt(place) == IF place = Storage THEN Range(OnStorage) ELSE Range(OnDrive[place])
Names == {"none"} \cup UNION {NamesAt(place) : place \in Places}
KnownRoms == {r \in [name : STRING, place : Places, part : Nat, born : Nat] : r.name \in NamesAt(r.place)}
Parts == [drive : Range(Drives), born : Nat]

Early == {"load", "loaded", "ui", "picked", "asking", "answered", "leaving", "chosen"}
ByKexec == {"kexec", "fill", "exec"}
Rooting == {"fstab", "folders", "treble", "firmware", "media", "quirks", "patch", "write"}
Working == {"root"} \cup ByKexec \cup Rooting \cup {"keep", "save", "failed"}
Over == {"reboot", "kexeced", "started", "ended", "undefined", "hung"}
Unchosen == {"load", "loaded", "ui", "ended", "undefined", "hung"}
Watching == {"ui", "picked", "asking", "answered", "leaving", "undefined"}
Pending == {"picked", "asking", "answered"}
Shown == Pending \cup {"ui", "leaving"}

\* A ROM of the storage that is pointed to is in the list.
Lasts(r) == OnUsb(r) \/ r \in Range(roms)

\* Every ROM that is pointed to is one of a directory; from the choice on there is one; all
\* partitions are of one search, and mounted; the watcher goes with the UI, which a second
\* boot does not show.
PartsInv ==
    /\ plugged \subseteq Range(Drives) /\ updates \in Nat /\ scans \in Nat
    /\ partitions \in Seq(Parts)
    /\ \A p, q \in Range(partitions) : p.born = q.born
    /\ \A p \in Range(partitions) : p.drive \in mounted

PointersInv ==
    /\ roms \in Seq(KnownRoms)
    /\ current_rom \in KnownRoms \cup {NoRom}
    /\ auto_boot_rom \in KnownRoms \cup {NoRom}
    /\ stage = "loaded" => current_rom \in KnownRoms
    /\ auto_boot_rom = NoRom \/ Lasts(auto_boot_rom)

StageInv ==
    /\ stage \in Early \cup Working \cup Over
    /\ stage \notin Unchosen => selected_rom \in KnownRoms
    /\ watcher # "none" => stage \in Watching
    /\ stage \in Pending => Lasts(selected_rom)
    /\ second_boot => stage \notin Shown

ListInv == PartsInv /\ PointersInv /\ StageInv

\* What a second boot is for is a ROM of a directory, and multirom.ini, if it was written,
\* names it until the list has been read; then the current ROM is that one, or Internal, and
\* with Internal the no-kexec workaround goes no further.
InLine == "save" \notin ini_fails
Late == {"chosen"} \cup Working

WishInv ==
    /\ wanted \in [rom : Names, part : Range(Drives) \cup {NoPart}]
    /\ wanted # NoWish => wanted.rom \in NamesAt(IF wanted.part = NoPart THEN Storage ELSE wanted.part)
    /\ stage \in {"reboot", "kexeced"} => partitions = <<>>
    /\ stage \in {"reboot", "kexeced"} /\ wanted # NoWish /\ InLine => ini.rom = wanted.rom /\ ini.part = wanted.part
    /\ stage \in {"load", "loaded"} /\ second_boot => wanted # NoWish
    /\ stage \in {"load", "loaded"} /\ second_boot /\ InLine => ini.rom = wanted.rom /\ ini.part = wanted.part
    /\ stage = "load" /\ second_boot => mounted = {}
    /\ stage = "loaded" /\ second_boot /\ ini_fails = {} /\ wanted.part \in mounted \cup {NoPart} =>
          Saved(current_rom) = wanted
    /\ stage = "loaded" /\ second_boot /\ InLine => Saved(current_rom) = wanted \/ IsDefault(current_rom)
    /\ stage \in Late /\ second_boot /\ mr_no_kexec /\ InLine => Saved(selected_rom) = wanted

\* The root file system and the job, by how far multirom_prep_android_mounts has come.
Paths == {"/data", "/dummy_tmpfs"} \cup UNION {Range(tab) : tab \in RootFstabs \cup VendorFstabs}
Entries == [path : Paths, off : BOOLEAN, skipped : BOOLEAN]
Tabs == Seq(Entries)
Media == {"none", "/data/media", "/data/media/0"}
Lines == {"layout trigger", "firmware trigger", "firmware context"}
Words == {"rom", "bootloader", "primary", "mrom_kexecd=1", "base_cmdline", "img_cmdline", "dir_cmdline"}

RootType ==
    root \in [tree : [Range(Folders) -> {"primary", "rom", "dtb"}], dtb : {"none", "shown", "hidden"},
              fstab : [root : Tabs, vendor : Tabs], named : {"any", "root", "vendor"},
              processed : {"none", "root", "vendor"}, media : Media, sought : Media, added : SUBSET Lines,
              relabels : BOOLEAN, keep_realdata : BOOLEAN]

JobType ==
    job \in [exit : SUBSET {"umount", "reboot", "kexec"}, rc : SUBSET Lines, fw_part : BOOLEAN, done : 0..4,
             loop_mounted : BOOLEAN, kernel : [of : Names, cmdline : SUBSET Words]]

\* An fstab that counts as processed mounts nothing of the primary's, and passes its /data over;
\* the one of the ramdisk is not processed when init.rc names the vendor's.
Sound(tab) == Quiet(tab) /\ \E i \in DOMAIN tab : tab[i].skipped

FstabInv ==
    /\ root.processed # "none" => Sound(root.fstab[root.processed])
    /\ root.processed = "root" => root.named # "vendor"

\* The ROM's firmware is asked for by fw_part, then by s->rc, then by what was written.
Firmware == {"firmware trigger", "firmware context"}
WantsFirmware == root.processed # "none" /\ has_fw /\ Lists(root.fstab[root.processed], "/firmware")

Rooted(i) == \A k \in 1..i : Folders[k] # "vendor" => SkipsFolder(Folders[k]) \/ root.tree[Folders[k]] = "rom"

\* What has been done by the time the stage is left that the name tells.
Foldered == Rooted(4) /\ ("device tree" \notin slips => root.dtb # "shown")
Mediated == root.media = root.sought
Quirked == "contexts" \notin slips => ~root.relabels
Added == "rc" \notin slips => Asked \subseteq root.added

RootDone == Foldered /\ root.processed # "none" /\ Mediated /\ Quirked /\ Added

RootInv ==
    /\ stage \in Rooting => job.exit = {} /\ IsAndroid(selected_rom)
    /\ stage = "fstab" => root.processed = "none" /\ job.done = 0
    /\ stage = "folders" => Rooted(job.done)
    /\ stage \in {"folders", "treble", "firmware"} /\ WantsFirmware => job.fw_part
    /\ stage \in {"treble", "firmware", "media", "quirks", "patch", "write"} => Foldered
    /\ stage \in {"firmware", "media", "quirks", "patch", "write"} => root.processed # "none"
    /\ stage \in {"media", "quirks", "patch", "write"} /\ WantsFirmware => Firmware \subseteq job.rc
    /\ stage \in {"quirks", "patch", "write"} => Mediated
    /\ stage \in {"quirks", "patch", "write"} /\ root.sought = "/data/media/0" => "layout trigger" \in job.rc
    /\ stage \in {"patch", "write"} => Quirked

\* By which way multirom() ends: with the root, with a kernel, or with what was flashed.
WayInv ==
    /\ stage \in Early => root = FreshRoot /\ job = FreshJob /\ slips = {}
    /\ stage \in ByKexec \cup {"root"} => job.exit = {"umount"} /\ root = FreshRoot /\ job.done = 0
    /\ stage = "fill" => IsAndroid(selected_rom) \/ IsLinux(selected_rom)
    /\ stage = "exec" => KernelWhole
    /\ stage = "keep" => IsAndroid(selected_rom) /\ (job.exit = {} \/ "kexec" \in job.exit)
    /\ stage \in {"keep", "save"} /\ "kexec" \in job.exit => KernelWhole
    /\ stage \in {"keep", "save"} /\ job.exit = {} => RootDone
    /\ stage = "save" /\ IsAndroid(selected_rom) => job.exit = {} \/ "kexec" \in job.exit \/ "reboot" \in job.exit
    /\ stage = "save" /\ IsAndroid(selected_rom) /\ job.exit = {} /\ OnUsb(selected_rom) =>
          Partition(selected_rom) \in Range(partitions) \cap kept
    /\ stage = "kexeced" => KernelWhole
    /\ stage = "started" /\ IsAndroid(selected_rom) => RootDone /\ root.keep_realdata /\ DriveHeld
    /\ OnlyDrivesDangle

PrepInv == RootType /\ JobType /\ FstabInv /\ RootInv /\ WayInv
Inv == ListInv /\ WishInv /\ PrepInv

-----------------------------------------------------------------------------
\* Drives, ROMs and their lists.
LEMMA DrivesApart ==
    /\ Storage \notin Range(Drives) /\ NoPart \notin Range(Drives) /\ NoPart \notin Places /\ Storage # NoPart
    /\ Range(Drives) \subseteq STRING
<1>1. /\ Storage \notin Range(Drives) /\ NoPart \notin Range(Drives) /\ Drives \in Seq(STRING)
  BY UsbRomsAssumption
<1>2. Storage # NoPart BY DEF Storage, NoPart
<1> QED BY <1>1, <1>2 DEF Places, Range

LEMMA NamesAre ==
    ASSUME NEW place \in Places
    PROVE  NamesAt(place) \subseteq STRING
<1>1. OnStorage \in Seq(STRING) /\ OnDrive \in [Range(Drives) -> Seq(STRING)] BY UsbRomsAssumption
<1>2. ASSUME NEW l \in Seq(STRING) PROVE Range(l) \subseteq STRING BY DEF Range
<1>3. CASE place = Storage BY <1>1, <1>2, <1>3 DEF NamesAt
<1>4. CASE place # Storage
  <2>1. OnDrive[place] \in Seq(STRING) BY <1>1, <1>4 DEF Places
  <2> QED BY <2>1, <1>2, <1>4 DEF NamesAt
<1> QED BY <1>3, <1>4

LEMMA RomKnown ==
    ASSUME NEW place \in Places, NEW name \in NamesAt(place), NEW part \in Nat, NEW born \in Nat
    PROVE  /\ Rom(name, place, part, born) \in KnownRoms
           /\ Rom(name, place, part, born).name = name /\ Rom(name, place, part, born).place = place
BY NamesAre DEF Rom, KnownRoms

LEMMA KnownFields ==
    ASSUME NEW r \in KnownRoms
    PROVE  /\ r.name \in STRING /\ r.place \in Places /\ r.name \in NamesAt(r.place) /\ r.part \in Nat
           /\ r # NoRom
<1>1. r.name \in STRING /\ r.place \in Places /\ r.name \in NamesAt(r.place) /\ r.part \in Nat BY DEF KnownRoms
<1>2. NoRom.place = NoPart BY DEF NoRom, Rom
<1> QED BY <1>1, <1>2, DrivesApart

LEMMA StoredKnown ==
    /\ StoredRoms \in Seq(KnownRoms)
    /\ \A r \in Range(StoredRoms) : r.place = Storage
    /\ \A name \in NamesAt(Storage) : \E r \in Range(StoredRoms) : r.name = name /\ r.place = Storage
<1>1. OnStorage \in Seq(STRING) BY UsbRomsAssumption
<1>2. DOMAIN OnStorage = 1..Len(OnStorage) /\ Len(OnStorage) \in Nat BY <1>1
<1>3. Storage \in Places /\ NamesAt(Storage) = Range(OnStorage) BY DEF Places, NamesAt
<1>4. ASSUME NEW i \in DOMAIN OnStorage
      PROVE  /\ Rom(OnStorage[i], Storage, 0, 0) \in KnownRoms
             /\ Rom(OnStorage[i], Storage, 0, 0).name = OnStorage[i] /\ Rom(OnStorage[i], Storage, 0, 0).place = Storage
  <2>1. OnStorage[i] \in NamesAt(Storage) BY <1>3 DEF Range
  <2> QED BY <2>1, <1>3, RomKnown
<1>5. StoredRoms \in Seq(KnownRoms) /\ DOMAIN StoredRoms = DOMAIN OnStorage
      /\ \A i \in DOMAIN OnStorage : StoredRoms[i] = Rom(OnStorage[i], Storage, 0, 0)
  BY <1>2, <1>4 DEF StoredRoms
<1>6. \A r \in Range(StoredRoms) : r.place = Storage BY <1>4, <1>5 DEF Range
<1>7. ASSUME NEW name \in NamesAt(Storage) PROVE \E r \in Range(StoredRoms) : r.name = name /\ r.place = Storage
  <2>1. PICK i \in DOMAIN OnStorage : OnStorage[i] = name BY <1>3 DEF Range
  <2>2. StoredRoms[i] \in Range(StoredRoms) BY <1>5 DEF Range
  <2> QED BY <2>1, <2>2, <1>4, <1>5
<1> QED BY <1>5, <1>6, <1>7

LEMMA ScanKnown ==
    ASSUME NEW p \in Parts, NEW born \in Nat
    PROVE  /\ multirom_scan_partition_for_roms(p, born) \in Seq(KnownRoms)
           /\ \A r \in Range(multirom_scan_partition_for_roms(p, born)) : r.place = p.drive
           /\ \A name \in NamesAt(p.drive) :
                 \E r \in Range(multirom_scan_partition_for_roms(p, born)) : r.name = name /\ r.place = p.drive
<1> DEFINE d == p.drive
           names == OnDrive[d]
           scan == multirom_scan_partition_for_roms(p, born)
<1>1. d \in Range(Drives) /\ p.born \in Nat BY DEF Parts
<1>2. names \in Seq(STRING) BY <1>1, UsbRomsAssumption
<1>3. DOMAIN names = 1..Len(names) /\ Len(names) \in Nat BY <1>2
<1>4. d \in Places /\ NamesAt(d) = Range(names)
  <2>1. d # Storage BY <1>1, DrivesApart
  <2> QED BY <2>1, <1>1 DEF Places, NamesAt
<1>5. DOMAIN scan = DOMAIN names /\ \A i \in DOMAIN names : scan[i] = Rom(names[i], d, p.born, born)
  BY DEF multirom_scan_partition_for_roms
<1> HIDE DEF d, names, scan
<1>6. ASSUME NEW i \in DOMAIN names
      PROVE  scan[i] \in KnownRoms /\ scan[i].name = names[i] /\ scan[i].place = d
  <2>1. names[i] \in NamesAt(d) BY <1>4 DEF Range
  <2>2. /\ Rom(names[i], d, p.born, born) \in KnownRoms
        /\ Rom(names[i], d, p.born, born).name = names[i] /\ Rom(names[i], d, p.born, born).place = d
    BY <2>1, <1>1, <1>4, RomKnown
  <2> QED BY <2>2, <1>5
<1>7. scan = [i \in 1..Len(names) |-> Rom(names[i], d, p.born, born)]
  BY <1>3 DEF multirom_scan_partition_for_roms, scan, names, d
<1>8. scan \in Seq(KnownRoms) BY <1>3, <1>5, <1>6, <1>7
<1>9. \A r \in Range(scan) : r.place = d BY <1>5, <1>6 DEF Range
<1>10. ASSUME NEW name \in NamesAt(d) PROVE \E r \in Range(scan) : r.name = name /\ r.place = d
  <2>1. PICK i \in DOMAIN names : names[i] = name BY <1>4 DEF Range
  <2>2. scan[i] \in Range(scan) BY <1>5 DEF Range
  <2> QED BY <2>1, <2>2, <1>6
<1> QED BY <1>8, <1>9, <1>10 DEF scan, d

LEMMA ScansKnown ==
    ASSUME NEW parts \in Seq(Parts), NEW born \in Nat
    PROVE  ScanAll(parts, born) \in Seq(KnownRoms)
<1> DEFINE listed == [i \in DOMAIN parts |-> multirom_scan_partition_for_roms(parts[i], born)]
<1>1. DOMAIN parts = 1..Len(parts) /\ Len(parts) \in Nat OBVIOUS
<1>2. ASSUME NEW i \in DOMAIN parts PROVE multirom_scan_partition_for_roms(parts[i], born) \in Seq(KnownRoms)
  <2>1. parts[i] \in Parts BY <1>1
  <2> QED BY <2>1, ScanKnown
<1>3. listed \in Seq(Seq(KnownRoms)) BY <1>1, <1>2
<1> HIDE DEF listed
<1>4. FlattenSeq(listed) \in Seq(KnownRoms) BY <1>3, Flattened
<1> QED BY <1>4 DEF ScanAll, listed

\* Lists put one after the other.
LEMMA JoinedAre ==
    ASSUME NEW T, NEW a \in Seq(T), NEW b \in Seq(T)
    PROVE  a \o b \in Seq(T) /\ Range(a \o b) = Range(a) \cup Range(b)
<1> DEFINE c == a \o b
<1>1. /\ c \in Seq(T) /\ Len(c) = Len(a) + Len(b) /\ Len(a) \in Nat /\ Len(b) \in Nat
      /\ \A i \in 1..(Len(a) + Len(b)) : c[i] = IF i <= Len(a) THEN a[i] ELSE b[i - Len(a)]
      /\ DOMAIN a = 1..Len(a) /\ DOMAIN b = 1..Len(b) /\ DOMAIN c = 1..(Len(a) + Len(b))
  OBVIOUS
<1> HIDE DEF c
<1>2. ASSUME NEW i \in DOMAIN c PROVE c[i] \in Range(a) \cup Range(b)
  <2>1. CASE i <= Len(a)
    <3>1. i \in DOMAIN a /\ c[i] = a[i] BY <2>1, <1>1
    <3> QED BY <3>1 DEF Range
  <2>2. CASE ~(i <= Len(a))
    <3>1. i - Len(a) \in DOMAIN b /\ c[i] = b[i - Len(a)] BY <2>2, <1>1
    <3> QED BY <3>1 DEF Range
  <2> QED BY <2>1, <2>2
<1>3. ASSUME NEW i \in DOMAIN a PROVE a[i] \in Range(c)
  <2>1. i \in DOMAIN c /\ c[i] = a[i] BY <1>1
  <2> QED BY <2>1 DEF Range
<1>4. ASSUME NEW i \in DOMAIN b PROVE b[i] \in Range(c)
  <2>1. i + Len(a) \in DOMAIN c /\ ~(i + Len(a) <= Len(a)) /\ i + Len(a) - Len(a) = i BY <1>1
  <2>2. c[i + Len(a)] = b[i] BY <2>1, <1>1
  <2> QED BY <2>1, <2>2 DEF Range
<1>5. Range(c) = Range(a) \cup Range(b) BY <1>2, <1>3, <1>4 DEF Range
<1> QED BY <1>1, <1>5 DEF c

-----------------------------------------------------------------------------
\* Looking for partitions and for ROMs.
LEMMA PartitionsFound ==
    ASSUME NEW fails, updates \in Nat, multirom_update_partitions(fails)
    PROVE  /\ updates' = updates + 1 /\ updates' \in Nat
           /\ partitions' \in Seq(Parts)
           /\ \A p, q \in Range(partitions') : p.born = q.born
           /\ \A p \in Range(partitions') : p.drive \in mounted'
           /\ mounted = {} => \A d \in mounted' : d \in Range(Drives) /\ d \in plugged \ fails
<1> DEFINE S == {d \in Range(Drives) : multirom_mount_usb(d, fails)}
           there == Among(Drives, S)
           gone == {p.drive : p \in Range(partitions) \ kept}
<1>1. /\ updates' = updates + 1
      /\ partitions' = [i \in DOMAIN there |-> [drive |-> there[i], born |-> updates + 1]]
      /\ mounted' = (mounted \ gone) \cup Range(there)
  BY DEF multirom_update_partitions
<1>2. updates + 1 \in Nat OBVIOUS
<1>3. there \in Seq(Range(Drives)) /\ Range(there) = S
  <2>1. Drives \in Seq(Range(Drives))
    <3>1. Drives \in Seq(STRING) BY UsbRomsAssumption
    <3> QED BY <3>1 DEF Range
  <2> HIDE DEF S
  <2>2. there \in Seq(Range(Drives)) /\ Range(there) = Range(Drives) \cap S BY <2>1, AmongThem
  <2> QED BY <2>2 DEF S
<1> HIDE DEF there, gone
<1>4. DOMAIN there = 1..Len(there) /\ Len(there) \in Nat BY <1>3
<1>5. ASSUME NEW i \in DOMAIN there
      PROVE  [drive |-> there[i], born |-> updates + 1] \in Parts /\ there[i] \in Range(there)
  <2>1. there[i] \in Range(Drives) BY <1>3, <1>4
  <2> QED BY <2>1, <1>2 DEF Parts, Range
<1>6. partitions' \in Seq(Parts) BY <1>1, <1>4, <1>5
<1>7. \A p \in Range(partitions') : p.born = updates + 1 /\ p.drive \in Range(there)
  BY <1>1, <1>5 DEF Range
<1>8. mounted = {} => mounted' = Range(there) BY <1>1
<1>9. \A d \in Range(there) : d \in Range(Drives) /\ d \in plugged \ fails
  BY <1>3 DEF multirom_mount_usb
<1> QED BY <1>1, <1>2, <1>6, <1>7, <1>8, <1>9

LEMMA LooksUp ==
    ASSUME NEW list \in Seq(KnownRoms), NEW name, NEW uuid
    PROVE  /\ multirom_get_rom(list, name, uuid) \in KnownRoms \cup {NoRom}
           /\ multirom_get_internal(list) \in KnownRoms \cup {NoRom}
           /\ OrInternal(multirom_get_rom(list, name, uuid), list) \in KnownRoms \cup {NoRom}
<1>1. Range(list) \subseteq KnownRoms BY DEF Range
<1>2. multirom_get_rom(list, name, uuid) \in KnownRoms \cup {NoRom} BY <1>1, OneOfThem
<1>3. multirom_get_internal(list) \in KnownRoms \cup {NoRom} BY <1>1, InternalFound
<1> QED BY <1>2, <1>3 DEF OrInternal

\* With the storage's ROMs in the list there is an Internal.
LEMMA InternalThere ==
    ASSUME NEW list \in Seq(KnownRoms), Range(StoredRoms) \subseteq Range(list)
    PROVE  /\ multirom_get_internal(list) \in Range(list) /\ multirom_get_internal(list) \in KnownRoms
           /\ IsDefault(multirom_get_internal(list))
<1>1. Internal \in NamesAt(Storage) BY UsbRomsAssumption DEF NamesAt
<1>2. PICK r \in Range(StoredRoms) : r.name = Internal /\ r.place = Storage BY <1>1, StoredKnown
<1>3. ~OnUsb(r) BY <1>2, DrivesApart DEF OnUsb
<1>4. IsDefault(r) /\ r \in Range(list) BY <1>2, <1>3, DefaultIs
<1>5. multirom_get_internal(list) \in Range(list) /\ IsDefault(multirom_get_internal(list)) BY <1>4, InternalFound
<1> QED BY <1>5 DEF Range

LEMMA LoadLists ==
    ASSUME NEW fails, NEW opens \in BOOLEAN, Inv, multirom_load_status(fails, opens)
    PROVE  /\ roms' \in Seq(KnownRoms) /\ Range(StoredRoms) \subseteq Range(roms')
           /\ PartsInv'
           /\ ~opens \/ ini.part = NoPart => mounted' = mounted /\ roms' = StoredRoms
           /\ opens /\ ini.part # NoPart => \A d \in mounted' : mounted = {} => d \in Range(Drives) /\ d \in plugged \ fails
           /\ opens /\ ini.part # NoPart /\ ini.part \in Range(Drives) /\ ini.part \in plugged \ fails =>
                 \A name \in NamesAt(ini.part) : \E r \in Range(roms') : r.name = name /\ r.place = ini.part
<1>1. /\ plugged \subseteq Range(Drives) /\ updates \in Nat /\ scans \in Nat
      /\ partitions \in Seq(Parts)
      /\ \A p, q \in Range(partitions) : p.born = q.born
      /\ \A p \in Range(partitions) : p.drive \in mounted
  BY DEF Inv, ListInv, PartsInv
<1>2. plugged' = plugged BY DEF multirom_load_status, DrivesAlone
<1>3. StoredRoms \in Seq(KnownRoms) BY StoredKnown
<1>4. CASE ~(opens /\ ini.part # NoPart)
  <2>1. roms' = StoredRoms /\ partitions' = partitions /\ mounted' = mounted /\ updates' = updates /\ scans' = scans
    BY <1>4 DEF multirom_load_status, PartsAlone
  <2>2. PartsInv' BY <2>1, <1>1, <1>2 DEF PartsInv
  <2> QED BY <2>1, <2>2, <1>3, <1>4
<1>5. CASE opens /\ ini.part # NoPart
  <2>1. multirom_update_partitions(fails) /\ scans' = scans + 1
    BY <1>5 DEF multirom_load_status, multirom_update_and_scan_for_external_roms
  <2>2. /\ updates' \in Nat /\ partitions' \in Seq(Parts)
        /\ \A p, q \in Range(partitions') : p.born = q.born
        /\ \A p \in Range(partitions') : p.drive \in mounted'
        /\ mounted = {} => \A d \in mounted' : d \in Range(Drives) /\ d \in plugged \ fails
    BY <2>1, <1>1, PartitionsFound
  <2>3. scans' \in Nat BY <2>1, <1>1
  <2>4. PartsInv' BY <2>2, <2>3, <1>1, <1>2 DEF PartsInv
  <2> DEFINE p == [drive |-> ini.part, born |-> updates']
             more == IF DriveFound(fails) THEN multirom_scan_partition_for_roms(p, scans') ELSE <<>>
  <2>5. roms' = StoredRoms \o more
    BY <1>5 DEF multirom_load_status, multirom_update_and_scan_for_external_roms
  <2>6. CASE DriveFound(fails)
    <3>1. ini.part \in Range(Drives) BY <2>6, <1>1 DEF DriveFound
    <3>2. p \in Parts /\ p.drive = ini.part BY <3>1, <2>2 DEF Parts
    <3>3. more = multirom_scan_partition_for_roms(p, scans') BY <2>6
    <3> HIDE DEF p, more
    <3>4. /\ more \in Seq(KnownRoms)
          /\ \A name \in NamesAt(ini.part) : \E r \in Range(more) : r.name = name /\ r.place = ini.part
      <4>1. /\ multirom_scan_partition_for_roms(p, scans') \in Seq(KnownRoms)
            /\ \A name \in NamesAt(p.drive) :
                  \E r \in Range(multirom_scan_partition_for_roms(p, scans')) : r.name = name /\ r.place = p.drive
        BY <3>2, <2>3, ScanKnown
      <4> QED BY <4>1, <3>2, <3>3
    <3>5. roms' \in Seq(KnownRoms) /\ Range(roms') = Range(StoredRoms) \cup Range(more)
      BY <2>5, <3>4, <1>3, JoinedAre
    <3> QED BY <3>4, <3>5, <2>2, <2>4, <1>5
  <2>7. CASE ~DriveFound(fails)
    <3>1. more = <<>> BY <2>7
    <3>2. ini.part \notin plugged \ fails BY <2>7 DEF DriveFound
    <3> HIDE DEF more
    <3>3. roms' = StoredRoms BY <2>5, <3>1, <1>3
    <3> QED BY <3>2, <3>3, <2>2, <2>4, <1>3, <1>5
  <2> QED BY <2>6, <2>7
<1> QED BY <1>4, <1>5

\* The boot that was wanted finds its ROM by the name and the drive in multirom.ini; if it does
\* not, it is Internal that is booted.
LEMMA LoadFinds ==
    ASSUME NEW fails, NEW opens \in BOOLEAN, Inv, multirom_load_status(fails, opens), second_boot, InLine
    PROVE  /\ Saved(current_rom') = wanted \/ IsDefault(current_rom')
           /\ opens /\ wanted.part \in mounted' \cup {NoPart} => Saved(current_rom') = wanted
<1> DEFINE found == multirom_get_rom(roms', ini.rom, ini.part)
<1>1. /\ wanted \in [rom : Names, part : Range(Drives) \cup {NoPart}] /\ wanted # NoWish
      /\ wanted.rom \in NamesAt(IF wanted.part = NoPart THEN Storage ELSE wanted.part)
      /\ ini.rom = wanted.rom /\ ini.part = wanted.part /\ mounted = {}
  BY DEF Inv, WishInv, multirom_load_status
<1>2. current_rom' = IF opens THEN OrInternal(found, roms') ELSE multirom_get_internal(roms')
  BY DEF multirom_load_status
<1>3. /\ roms' \in Seq(KnownRoms) /\ Range(StoredRoms) \subseteq Range(roms')
      /\ ini.part = NoPart => roms' = StoredRoms
      /\ opens /\ ini.part # NoPart => \A d \in mounted' : d \in Range(Drives) /\ d \in plugged \ fails
      /\ opens /\ ini.part # NoPart /\ ini.part \in Range(Drives) /\ ini.part \in plugged \ fails =>
            \A name \in NamesAt(ini.part) : \E r \in Range(roms') : r.name = name /\ r.place = ini.part
  BY <1>1, LoadLists
<1>4. wanted = [rom |-> wanted.rom, part |-> wanted.part] BY <1>1
<1>5. ASSUME NEW r \in KnownRoms, r.name = wanted.rom,
             IF wanted.part = NoPart THEN ~OnUsb(r) ELSE OnUsb(r) /\ r.place = wanted.part
      PROVE  Saved(r) = wanted
  BY <1>4, <1>5 DEF Saved
<1>6. ASSUME opens, wanted.part \in mounted' \cup {NoPart}
      PROVE  /\ found \in KnownRoms /\ found.name = wanted.rom
             /\ IF wanted.part = NoPart THEN ~OnUsb(found) ELSE OnUsb(found) /\ found.place = wanted.part
  <2>1. CASE wanted.part = NoPart /\ wanted.rom = Internal
    <3>1. found = multirom_get_internal(roms') BY <2>1, <1>1 DEF multirom_get_rom
    <3>2. found \in KnownRoms /\ IsDefault(found) BY <3>1, <1>3, InternalThere
    <3> HIDE DEF found
    <3> QED BY <3>2, <2>1, DefaultIs
  <2>2. CASE wanted.part = NoPart /\ wanted.rom # Internal
    <3>1. roms' = StoredRoms BY <2>2, <1>1, <1>3
    <3>2. PICK r \in Range(StoredRoms) : r.name = wanted.rom /\ r.place = Storage
      BY <2>2, <1>1, StoredKnown
    <3>3. Fits(r, ini.rom, ini.part) /\ r \in Range(roms')
      BY <3>1, <3>2, <2>2, <1>1, DefaultIs DEF Fits
    <3>4. ~(ini.part = NoPart /\ ini.rom = Internal) BY <2>2, <1>1
    <3>5. found \in Range(roms') /\ Fits(found, ini.rom, ini.part)
      BY <3>3, <3>4, <1>3, RomFound
    <3> HIDE DEF found
    <3>6. found.place = Storage BY <3>1, <3>5, StoredKnown
    <3>7. ~OnUsb(found) BY <3>6, DrivesApart DEF OnUsb
    <3>8. found.name = wanted.rom BY <3>5, <1>1 DEF Fits
    <3>9. found \in KnownRoms BY <3>5, <1>3 DEF Range
    <3> QED BY <3>7, <3>8, <3>9, <2>2
  <2>3. CASE wanted.part # NoPart
    <3>1. ini.part # NoPart /\ ini.part \in Range(Drives) /\ ini.part \in plugged \ fails BY <2>3, <1>1, <1>3, <1>6
    <3>2. PICK r \in Range(roms') : r.name = ini.rom /\ r.place = ini.part
      <4>1. ini.rom \in NamesAt(ini.part) BY <2>3, <1>1
      <4> QED BY <4>1, <3>1, <1>3, <1>6
    <3>3. OnUsb(r) BY <3>1, <3>2 DEF OnUsb
    <3>4. Fits(r, ini.rom, ini.part) BY <3>2, <3>3, DefaultIs DEF Fits
    <3>5. found \in Range(roms') /\ Fits(found, ini.rom, ini.part)
      BY <3>1, <3>4, <1>3, RomFound
    <3> HIDE DEF found
    <3>6. found.name = ini.rom /\ found.place = ini.part BY <3>5, <3>1 DEF Fits
    <3>7. OnUsb(found) BY <3>6, <3>1 DEF OnUsb
    <3>8. found \in KnownRoms BY <3>5, <1>3 DEF Range
    <3> QED BY <3>6, <3>7, <3>8, <2>3, <1>1
  <2> QED BY <2>1, <2>2, <2>3
<1>7. ASSUME opens, wanted.part \in mounted' \cup {NoPart} PROVE Saved(current_rom') = wanted
  <2> HIDE DEF found
  <2>1. found # NoRom BY <1>6, <1>7, KnownFields
  <2>2. current_rom' = found BY <1>2, <1>7, <2>1 DEF OrInternal
  <2> QED BY <1>5, <1>6, <1>7, <2>2
<1>8. ASSUME opens, wanted.part \notin mounted' \cup {NoPart}
      PROVE  Saved(current_rom') = wanted \/ IsDefault(current_rom')
  <2>1. ini.part # NoPart /\ ini.part \in Range(Drives) BY <1>1, <1>8
  <2>2. CASE \E r \in Range(roms') : Fits(r, ini.rom, ini.part)
    <3>1. found \in Range(roms') /\ Fits(found, ini.rom, ini.part) BY <2>1, <2>2, <1>3, RomFound
    <3> HIDE DEF found
    <3>2. found \in KnownRoms BY <3>1, <1>3 DEF Range
    <3>3. found.name = ini.rom /\ found.place = ini.part BY <3>1, <2>1 DEF Fits
    <3>4. current_rom' = found BY <3>2, <1>2, <1>8, KnownFields DEF OrInternal
    <3> QED BY <3>2, <3>3, <3>4, <2>1, <1>1, <1>5 DEF OnUsb
  <2>3. CASE ~ \E r \in Range(roms') : Fits(r, ini.rom, ini.part)
    <3>1. found = NoRom BY <2>1, <2>3, <1>3, RomFound
    <3>2. current_rom' = multirom_get_internal(roms') BY <3>1, <1>2, <1>8 DEF OrInternal
    <3> QED BY <3>2, <1>3, InternalThere
  <2> QED BY <2>2, <2>3
<1>9. CASE ~opens BY <1>9, <1>2, <1>3, InternalThere
<1> QED BY <1>7, <1>8, <1>9

LEMMA LoadKeeps ==
    ASSUME NEW fails, NEW opens \in BOOLEAN, Inv, LoadStatus(fails, opens)
    PROVE  ListInv' /\ WishInv'
<1>0. multirom_load_status(fails, opens) BY DEF LoadStatus
<1>1. roms' \in Seq(KnownRoms) /\ Range(StoredRoms) \subseteq Range(roms') /\ PartsInv' BY <1>0, LoadLists
<1>2. stage = "load" /\ stage' = "loaded" /\ watcher' = watcher /\ ini' = ini /\ mr_no_kexec' = mr_no_kexec
  BY <1>0 DEF multirom_load_status, WatcherAlone, IniAlone
<1>3. /\ second_boot' = second_boot /\ wanted' = wanted
      /\ ini_fails' = IF opens THEN ini_fails ELSE ini_fails \cup {"load"}
  BY DEF LoadStatus
<1>4. current_rom' \in KnownRoms /\ current_rom' \in Range(roms')
  <2>1. current_rom' = IF opens THEN OrInternal(multirom_get_rom(roms', ini.rom, ini.part), roms')
                       ELSE multirom_get_internal(roms')
    BY <1>0 DEF multirom_load_status
  <2>2. multirom_get_rom(roms', ini.rom, ini.part) \in Range(roms') \cup {NoRom} BY <1>1, OneOfThem
  <2>3. multirom_get_internal(roms') \in Range(roms') BY <1>1, InternalThere
  <2>4. Range(roms') \subseteq KnownRoms BY <1>1 DEF Range
  <2> QED BY <2>1, <2>2, <2>3, <2>4 DEF OrInternal
<1>5. auto_boot_rom' \in KnownRoms \cup {NoRom} /\ (auto_boot_rom' = NoRom \/ auto_boot_rom' \in Range(roms'))
  <2>1. auto_boot_rom' = IF opens /\ ~ini.last THEN multirom_get_rom(roms', ini.auto, NoPart) ELSE current_rom'
    BY <1>0 DEF multirom_load_status
  <2>2. multirom_get_rom(roms', ini.auto, NoPart) \in Range(roms') \cup {NoRom} BY <1>1, OneOfThem
  <2>3. Range(roms') \subseteq KnownRoms BY <1>1 DEF Range
  <2> QED BY <2>1, <2>2, <2>3, <1>4
<1>6. PointersInv' BY <1>1, <1>4, <1>5 DEF PointersInv, Lasts
<1>7. StageInv'
  <2>1. watcher = "none" BY <1>2 DEF Inv, ListInv, StageInv, Watching
  <2> QED BY <2>1, <1>2 DEF StageInv, Early, Unchosen, Pending, Shown
<1>8. WishInv'
  <2>1. /\ wanted \in [rom : Names, part : Range(Drives) \cup {NoPart}]
        /\ wanted # NoWish => wanted.rom \in NamesAt(IF wanted.part = NoPart THEN Storage ELSE wanted.part)
        /\ second_boot => wanted # NoWish
        /\ second_boot /\ InLine => ini.rom = wanted.rom /\ ini.part = wanted.part
    BY <1>2 DEF Inv, WishInv
  <2>2. (InLine' => InLine) /\ (ini_fails' = {} => InLine /\ opens) BY <1>3 DEF InLine
  <2>3. second_boot /\ InLine' => Saved(current_rom') = wanted \/ IsDefault(current_rom')
    BY <2>2, <1>0, LoadFinds
  <2>4. second_boot /\ ini_fails' = {} /\ wanted.part \in mounted' \cup {NoPart} => Saved(current_rom') = wanted
    BY <2>2, <1>0, LoadFinds
  <2>5. stage' \notin Late BY <1>2 DEF Late, Working, ByKexec, Rooting
  <2> QED BY <2>1, <2>2, <2>3, <2>4, <2>5, <1>2, <1>3 DEF WishInv
<1> QED BY <1>1, <1>6, <1>7, <1>8 DEF ListInv

\* The ROMs of the list that is made anew.
LEMMA RelistsKnown ==
    ASSUME PartsInv, PointersInv, multirom_find_usb_roms
    PROVE  /\ roms' \in Seq(KnownRoms) /\ scans' \in Nat
           /\ current_rom' \in KnownRoms \cup {NoRom} /\ auto_boot_rom' \in KnownRoms \cup {NoRom}
           /\ auto_boot_rom' = NoRom \/ auto_boot_rom' \in Range(roms')
           /\ \A r : Lasts(r) => Lasts(r)'
<1>1. scans \in Nat /\ partitions \in Seq(Parts) /\ roms \in Seq(KnownRoms) BY DEF PartsInv, PointersInv
<1>2. scans + 1 \in Nat BY <1>1
<1>3. ScanAll(partitions, scans + 1) \in Seq(KnownRoms) BY <1>1, <1>2, ScansKnown
<1> DEFINE S == {r \in Range(roms) : ~OnUsb(r)}
<1>4. Among(roms, S) \in Seq(KnownRoms) /\ Range(Among(roms, S)) = S
  <2>1. S \subseteq Range(roms) OBVIOUS
  <2> HIDE DEF S
  <2>2. Among(roms, S) \in Seq(KnownRoms) /\ Range(Among(roms, S)) = Range(roms) \cap S BY <1>1, AmongThem
  <2> QED BY <2>1, <2>2
<1>5. Relisted \in Seq(KnownRoms) /\ S \subseteq Range(Relisted)
  <2>1. Relisted = Among(roms, S) \o ScanAll(partitions, scans + 1) BY DEF Relisted
  <2> HIDE DEF S
  <2> QED BY <2>1, <1>3, <1>4, JoinedAre
<1>6. ASSUME NEW name PROVE Looked(name) \in KnownRoms \cup {NoRom} /\ Looked(name) \in Range(Relisted) \cup {NoRom}
  <2>1. multirom_get_rom(Relisted, name, curr_rom_part) \in Range(Relisted) \cup {NoRom} BY <1>5, OneOfThem
  <2>2. multirom_get_internal(Relisted) \in Range(Relisted) \cup {NoRom} BY <1>5, InternalFound
  <2>3. Range(Relisted) \subseteq KnownRoms BY <1>5 DEF Range
  <2> QED BY <2>1, <2>2, <2>3 DEF Looked, OrInternal
<1>7. roms' = Relisted BY DEF multirom_find_usb_roms
<1>8. ASSUME NEW r, Lasts(r) PROVE OnUsb(r) \/ r \in Range(roms') BY <1>5, <1>7, <1>8 DEF Lasts
<1>9. \A r : Lasts(r) => Lasts(r)' BY <1>8 DEF Lasts
<1> QED BY <1>2, <1>5, <1>6, <1>7, <1>9 DEF multirom_find_usb_roms

-----------------------------------------------------------------------------
\* What a step leaves alone stays true.
LEMMA PartsStay ==
    ASSUME PartsInv, PartsAlone, DrivesAlone, scans' = scans
    PROVE  PartsInv'
BY DEF PartsInv, PartsAlone, DrivesAlone

LEMMA PointersStay ==
    ASSUME PointersInv, RomsAlone, stage' # "loaded"
    PROVE  PointersInv'
BY DEF PointersInv, RomsAlone, Lasts

LEMMA WishStays ==
    ASSUME WishInv, UNCHANGED <<wanted, second_boot, ini, ini_fails, mr_no_kexec>>,
           stage' \notin {"reboot", "kexeced", "load", "loaded"},
           stage' \in Late /\ second_boot /\ mr_no_kexec /\ InLine =>
               Saved(selected_rom') = wanted \/ (stage \in Late /\ selected_rom' = selected_rom)
    PROVE  WishInv'
<1>1. InLine' = InLine BY DEF InLine
<1> QED BY <1>1 DEF WishInv

LEMMA NothingDone ==
    ASSUME PrepInv, UNCHANGED prepVars,
           (stage \in Early /\ stage' \in Early) \/ stage' = "ended" \/ (stage' = "undefined" /\ OnlyDrivesDangle')
    PROVE  PrepInv'
<1>1. RootType' /\ JobType' /\ FstabInv' BY DEF PrepInv, RootType, JobType, FstabInv, prepVars
<1>2. stage' \in Early \cup {"undefined", "ended"} BY DEF Early
<1>3. RootInv' BY <1>2 DEF RootInv, Rooting, Early
<1>4. stage' \in Early => root = FreshRoot /\ job = FreshJob /\ slips = {}
  BY DEF PrepInv, WayInv, Early
<1>5. OnlyDrivesDangle' BY DEF Early, OnlyDrivesDangle
<1>6. WayInv' BY <1>2, <1>4, <1>5 DEF WayInv, Early, ByKexec, prepVars
<1> QED BY <1>1, <1>3, <1>6 DEF PrepInv

\* The UI and its threads.
LEMMA UiKeeps ==
    ASSUME Inv, UNCHANGED prepVars,
           \/ \E d \in Range(Drives) : (Looping \/ stage = "leaving") /\ DriveComesOrGoes(d)
           \/ \E fails \in SUBSET plugged : multirom_usb_refresh_thread_work(fails)
           \/ ShowTab
           \/ Looping /\ watcher # "none" /\ LeaveTab(stage)
           \/ stage = "leaving" /\ LeaveTab("chosen")
           \/ \E r \in Range(roms) : Pick(r)
           \/ AutoBootTick \/ LoopAsks \/ UserAnswers \/ LoopRelists \/ LoopEnds
           \/ SkipUi \/ (~second_boot /\ (BootsAtOnce \/ ShowUi))
    PROVE  Inv'
<1>1. PartsInv /\ PointersInv /\ StageInv /\ WishInv /\ PrepInv BY DEF Inv, ListInv
<1>2. /\ stage \notin Unchosen => selected_rom \in KnownRoms
      /\ watcher # "none" => stage \in Watching
      /\ auto_boot_rom \in KnownRoms \cup {NoRom} /\ roms \in Seq(KnownRoms)
      /\ stage = "loaded" => current_rom \in KnownRoms
      /\ stage \in Pending => Lasts(selected_rom)
      /\ second_boot => stage \notin Shown
      /\ auto_boot_rom = NoRom \/ Lasts(auto_boot_rom)
  BY <1>1 DEF PointersInv, StageInv
<1>3. wanted' = wanted /\ second_boot' = second_boot /\ ini_fails' = ini_fails BY DEF prepVars
<1> DEFINE Goes == (stage \in Early /\ stage' \in Early) \/ stage' = "ended" \/ (stage' = "undefined" /\ OnlyDrivesDangle')
           Wishes == /\ ini' = ini /\ mr_no_kexec' = mr_no_kexec
                     /\ stage' \notin {"reboot", "kexeced", "load", "loaded"}
           Wished == stage' \in Late /\ second_boot /\ mr_no_kexec /\ InLine =>
                        Saved(selected_rom') = wanted \/ (stage \in Late /\ selected_rom' = selected_rom)
<1>16. ASSUME second_boot PROVE Wished /\ stage' \notin Shown
  <2>1. stage \notin Shown BY <1>2, <1>16
  <2>2. CASE SkipUi
    <3>1. /\ stage = "loaded" /\ selected_rom' = current_rom
          /\ stage' = IF mr_no_kexec /\ IsDefault(current_rom) THEN "ended" ELSE "chosen"
      BY <2>2 DEF SkipUi, Step
    <3>2. stage' \notin Shown /\ (stage' = "ended" => stage' \notin Late)
      BY <3>1 DEF Shown, Pending, Late, Working, ByKexec, Rooting
    <3>3. InLine => Saved(current_rom) = wanted \/ IsDefault(current_rom) BY <1>1, <1>16, <3>1 DEF WishInv
    <3> QED BY <3>1, <3>2, <3>3
  <2>3. ASSUME NEW fails \in SUBSET plugged, multirom_usb_refresh_thread_work(fails) PROVE stage' = "undefined"
    <3>1. watcher # "none" /\ stage' = stage BY <2>3 DEF multirom_usb_refresh_thread_work
    <3> QED BY <3>1, <2>1, <1>2 DEF Watching, Shown, Pending
  <2>4. CASE ~SkipUi /\ ~ \E fails \in SUBSET plugged : multirom_usb_refresh_thread_work(fails)
    <3>1. stage \in Shown
      BY <2>4, <1>16 DEF Looping, Shown, Pending, ShowTab, Pick, AutoBootTick, LoopAsks, UserAnswers, LoopRelists, LoopEnds
    <3> QED BY <3>1, <2>1
  <2>5. "undefined" \notin Shown /\ "undefined" \notin Late BY DEF Shown, Pending, Late, Working, ByKexec, Rooting
  <2> QED BY <2>2, <2>3, <2>4, <2>5
<1>4. SUFFICES PartsInv' /\ PointersInv' /\ StageInv' /\ Goes /\ Wishes
  <2>1. WishInv' BY <1>1, <1>3, <1>4, <1>16, WishStays
  <2>2. PrepInv' BY <1>1, <1>4, NothingDone
  <2> QED BY <1>4, <2>1, <2>2 DEF Inv, ListInv
<1>5. ASSUME NEW d \in Range(Drives), Looping \/ stage = "leaving", DriveComesOrGoes(d)
      PROVE  PartsInv' /\ PointersInv' /\ StageInv' /\ Goes /\ Wishes
  <2>1. stage' = stage /\ Goes /\ Wishes BY <1>5 DEF DriveComesOrGoes, Looping, Early, IniAlone
  <2>2. PointersInv' BY <2>1, <1>1, <1>5, PointersStay DEF DriveComesOrGoes
  <2>3. plugged' \subseteq Range(Drives) BY <1>1, <1>5 DEF DriveComesOrGoes, PartsInv
  <2>4. PartsInv' BY <2>3, <1>1, <1>5 DEF DriveComesOrGoes, PartsInv, PartsAlone, RomsAlone
  <2>5. StageInv' BY <1>1, <1>3, <1>5, <1>16 DEF StageInv, DriveComesOrGoes, RomsAlone, Lasts
  <2> QED BY <2>1, <2>2, <2>4, <2>5
<1>6. ASSUME NEW fails \in SUBSET plugged, multirom_usb_refresh_thread_work(fails)
      PROVE  PartsInv' /\ PointersInv' /\ StageInv' /\ Goes /\ Wishes
  <2>1. /\ stage' = stage /\ watcher # "none" /\ selected_rom' = selected_rom /\ plugged' = plugged
        /\ ini' = ini /\ RomsAlone
    BY <1>6 DEF multirom_usb_refresh_thread_work, UiAlone, IniAlone, DrivesAlone
  <2>2. stage \in Watching BY <2>1, <1>2
  <2>7. OnlyDrivesDangle' BY <2>1, <1>1 DEF PrepInv, WayInv, OnlyDrivesDangle, OnUsb, prepVars
  <2>8. mr_no_kexec' = mr_no_kexec BY <1>6 DEF multirom_usb_refresh_thread_work, UiAlone, IniAlone
  <2>3. Goes /\ Wishes BY <2>1, <2>2, <2>7, <2>8 DEF Watching, Early
  <2>4. PointersInv' BY <2>1, <2>3, <1>1, PointersStay
  <2>5. StageInv' BY <2>1, <2>2, <1>1, <1>3, <1>16 DEF StageInv, RomsAlone, Lasts
  <2>6. PartsInv'
    <3>1. CASE multirom_update_partitions(fails)
      <4>1. updates \in Nat /\ scans \in Nat /\ plugged \subseteq Range(Drives) BY <1>1 DEF PartsInv
      <4>2. /\ updates' \in Nat /\ partitions' \in Seq(Parts)
            /\ \A p, q \in Range(partitions') : p.born = q.born
            /\ \A p \in Range(partitions') : p.drive \in mounted'
        BY <3>1, <4>1, PartitionsFound
      <4> QED BY <4>1, <4>2, <2>1 DEF PartsInv, RomsAlone
    <3>2. CASE UiAlone
      <4> QED BY <3>2, <2>1, <1>1, PartsStay DEF UiAlone, RomsAlone
    <3> QED BY <3>1, <3>2, <1>6 DEF multirom_usb_refresh_thread_work
  <2> QED BY <2>3, <2>4, <2>5, <2>6
<1>7. ASSUME UiAlone, RomsAlone, Goes, stage' \notin {"load", "loaded"}
      PROVE  PartsInv' /\ PointersInv' /\ Wishes
  <2>1. Wishes BY <1>7 DEF UiAlone, IniAlone, Early
  <2>2. PointersInv' BY <1>1, <1>7, PointersStay
  <2>3. PartsInv' BY <1>1, <1>7, PartsStay DEF UiAlone, RomsAlone
  <2> QED BY <2>1, <2>2, <2>3
<1>8. ASSUME NEW r \in KnownRoms, Lasts(r), Pick(r) \/ AutoBootTick \/ BootsAtOnce, selected_rom' = r
      PROVE  PartsInv' /\ PointersInv' /\ StageInv' /\ Goes /\ Wishes
  <2>1. UiAlone /\ RomsAlone /\ WatcherAlone
    <3>1. CASE Pick(r) BY <3>1 DEF Pick
    <3>2. CASE AutoBootTick BY <3>2 DEF AutoBootTick
    <3>3. CASE BootsAtOnce BY <3>3 DEF BootsAtOnce
    <3> QED BY <3>1, <3>2, <3>3, <1>8
  <2>2. (stage = "ui" /\ stage' = "picked") \/ (stage = "loaded" /\ stage' = "chosen")
    <3>1. CASE Pick(r) BY <3>1 DEF Pick, Chooses
    <3>2. CASE AutoBootTick BY <3>2 DEF AutoBootTick, Chooses
    <3>3. CASE BootsAtOnce BY <3>3 DEF BootsAtOnce, Chooses
    <3> QED BY <3>1, <3>2, <3>3, <1>8
  <2>3. Goes /\ stage' \notin {"load", "loaded"} BY <2>2 DEF Early
  <2>4. PartsInv' /\ PointersInv' /\ Wishes BY <2>1, <2>3, <1>7
  <2>5. watcher' # "none" => stage' \in Watching BY <2>1, <2>2, <1>2 DEF Watching, WatcherAlone
  <2>6. StageInv' BY <2>1, <2>2, <2>5, <1>3, <1>8, <1>16 DEF StageInv, Early, Pending, RomsAlone, Lasts
  <2> QED BY <2>3, <2>4, <2>6
<1>9. CASE ShowTab \/ (Looping /\ watcher # "none" /\ LeaveTab(stage))
  <2>1. UiAlone /\ RomsAlone /\ stage' = stage /\ selected_rom' = selected_rom /\ Looping
    BY <1>9 DEF ShowTab, LeaveTab
  <2>2. Goes /\ stage' \notin {"load", "loaded"} BY <2>1 DEF Looping, Early
  <2>3. PartsInv' /\ PointersInv' /\ Wishes BY <2>1, <2>2, <1>7
  <2>4. StageInv' BY <2>1, <1>1, <1>3, <1>16 DEF StageInv, Looping, Watching, Early, RomsAlone, Lasts
  <2> QED BY <2>2, <2>3, <2>4
<1>10. CASE stage = "leaving" /\ LeaveTab("chosen")
  <2>1. UiAlone /\ RomsAlone /\ stage' = "chosen" /\ selected_rom' = selected_rom /\ watcher' = "none"
    BY <1>10 DEF LeaveTab
  <2>2. Goes /\ stage' \notin {"load", "loaded"} BY <2>1, <1>10 DEF Early
  <2>3. PartsInv' /\ PointersInv' /\ Wishes BY <2>1, <2>2, <1>7
  <2>4. selected_rom \in KnownRoms BY <1>2, <1>10 DEF Unchosen
  <2>5. StageInv' BY <2>1, <2>4, <1>3, <1>16 DEF StageInv, Early, Pending
  <2> QED BY <2>2, <2>3, <2>5
<1>11. CASE LoopAsks \/ UserAnswers \/ LoopEnds \/ ShowUi
  <2>1. UiAlone /\ RomsAlone /\ selected_rom' = selected_rom /\ watcher' = watcher
    BY <1>11 DEF LoopAsks, UserAnswers, LoopEnds, ShowUi, WatcherAlone
  <2>2. \/ stage \in {"picked", "asking", "answered"} /\ stage' \in {"asking", "answered", "ui", "leaving", "undefined"}
        \/ stage = "loaded" /\ stage' = "ui"
    BY <1>11 DEF LoopAsks, UserAnswers, LoopEnds, ShowUi
  <2>6. stage \in {"loaded", "ui"} => stage' \notin Pending
    BY <2>2 DEF Pending
  <2>7. stage' = "undefined" => OnUsb(selected_rom)
    <3>1. ASSUME stage' = "undefined" PROVE LoopEnds /\ selected_rom \notin Range(roms)
      BY <3>1, <1>11 DEF LoopAsks, UserAnswers, LoopEnds, ShowUi
    <3>2. LoopEnds => stage \in Pending BY DEF LoopEnds, Pending
    <3> QED BY <3>1, <3>2, <1>2 DEF Lasts
  <2>8. stage' = "undefined" => OnlyDrivesDangle' BY <2>1, <2>7 DEF OnlyDrivesDangle, OnUsb
  <2>3. Goes /\ stage' \notin {"load", "loaded"} BY <2>1, <2>2, <2>8 DEF Early
  <2>4. PartsInv' /\ PointersInv' /\ Wishes BY <2>1, <2>3, <1>7
  <2>5. StageInv'
    BY <2>1, <2>2, <2>6, <1>1, <1>3, <1>16 DEF StageInv, Early, Over, Unchosen, Watching, Pending, RomsAlone, Lasts
  <2> QED BY <2>3, <2>4, <2>5
<1>12. CASE LoopRelists
  <2>1. /\ multirom_find_usb_roms /\ UiAlone /\ stage \in {"ui", "asking"}
        /\ stage' = stage /\ watcher' = watcher /\ selected_rom' = selected_rom
    BY <1>12 DEF LoopRelists
  <2>2. Goes /\ Wishes BY <2>1 DEF Early, UiAlone, IniAlone
  <2>3. /\ roms' \in Seq(KnownRoms) /\ scans' \in Nat
        /\ current_rom' \in KnownRoms \cup {NoRom} /\ auto_boot_rom' \in KnownRoms \cup {NoRom}
    BY <2>1, <1>1, RelistsKnown
  <2>7. (auto_boot_rom' = NoRom \/ auto_boot_rom' \in Range(roms')) /\ \A r : Lasts(r) => Lasts(r)'
    BY <2>1, <1>1, RelistsKnown
  <2>4. PointersInv' BY <2>1, <2>3, <2>7 DEF PointersInv, Lasts
  <2>5. PartsInv' BY <2>1, <2>3, <1>1 DEF PartsInv, UiAlone, PartsAlone, DrivesAlone
  <2>6. StageInv' BY <2>1, <2>7, <1>1, <1>3, <1>16 DEF StageInv, Lasts
  <2> QED BY <2>2, <2>4, <2>5, <2>6
<1>13. CASE SkipUi
  <2>1. /\ UiAlone /\ RomsAlone /\ selected_rom' = current_rom /\ watcher' = watcher
        /\ stage = "loaded" /\ stage' \in {"ended", "chosen"}
    BY <1>13 DEF SkipUi, WatcherAlone, Step
  <2>2. Goes /\ stage' \notin {"load", "loaded"} BY <2>1 DEF Early
  <2>3. PartsInv' /\ PointersInv' /\ Wishes BY <2>1, <2>2, <1>7
  <2>4. selected_rom' \in KnownRoms /\ watcher' = "none" BY <2>1, <1>2 DEF Watching
  <2>5. StageInv' BY <2>1, <2>4, <1>3, <1>16 DEF StageInv, Early, Over, Pending
  <2> QED BY <2>2, <2>3, <2>5
<1>14. ASSUME NEW r \in Range(roms), Pick(r)
       PROVE  PartsInv' /\ PointersInv' /\ StageInv' /\ Goes /\ Wishes
  <2>1. r \in KnownRoms BY <1>2 DEF Range
  <2>2. selected_rom' = r /\ Lasts(r) BY <1>14 DEF Pick, Chooses, Lasts
  <2> QED BY <2>1, <2>2, <1>8, <1>14
<1>15. CASE AutoBootTick \/ (~second_boot /\ BootsAtOnce)
  <2>1. selected_rom' = auto_boot_rom /\ auto_boot_rom # NoRom
    BY <1>15 DEF AutoBootTick, BootsAtOnce, Chooses
  <2>2. auto_boot_rom \in KnownRoms /\ Lasts(auto_boot_rom) BY <2>1, <1>2
  <2>3. AutoBootTick \/ BootsAtOnce BY <1>15
  <2> QED BY <2>1, <2>2, <2>3, <1>8
<1> QED BY <1>5, <1>6, <1>9, <1>10, <1>11, <1>12, <1>13, <1>14, <1>15

-----------------------------------------------------------------------------
\* The fstab.  What is disabled keeps its paths, and nothing that was off comes on.
Disabled(t, u) ==
    /\ u \in Tabs /\ DOMAIN u = DOMAIN t
    /\ \A i \in DOMAIN t : u[i].path = t[i].path /\ (t[i].off => u[i].off)

LEMMA EntryIs ==
    ASSUME NEW path \in Paths
    PROVE  /\ Entry(path) \in Entries /\ Entry(path).path = path
           /\ [Entry(path) EXCEPT !.skipped = TRUE] \in Entries
           /\ [Entry(path) EXCEPT !.skipped = TRUE].path = path /\ [Entry(path) EXCEPT !.skipped = TRUE].skipped
<1> DEFINE e == Entry(path)
           f == [e EXCEPT !.skipped = TRUE]
<1>1. e = [path |-> path, off |-> FALSE, skipped |-> FALSE] BY DEF Entry
<1>2. e \in Entries /\ e.path = path BY <1>1 DEF Entries
<1> HIDE DEF e
<1>3. f \in Entries /\ f.path = path /\ f.skipped = TRUE BY <1>2 DEF Entries
<1> QED BY <1>2, <1>3 DEF e

LEMMA PartsDisabled ==
    ASSUME NEW t \in Tabs, NEW path
    PROVE  /\ Disabled(t, fstab_disable_parts(t, path))
           /\ \A i \in DOMAIN t : t[i].path = path => fstab_disable_parts(t, path)[i].off
<1> DEFINE u == fstab_disable_parts(t, path)
<1>1. DOMAIN t = 1..Len(t) /\ Len(t) \in Nat BY DEF Tabs
<1>2. u = [i \in 1..Len(t) |-> IF t[i].path = path THEN [t[i] EXCEPT !.off = TRUE] ELSE t[i]]
  BY <1>1 DEF fstab_disable_parts
<1>3. ASSUME NEW i \in 1..Len(t)
      PROVE  u[i] \in Entries /\ u[i].path = t[i].path /\ (t[i].off => u[i].off) /\ (t[i].path = path => u[i].off)
  <2>1. t[i] \in Entries BY DEF Tabs
  <2> DEFINE e == t[i]
             f == [e EXCEPT !.off = TRUE]
  <2>2. u[i] = IF e.path = path THEN f ELSE e BY <1>2
  <2>3. f \in Entries /\ f.path = e.path /\ f.off = TRUE BY <2>1 DEF Entries
  <2> HIDE DEF f, u
  <2> QED BY <2>1, <2>2, <2>3
<1>4. DOMAIN u = 1..Len(t) BY <1>2
<1> HIDE DEF u
<1>5. u \in Tabs BY <1>1, <1>3, <1>4, <1>2 DEF Tabs
<1> QED BY <1>1, <1>3, <1>4, <1>5 DEF Disabled, u

LEMMA FirstDisabled ==
    ASSUME NEW t \in Tabs, NEW path
    PROVE  Disabled(t, fstab_disable_first(t, path))
<1> DEFINE I == {i \in 1..Len(t) : t[i].path = path}
           n == IF I # {} THEN Min(I) ELSE 0
           u == fstab_disable_first(t, path)
<1>1. DOMAIN t = 1..Len(t) /\ Len(t) \in Nat /\ t \in [1..Len(t) -> Entries] BY DEF Tabs
<1>2. u = IF n = 0 THEN t ELSE [t EXCEPT ![n].off = TRUE] BY DEF fstab_disable_first, SelectInSeq
<1>3. n = 0 \/ n \in 1..Len(t)
  <2>1. I \subseteq Nat /\ I \subseteq 1..Len(t) BY <1>1
  <2> HIDE DEF I
  <2> QED BY <2>1, MinIn
<1> HIDE DEF n, u
<1>4. CASE n = 0
  <2>1. u = t BY <1>2, <1>4
  <2> QED BY <2>1 DEF Disabled, u
<1>5. CASE n \in 1..Len(t)
  <2> DEFINE e == t[n]
             f == [e EXCEPT !.off = TRUE]
  <2>1. e \in Entries BY <1>1, <1>5
  <2>2. f \in Entries /\ f.path = e.path /\ f.off = TRUE BY <2>1 DEF Entries
  <2>3. n # 0 BY <1>1, <1>5
  <2>4. u = [t EXCEPT ![n] = f] BY <1>2, <2>3
  <2>5. t[n] = e OBVIOUS
  <2> HIDE DEF e, f
  <2>6. u \in [1..Len(t) -> Entries] BY <1>1, <1>5, <2>2, <2>4
  <2>7. u \in Tabs BY <2>6, <1>1 DEF Tabs
  <2>8. \A i \in 1..Len(t) : u[i].path = t[i].path /\ (t[i].off => u[i].off)
    BY <1>1, <1>5, <2>2, <2>4, <2>5
  <2> QED BY <2>6, <2>7, <2>8, <1>1 DEF Disabled, u
<1> QED BY <1>3, <1>4, <1>5

LEMMA QuietAppended ==
    ASSUME NEW t \in Tabs, NEW e \in Entries, Quiet(t), e.skipped \/ e.path = "/dummy_tmpfs"
    PROVE  /\ Append(t, e) \in Tabs /\ Quiet(Append(t, e)) /\ Append(t, e) # <<>>
           /\ e.skipped \/ (\E i \in DOMAIN t : t[i].skipped) => \E i \in DOMAIN Append(t, e) : Append(t, e)[i].skipped
<1>1. t \in Seq(Entries) BY DEF Tabs
<1> DEFINE a == Append(t, e)
<1>2. /\ a \in Seq(Entries) /\ Len(a) = Len(t) + 1
      /\ \A i \in 1..Len(t) : a[i] = t[i]
      /\ a[Len(t) + 1] = e
  BY <1>1, AppendProperties
<1>3. /\ Len(t) \in Nat /\ DOMAIN t = 1..Len(t) /\ DOMAIN a = 1..(Len(t) + 1)
      /\ 1..(Len(t) + 1) = 1..Len(t) \cup {Len(t) + 1}
  BY <1>1, <1>2
<1> HIDE DEF a
<1>4. Quiet(a) BY <1>2, <1>3 DEF Quiet
<1>5. e.skipped \/ (\E i \in DOMAIN t : t[i].skipped) => \E i \in DOMAIN a : a[i].skipped BY <1>2, <1>3
<1>6. a # <<>> BY <1>2, <1>3
<1> QED BY <1>2, <1>4, <1>5, <1>6 DEF a, Tabs

\* What is mounted by a changed fstab is the ROM's.
LEMMA ChangedSound ==
    ASSUME NEW tab \in Tabs, NEW fw, NEW treble, Changed(tab, fw, treble) # <<>>
    PROVE  Changed(tab, fw, treble) \in Tabs /\ Sound(Changed(tab, fw, treble))
<1> DEFINE s == fstab_disable_parts(tab, "/system")
           d == fstab_disable_parts(s, "/data")
           c == fstab_disable_parts(d, "/cache")
           w == IF fw THEN fstab_disable_first(c, "/firmware") ELSE c
           e == [Entry("/data") EXCEPT !.skipped = TRUE]
           entries == Append(w, e)
           changed == Changed(tab, fw, treble)
<1>1. changed \in {entries, Append(entries, Entry("/dummy_tmpfs"))}
  <2>1. changed = IF ~(treble \/ Lists(tab, "/system")) \/ ~Lists(tab, "/data") \/ ~Lists(tab, "/cache") THEN <<>>
                  ELSE IF Len(entries) <= 3 + (IF fw THEN 1 ELSE 0) THEN Append(entries, Entry("/dummy_tmpfs")) ELSE entries
    BY DEF Changed
  <2> HIDE DEF entries
  <2> QED BY <2>1
<1>2. Disabled(tab, s) /\ \A i \in DOMAIN tab : tab[i].path = "/system" => s[i].off BY PartsDisabled
<1>3. s \in Tabs BY <1>2 DEF Disabled
<1>4. Disabled(s, d) /\ \A i \in DOMAIN s : s[i].path = "/data" => d[i].off
  <2> HIDE DEF s
  <2> QED BY <1>3, PartsDisabled
<1>5. d \in Tabs BY <1>4 DEF Disabled
<1>6. Disabled(d, c) /\ \A i \in DOMAIN d : d[i].path = "/cache" => c[i].off
  <2> HIDE DEF d
  <2> QED BY <1>5, PartsDisabled
<1>7. c \in Tabs BY <1>6 DEF Disabled
<1>8. Disabled(c, w)
  <2>1. Disabled(c, fstab_disable_first(c, "/firmware"))
    <3> HIDE DEF c
    <3> QED BY <1>7, FirstDisabled
  <2>2. Disabled(c, c) BY <1>7 DEF Disabled
  <2> HIDE DEF c
  <2> QED BY <2>1, <2>2
<1> HIDE DEF s, d, c, w
<1>9. w \in Tabs /\ Quiet(w)
  <2>1. w \in Tabs BY <1>8 DEF Disabled
  <2>2. DOMAIN s = DOMAIN tab /\ DOMAIN d = DOMAIN tab /\ DOMAIN c = DOMAIN tab /\ DOMAIN w = DOMAIN tab
    BY <1>2, <1>4, <1>6, <1>8 DEF Disabled
  <2>3. ASSUME NEW i \in DOMAIN tab, w[i].path \in {"/system", "/data", "/cache"} PROVE w[i].off
    <3>1. /\ s[i].path = tab[i].path /\ (tab[i].off => s[i].off)
          /\ d[i].path = s[i].path /\ (s[i].off => d[i].off)
          /\ c[i].path = d[i].path /\ (d[i].off => c[i].off)
          /\ w[i].path = c[i].path /\ (c[i].off => w[i].off)
      BY <2>2, <1>2, <1>4, <1>6, <1>8 DEF Disabled
    <3> QED BY <3>1, <2>2, <2>3, <1>2, <1>4, <1>6
  <2> QED BY <2>1, <2>2, <2>3 DEF Quiet
<1>10. e \in Entries /\ e.skipped /\ e.path = "/data"
  <2>1. "/data" \in Paths BY DEF Paths
  <2> QED BY <2>1, EntryIs
<1>11. Entry("/dummy_tmpfs") \in Entries /\ Entry("/dummy_tmpfs").path = "/dummy_tmpfs"
  <2>1. "/dummy_tmpfs" \in Paths BY DEF Paths
  <2> QED BY <2>1, EntryIs
<1> HIDE DEF e
<1>12. entries \in Tabs /\ Quiet(entries) /\ \E i \in DOMAIN entries : entries[i].skipped
  BY <1>9, <1>10, QuietAppended
<1> HIDE DEF entries
<1>13. /\ Append(entries, Entry("/dummy_tmpfs")) \in Tabs /\ Quiet(Append(entries, Entry("/dummy_tmpfs")))
       /\ \E i \in DOMAIN Append(entries, Entry("/dummy_tmpfs")) : Append(entries, Entry("/dummy_tmpfs"))[i].skipped
  BY <1>11, <1>12, QuietAppended
<1> HIDE DEF changed
<1>14. changed \in Tabs /\ Quiet(changed) /\ \E i \in DOMAIN changed : changed[i].skipped
  <2>1. CASE changed = entries BY <2>1, <1>12
  <2>2. CASE changed = Append(entries, Entry("/dummy_tmpfs")) BY <2>2, <1>13
  <2> QED BY <2>1, <2>2, <1>1
<1> QED BY <1>14 DEF changed, Sound

LEMMA LoadedTab ==
    ASSUME NEW paths \in RootFstabs \cup VendorFstabs
    PROVE  fstab_load(paths) \in Tabs
<1>1. DOMAIN paths = 1..Len(paths) /\ Len(paths) \in Nat
  <2>1. paths \in Seq(STRING) BY PreparationAssumption
  <2> QED BY <2>1
<1>2. fstab_load(paths) = [i \in 1..Len(paths) |-> Entry(paths[i])] BY <1>1 DEF fstab_load
<1>3. ASSUME NEW i \in 1..Len(paths) PROVE Entry(paths[i]) \in Entries
  <2>1. paths[i] \in Range(paths) BY <1>1 DEF Range
  <2>2. paths[i] \in Paths BY <2>1 DEF Paths
  <2> QED BY <2>2, EntryIs
<1>4. fstab_load(paths) \in [1..Len(paths) -> Entries] BY <1>2, <1>3
<1>5. fstab_load(paths) \in Seq(Entries) BY <1>1, <1>4
<1> QED BY <1>5 DEF Tabs

-----------------------------------------------------------------------------
\* multirom() at work: the list and the pointers are as the UI left them.
LEMMA WorkStays ==
    ASSUME Inv, ListAlone, BootAlone, stage \in Working \cup {"chosen"}, stage' \in Working \cup {"ended", "undefined", "hung"}
    PROVE  ListInv' /\ WishInv'
<1>1. PartsInv /\ PointersInv /\ StageInv /\ WishInv BY DEF Inv, ListInv
<1>2. /\ PartsAlone /\ DrivesAlone /\ RomsAlone /\ scans' = scans /\ ini' = ini /\ watcher' = watcher
      /\ selected_rom' = selected_rom /\ wanted' = wanted /\ second_boot' = second_boot
      /\ ini_fails' = ini_fails /\ mr_no_kexec' = mr_no_kexec
  BY DEF ListAlone, BootAlone, RomsAlone, IniAlone, WatcherAlone
<1>3. stage' \notin {"reboot", "kexeced", "load", "loaded"} BY DEF Working, ByKexec, Rooting
<1>4. PartsInv' BY <1>1, <1>2, PartsStay
<1>5. PointersInv' BY <1>1, <1>2, <1>3, PointersStay
<1>6. WishInv' BY <1>1, <1>2, <1>3, WishStays DEF Late
<1>7. selected_rom \in KnownRoms /\ watcher = "none"
  BY <1>1 DEF StageInv, Unchosen, Watching, Working, ByKexec, Rooting
<1>9. stage' \notin Pending /\ stage' \notin Shown BY DEF Pending, Shown, Working, ByKexec, Rooting
<1>8. StageInv' BY <1>2, <1>7, <1>9 DEF StageInv, Over
<1> QED BY <1>4, <1>5, <1>6, <1>8 DEF ListInv

LEMMA Chosen ==
    ASSUME Inv, stage \notin Unchosen
    PROVE  selected_rom \in KnownRoms /\ selected_rom.name \in Names
<1>1. selected_rom \in KnownRoms BY DEF Inv, ListInv, StageInv
<1> QED BY <1>1, KnownFields DEF Names

LEMMA FlashKeeps ==
    ASSUME NEW ok, Inv, FlashSecondary(ok)
    PROVE  Inv'
<1>1. /\ stage = "chosen" /\ stage' \in {"ended", "undefined", "save"} /\ ListAlone /\ BootAlone
      /\ job' = [job EXCEPT !.exit = {"reboot", "umount"}] /\ root' = root
  BY DEF FlashSecondary, Step
<1>8. OnlyDrivesDangle' BY <1>1 DEF OnlyDrivesDangle, FlashSecondary, Step, Dangles, ListAlone, OnUsb
<1>2. ListInv' /\ WishInv' BY <1>1, WorkStays DEF Working
<1>3. PrepInv BY DEF Inv
<1>4. RootType' /\ FstabInv' BY <1>1, <1>3 DEF PrepInv, RootType, FstabInv
<1>5. JobType' /\ job'.exit = {"reboot", "umount"} BY <1>1, <1>3 DEF PrepInv, JobType
<1>6. RootInv' BY <1>1 DEF RootInv, Rooting
<1>7. WayInv' BY <1>1, <1>5, <1>8 DEF WayInv, Early, ByKexec
<1> QED BY <1>2, <1>4, <1>5, <1>6, <1>7 DEF Inv, PrepInv

\* A step that changes neither the root nor the job, and leads to "root", to "kexec" or away.
LEMMA BeginKeeps ==
    ASSUME Inv, Begin \/ PrepareOther \/ \E ok \in BOOLEAN : RestorePrimary(ok)
    PROVE  Inv'
<1>1. ListAlone /\ BootAlone /\ root' = root /\ job' = job
  <2>1. CASE Begin BY <2>1 DEF Begin, prepVars, BootAlone
  <2>2. CASE PrepareOther BY <2>2 DEF PrepareOther, prepVars, BootAlone
  <2>3. ASSUME NEW ok \in BOOLEAN, RestorePrimary(ok) PROVE ListAlone /\ BootAlone /\ root' = root /\ job' = job
    BY <2>3 DEF RestorePrimary
  <2> QED BY <2>1, <2>2, <2>3
<1>2. \/ stage = "chosen" /\ stage' \in {"kexec", "root", "ended"}
      \/ stage = "root" /\ stage' \in {"save", "failed"} /\ ~IsAndroid(selected_rom)
  <2>1. CASE Begin BY <2>1 DEF Begin, Step
  <2>2. CASE PrepareOther BY <2>2 DEF PrepareOther, Step
  <2>3. ASSUME NEW ok \in BOOLEAN, RestorePrimary(ok) PROVE stage = "chosen" /\ stage' \in {"kexec", "root", "ended"}
    BY <2>3 DEF RestorePrimary, Step
  <2> QED BY <2>1, <2>2, <2>3
<1>3. ListInv' /\ WishInv' BY <1>1, <1>2, WorkStays DEF Working, ByKexec
<1>4. PrepInv /\ selected_rom' = selected_rom BY <1>1 DEF Inv, ListAlone
<1>5. RootType' /\ FstabInv' /\ JobType' BY <1>1, <1>4 DEF PrepInv, RootType, FstabInv, JobType
<1>6. RootInv' BY <1>2 DEF RootInv, Rooting
<1>7. WayInv'
  <2>1. root = FreshRoot /\ job.exit = {"umount"} /\ job.done = 0
    BY <1>2, <1>4 DEF PrepInv, WayInv, Early, FreshJob
  <2> QED BY <2>1, <1>1, <1>2, <1>4 DEF WayInv, OnlyDrivesDangle, Early, ByKexec
<1> QED BY <1>3, <1>5, <1>6, <1>7 DEF Inv, PrepInv

-----------------------------------------------------------------------------
\* By kexec.
LEMMA KexecPartitionsKeeps ==
    ASSUME NEW ok, NEW fails, Inv, KexecPartitions(ok, fails)
    PROVE  Inv'
<1>1. /\ stage = "kexec" /\ stage' \in {"failed", "fill"} /\ root' = root /\ job' = job
      /\ stage' = "fill" => IsAndroid(selected_rom) \/ IsLinux(selected_rom)
      /\ selected_rom' = selected_rom /\ watcher' = watcher /\ ini' = ini /\ wanted' = wanted /\ second_boot' = second_boot
      /\ ini_fails' = ini_fails /\ mr_no_kexec' = mr_no_kexec /\ RomsAlone /\ DrivesAlone
  BY DEF KexecPartitions, Step, WatcherAlone, IniAlone, BootAlone
<1>2. PartsInv /\ PointersInv /\ StageInv /\ WishInv /\ PrepInv BY DEF Inv, ListInv
<1>3. PartsInv'
  <2>1. scans' = scans /\ plugged' = plugged BY <1>1 DEF RomsAlone, DrivesAlone
  <2>2. updates \in Nat /\ scans \in Nat /\ plugged \subseteq Range(Drives) BY <1>2 DEF PartsInv
  <2>3. CASE PartsAlone BY <2>1, <2>3, <1>1, <1>2, PartsStay
  <2>4. ASSUME NEW f, multirom_update_partitions(f) PROVE PartsInv'
    <3>1. /\ updates' \in Nat /\ partitions' \in Seq(Parts)
          /\ \A p, q \in Range(partitions') : p.born = q.born
          /\ \A p \in Range(partitions') : p.drive \in mounted'
      BY <2>2, <2>4, PartitionsFound
    <3> QED BY <3>1, <2>1, <2>2 DEF PartsInv
  <2>5. PartsAlone \/ multirom_update_partitions(IF ok THEN fails ELSE plugged) BY DEF KexecPartitions
  <2> QED BY <2>3, <2>4, <2>5
<1>4. PointersInv' BY <1>1, <1>2, PointersStay
<1>5. WishInv' BY <1>1, <1>2, WishStays DEF Late, Working, ByKexec
<1>6. selected_rom \in KnownRoms /\ watcher = "none" BY <1>1, <1>2 DEF StageInv, Unchosen, Watching
<1>7. StageInv' BY <1>1, <1>6 DEF StageInv, Working, ByKexec, Pending, Shown
<1>8. RootType' /\ FstabInv' /\ JobType' BY <1>1, <1>2 DEF PrepInv, RootType, FstabInv, JobType
<1>9. RootInv' BY <1>1 DEF RootInv, Rooting
<1>10. root = FreshRoot /\ job.exit = {"umount"} /\ job.done = 0 BY <1>1, <1>2 DEF PrepInv, WayInv, ByKexec
<1>11. WayInv' BY <1>1, <1>10 DEF WayInv, OnlyDrivesDangle, Early, ByKexec
<1> QED BY <1>3, <1>4, <1>5, <1>7, <1>8, <1>9, <1>11 DEF Inv, ListInv, PrepInv

\* The kernel and its command line, whole or with a slip that was noted.
LEMMA FillKeeps ==
    ASSUME Inv,
           \/ \E ok, read, room \in BOOLEAN : multirom_fill_kexec_android(ok, read, room)
           \/ \E keys \in RomInfos, where \in {"root_img", "root_dir"}, ok \in BOOLEAN : multirom_fill_kexec_linux(keys, where, ok)
    PROVE  Inv'
<1>1. PrepInv /\ JobType BY DEF Inv, PrepInv
<1> DEFINE Fills == /\ stage = "fill" /\ stage' \in {"exec", "failed"} /\ ListAlone /\ BootAlone /\ root' = root
                    /\ JobType' /\ job'.exit = job.exit /\ job'.done = job.done
                    /\ stage' = "exec" => KernelWhole'
<1>2. ASSUME NEW ok \in BOOLEAN, NEW read \in BOOLEAN, NEW room \in BOOLEAN, multirom_fill_kexec_android(ok, read, room)
      PROVE  Fills
  <2>1. /\ stage = "fill" /\ stage' = (IF ok THEN "exec" ELSE "failed") /\ ListAlone /\ BootAlone /\ root' = root
        /\ Slip(read /\ room, "command line")
    BY <1>2 DEF multirom_fill_kexec_android, Step
  <2> DEFINE words == {"rom"} \cup multirom_get_bootloader_cmdline(read) \cup (IF room THEN {"mrom_kexecd=1"} ELSE {})
             kernel == [of |-> selected_rom.name, cmdline |-> words]
  <2>2. job' = IF ~ok THEN job ELSE [job EXCEPT !.kernel = kernel] BY <1>2 DEF multirom_fill_kexec_android
  <2>3. words \subseteq Words /\ (read /\ room => words = {"rom", "bootloader", "mrom_kexecd=1"})
    BY DEF multirom_get_bootloader_cmdline, Words
  <2>4. kernel \in [of : Names, cmdline : SUBSET Words] /\ kernel.of = selected_rom.name /\ kernel.cmdline = words
    <3>1. selected_rom.name \in Names BY <2>1, Chosen DEF Unchosen
    <3> HIDE DEF words
    <3> QED BY <3>1, <2>3
  <2> HIDE DEF words, kernel
  <2>5. JobType' /\ job'.exit = job.exit /\ job'.done = job.done BY <2>2, <2>4, <1>1 DEF JobType
  <2>6. ASSUME stage' = "exec" PROVE KernelWhole'
    <3>1. ok BY <2>1, <2>6
    <3>2. job'.kernel = kernel BY <3>1, <2>2, <1>1 DEF JobType
    <3>3. "command line" \notin slips' => read /\ room BY <2>1 DEF Slip
    <3>4. selected_rom' = selected_rom BY <2>1 DEF ListAlone
    <3> QED BY <3>2, <3>3, <3>4, <2>3, <2>4 DEF KernelWhole
  <2> QED BY <2>1, <2>5, <2>6
<1>3. ASSUME NEW keys \in RomInfos, NEW where \in {"root_img", "root_dir"}, NEW ok \in BOOLEAN,
             multirom_fill_kexec_linux(keys, where, ok)
      PROVE  Fills
  <2> DEFINE mounts == where = "root_img"
             found == where \in keys /\ ParsesRomInfo(keys)
             words == {"base_cmdline"} \cup (keys \cap (IF mounts THEN {"img_cmdline"} ELSE {"dir_cmdline"}))
             made == [of |-> selected_rom.name, cmdline |-> words]
             kernel == IF ~ok \/ ~found THEN job.kernel ELSE made
  <2>1. /\ stage = "fill" /\ stage' = (IF ok /\ found THEN "exec" ELSE "failed") /\ ListAlone /\ BootAlone /\ root' = root
        /\ IsLinux(selected_rom)
    BY <1>3 DEF multirom_fill_kexec_linux, Step
  <2>2. job' = [job EXCEPT !.loop_mounted = found /\ mounts, !.kernel = kernel]
    BY <1>3 DEF multirom_fill_kexec_linux
  <2>3. words \subseteq Words BY DEF Words
  <2>4. made \in [of : Names, cmdline : SUBSET Words] /\ made.of = selected_rom.name
    <3>1. selected_rom.name \in Names BY <2>1, Chosen DEF Unchosen
    <3> HIDE DEF words
    <3> QED BY <3>1, <2>3
  <2>5. found \in BOOLEAN /\ mounts \in BOOLEAN /\ (found /\ mounts) \in BOOLEAN OBVIOUS
  <2> HIDE DEF words, made, found, mounts
  <2>6. kernel \in [of : Names, cmdline : SUBSET Words] BY <2>4, <1>1 DEF JobType
  <2>7. ok /\ found => kernel = made OBVIOUS
  <2> HIDE DEF kernel
  <2>8. JobType' /\ job'.exit = job.exit /\ job'.done = job.done /\ job'.kernel = kernel
    BY <2>2, <2>5, <2>6, <1>1 DEF JobType
  <2>9. stage' = "exec" => KernelWhole'
    <3>1. selected_rom' = selected_rom BY <2>1 DEF ListAlone
    <3>2. ~IsAndroid(selected_rom) BY <2>1, DefaultIsNone
    <3> QED BY <3>1, <3>2, <2>1, <2>4, <2>7, <2>8 DEF KernelWhole
  <2> QED BY <2>1, <2>8, <2>9
<1>4. Fills BY <1>2, <1>3
<1> HIDE DEF Fills
<1>5. /\ stage = "fill" /\ stage' \in {"exec", "failed"} /\ ListAlone /\ BootAlone /\ root' = root
      /\ JobType' /\ job'.exit = job.exit /\ job'.done = job.done
      /\ stage' = "exec" => KernelWhole'
  BY <1>4 DEF Fills
<1>6. ListInv' /\ WishInv' BY <1>5, WorkStays DEF Working, ByKexec
<1>7. RootType' /\ FstabInv' BY <1>5, <1>1 DEF PrepInv, RootType, FstabInv
<1>8. RootInv' BY <1>5 DEF RootInv, Rooting
<1>9. root = FreshRoot /\ job.exit = {"umount"} /\ job.done = 0 BY <1>1, <1>5 DEF PrepInv, WayInv, ByKexec
<1>10. WayInv' BY <1>5, <1>9 DEF WayInv, OnlyDrivesDangle, Early, ByKexec
<1> QED BY <1>5, <1>6, <1>7, <1>8, <1>10 DEF Inv, PrepInv

LEMMA ExecKeeps ==
    ASSUME NEW ok \in BOOLEAN, Inv, kexec_load_exec(ok)
    PROVE  Inv'
<1> DEFINE kernel == IF ok THEN job.kernel ELSE NoKernel
           exit == job.exit \cup (IF ok THEN {"kexec"} ELSE {})
<1>1. /\ stage = "exec" /\ stage' = (IF ~ok THEN "failed" ELSE IF IsAndroid(selected_rom) THEN "keep" ELSE "save")
      /\ ListAlone /\ BootAlone /\ root' = root /\ slips' = slips
      /\ job' = [job EXCEPT !.exit = exit, !.loop_mounted = FALSE, !.kernel = kernel]
  BY DEF kexec_load_exec, Step
<1>2. PrepInv /\ JobType /\ selected_rom' = selected_rom BY <1>1 DEF Inv, PrepInv, ListAlone
<1>3. ListInv' /\ WishInv' BY <1>1, WorkStays DEF Working, ByKexec
<1>4. job.exit = {"umount"} /\ KernelWhole BY <1>1, <1>2 DEF PrepInv, WayInv, ByKexec
<1>5. exit \subseteq {"umount", "reboot", "kexec"} /\ (ok => "kexec" \in exit) BY <1>4
<1>6. kernel \in [of : Names, cmdline : SUBSET Words] BY <1>2 DEF JobType, NoKernel, Names
<1>7. ok => kernel = job.kernel OBVIOUS
<1> HIDE DEF kernel, exit
<1>8. JobType' /\ job'.exit = exit /\ job'.kernel = kernel BY <1>1, <1>2, <1>5, <1>6 DEF JobType
<1>9. ok => KernelWhole' BY <1>1, <1>2, <1>4, <1>7, <1>8 DEF KernelWhole
<1>10. RootType' /\ FstabInv' BY <1>1, <1>2 DEF PrepInv, RootType, FstabInv
<1>11. RootInv' BY <1>1 DEF RootInv, Rooting
<1>12. WayInv'
  <2>1. CASE ok BY <2>1, <1>1, <1>2, <1>5, <1>8, <1>9 DEF WayInv, OnlyDrivesDangle, Early, ByKexec
  <2>2. CASE ~ok BY <2>2, <1>1 DEF WayInv, OnlyDrivesDangle, Early, ByKexec
  <2> QED BY <2>1, <2>2
<1> QED BY <1>3, <1>8, <1>10, <1>11, <1>12 DEF Inv, PrepInv

-----------------------------------------------------------------------------
\* The root of an Android ROM.  An fstab that is processed is sound, and its firmware asked for.
LEMMA TabChanged ==
    ASSUME NEW tabs \in [root : Tabs, vendor : Tabs], NEW which \in {"root", "vendor"}, NEW tab \in Tabs
    PROVE  [tabs EXCEPT ![which] = tab] \in [root : Tabs, vendor : Tabs] /\ [tabs EXCEPT ![which] = tab][which] = tab
<1>1. CASE which = "root" BY <1>1
<1>2. CASE which = "vendor" BY <1>2
<1> QED BY <1>1, <1>2

LEMMA FstabProcessed ==
    ASSUME NEW which \in {"root", "vendor"}, NEW covers \in BOOLEAN, RootType, JobType, root.processed = "none",
           which = "root" => root.named # "vendor", selected_rom' = selected_rom,
           multirom_process_android_fstab(which, covers)
    PROVE  /\ RootType' /\ JobType' /\ FstabInv' /\ (WantsFirmware' => job'.fw_part)
           /\ root'.tree = root.tree /\ root'.dtb = root.dtb
           /\ job'.exit = job.exit /\ job'.done = job.done /\ job'.rc = job.rc
<1> DEFINE tab == root.fstab[which]
           changed == Changed(tab, has_fw, which = "vendor")
           good == changed # <<>> /\ covers
           tabs == [root.fstab EXCEPT ![which] = changed]
           new == [root EXCEPT !.fstab = tabs, !.processed = which]
           fw == job.fw_part \/ (good /\ has_fw /\ Lists(changed, "/firmware"))
<1>1. root' = IF good THEN new ELSE root BY DEF multirom_process_android_fstab
<1>2. job' = [job EXCEPT !.fw_part = fw] BY DEF multirom_process_android_fstab
<1>3. root.fstab \in [root : Tabs, vendor : Tabs] /\ tab \in Tabs BY DEF RootType
<1>4. good => changed \in Tabs /\ Sound(changed)
  <2> HIDE DEF tab
  <2> QED BY <1>3, ChangedSound
<1>5. good => tabs \in [root : Tabs, vendor : Tabs] /\ tabs[which] = changed
  <2> HIDE DEF changed
  <2> QED BY <1>3, <1>4, TabChanged
<1>6. good \in BOOLEAN /\ fw \in BOOLEAN
  <2>1. job.fw_part \in BOOLEAN BY DEF JobType
  <2> QED BY <2>1 DEF Lists
<1>7. has_fw' = has_fw BY DEF has_fw
<1>8. (job.fw_part => fw) /\ (good /\ has_fw /\ Lists(changed, "/firmware") => fw) OBVIOUS
<1> HIDE DEF tab, changed, good, fw
<1>9. JobType' /\ job'.exit = job.exit /\ job'.done = job.done /\ job'.rc = job.rc /\ job'.fw_part = fw
  BY <1>2, <1>6 DEF JobType
<1>10. CASE good
  <2> HIDE DEF tabs
  <2>1. root' = new BY <1>1, <1>10
  <2>2. /\ RootType' /\ root'.fstab = tabs /\ root'.processed = which /\ root'.tree = root.tree /\ root'.dtb = root.dtb
        /\ root'.named = root.named
    BY <2>1, <1>5, <1>10 DEF RootType
  <2>3. FstabInv' BY <2>2, <1>4, <1>5, <1>10 DEF FstabInv
  <2>4. WantsFirmware' => job'.fw_part BY <2>2, <1>5, <1>7, <1>8, <1>9, <1>10 DEF WantsFirmware
  <2> QED BY <2>2, <2>3, <2>4, <1>9
<1>11. CASE ~good
  <2>1. root' = root BY <1>1, <1>11
  <2>2. RootType' /\ root'.tree = root.tree /\ root'.dtb = root.dtb /\ root'.processed = "none" BY <2>1 DEF RootType
  <2> QED BY <2>2, <1>9 DEF FstabInv, WantsFirmware
<1> QED BY <1>10, <1>11

LEMMA CopyKeeps ==
    ASSUME NEW r \in RootFstabs, NEW v \in VendorFstabs, NEW named \in {"root", "vendor", "any"}, NEW shown \in {"none", "shown"},
           Inv, CopyBootFiles(r, v, named, shown)
    PROVE  Inv'
<1> DEFINE tabs == [root |-> fstab_load(r), vendor |-> fstab_load(v)]
           exit == job.exit \ {"umount"}
<1>1. /\ stage = "root" /\ stage' = "fstab" /\ IsAndroid(selected_rom) /\ ListAlone /\ BootAlone
      /\ root' = [root EXCEPT !.fstab = tabs, !.named = named, !.dtb = shown]
      /\ job' = [job EXCEPT !.exit = exit]
  BY DEF CopyBootFiles, Step
<1>2. PrepInv /\ RootType /\ JobType /\ selected_rom' = selected_rom BY <1>1 DEF Inv, PrepInv, ListAlone
<1>3. ListInv' /\ WishInv' BY <1>1, WorkStays DEF Working, ByKexec, Rooting
<1>4. job.exit = {"umount"} /\ root = FreshRoot /\ job.done = 0 BY <1>1, <1>2 DEF PrepInv, WayInv
<1>5. tabs \in [root : Tabs, vendor : Tabs]
  <2>1. fstab_load(r) \in Tabs /\ fstab_load(v) \in Tabs BY LoadedTab
  <2> QED BY <2>1
<1>6. exit = {} BY <1>4
<1>7. root.processed = "none" BY <1>4 DEF FreshRoot
<1> HIDE DEF tabs, exit
<1>8. RootType' /\ root'.processed = "none" BY <1>1, <1>2, <1>5, <1>7 DEF RootType
<1>9. JobType' /\ job'.exit = {} /\ job'.done = 0 BY <1>1, <1>2, <1>4, <1>6 DEF JobType
<1>10. FstabInv' BY <1>8 DEF FstabInv
<1>11. RootInv' BY <1>1, <1>2, <1>8, <1>9 DEF RootInv, Rooting
<1>12. WayInv' BY <1>1 DEF WayInv, OnlyDrivesDangle, Early, ByKexec
<1> QED BY <1>3, <1>8, <1>9, <1>10, <1>11, <1>12 DEF Inv, PrepInv

LEMMA RootFstabKeeps ==
    ASSUME Inv, ProcessRootFstab
    PROVE  Inv'
<1>1. /\ stage = "fstab" /\ stage' = "folders" /\ ListAlone /\ BootAlone
      /\ IF root.named = "vendor" THEN root' = root /\ job' = job ELSE multirom_process_android_fstab("root", TRUE)
  BY DEF ProcessRootFstab, Step
<1>2. PrepInv /\ RootType /\ JobType /\ FstabInv /\ selected_rom' = selected_rom BY <1>1 DEF Inv, PrepInv, ListAlone
<1>3. ListInv' /\ WishInv' BY <1>1, WorkStays DEF Working, ByKexec, Rooting
<1>4. root.processed = "none" /\ job.done = 0 /\ job.exit = {} /\ IsAndroid(selected_rom)
  BY <1>1, <1>2 DEF PrepInv, RootInv, Rooting
<1>5. RootType' /\ JobType' /\ FstabInv' /\ (WantsFirmware' => job'.fw_part) /\ job'.exit = {} /\ job'.done = 0
  <2>1. CASE root.named = "vendor"
    <3>1. root' = root /\ job' = job BY <1>1, <2>1
    <3> QED BY <3>1, <1>2, <1>4 DEF RootType, JobType, FstabInv, WantsFirmware
  <2>2. CASE root.named # "vendor"
    <3>1. multirom_process_android_fstab("root", TRUE) BY <1>1, <2>2
    <3> QED BY <3>1, <2>2, <1>2, <1>4, FstabProcessed
  <2> QED BY <2>1, <2>2
<1>6. Rooted(0)' BY DEF Rooted
<1>7. RootInv' BY <1>1, <1>2, <1>4, <1>5, <1>6 DEF RootInv, Rooting
<1>8. WayInv' BY <1>1 DEF WayInv, OnlyDrivesDangle, Early, ByKexec
<1> QED BY <1>3, <1>5, <1>7, <1>8 DEF Inv, PrepInv

LEMMA FolderKeeps ==
    ASSUME NEW ok \in BOOLEAN, Inv, MountFolder(ok)
    PROVE  Inv'
<1>1. /\ stage = "folders" /\ job.done < 4 /\ ListAlone /\ BootAlone
      /\ job' = [job EXCEPT !.done = job.done + 1]
      /\ root' = IF ok /\ ~SkipsFolder(Folder) THEN [root EXCEPT !.tree[Folder] = "rom"] ELSE root
      /\ stage' = IF ok THEN stage ELSE IF IsSparse(Folder) THEN "hung" ELSE "failed"
      /\ SkipsFolder(Folder) => ok
      /\ slips' = slips
  BY DEF MountFolder, Folders
<1>2. PrepInv /\ RootType /\ JobType /\ FstabInv /\ RootInv /\ selected_rom' = selected_rom BY <1>1 DEF Inv, PrepInv, ListAlone
<1>3. ListInv' /\ WishInv' BY <1>1, WorkStays DEF Working, ByKexec, Rooting
<1>4. job.exit = {} /\ IsAndroid(selected_rom) /\ Rooted(job.done) /\ (WantsFirmware => job.fw_part)
  BY <1>1, <1>2 DEF RootInv, Rooting
<1> DEFINE n == job.done + 1
           tree == IF ok /\ ~SkipsFolder(Folder) THEN [root.tree EXCEPT ![Folder] = "rom"] ELSE root.tree
<1>5. n \in 1..4 /\ job.done \in 0..4 /\ 1..n = 1..job.done \cup {n}
  <2>1. job.done \in 0..4 BY <1>2 DEF JobType
  <2> QED BY <2>1, <1>1
<1>6. Folder \in Range(Folders) /\ Folder = Folders[n]
  <2>1. DOMAIN Folders = 1..4 BY DEF Folders
  <2> QED BY <2>1, <1>5 DEF Folder, Range
<1>7. root' = [root EXCEPT !.tree = tree] BY <1>1, <1>2 DEF RootType
<1>8. root.tree \in [Range(Folders) -> {"primary", "rom", "dtb"}] BY <1>2 DEF RootType
<1>9. /\ tree \in [Range(Folders) -> {"primary", "rom", "dtb"}]
      /\ \A f \in Range(Folders) : root.tree[f] = "rom" => tree[f] = "rom"
      /\ ok => SkipsFolder(Folder) \/ tree[Folder] = "rom"
  BY <1>6, <1>8
<1> HIDE DEF n, tree
<1>10. /\ RootType' /\ root'.tree = tree /\ root'.processed = root.processed /\ root'.fstab = root.fstab
       /\ root'.named = root.named
  BY <1>2, <1>7, <1>9 DEF RootType
<1>11. JobType' /\ job'.done = n /\ job'.exit = {} /\ job'.fw_part = job.fw_part
  <2>1. job' = [job EXCEPT !.done = n] /\ n \in 0..4 BY <1>1, <1>5 DEF n
  <2> QED BY <2>1, <1>2, <1>4 DEF JobType
<1>12. FstabInv' BY <1>2, <1>10 DEF FstabInv
<1>13. WantsFirmware' => job'.fw_part BY <1>2, <1>4, <1>10, <1>11 DEF WantsFirmware, has_fw
<1>14. ASSUME ok, NEW k \in 1..n, Folders[k] # "vendor"
       PROVE  SkipsFolder(Folders[k]) \/ root'.tree[Folders[k]] = "rom"
  <2> SUFFICES SkipsFolder(Folders[k]) \/ tree[Folders[k]] = "rom" BY <1>10
  <2>1. CASE k = n BY <2>1, <1>6, <1>9, <1>14
  <2>2. CASE k \in 1..job.done
    <3>1. SkipsFolder(Folders[k]) \/ root.tree[Folders[k]] = "rom" BY <2>2, <1>4, <1>14 DEF Rooted
    <3>2. Folders[k] \in Range(Folders)
      <4>1. DOMAIN Folders = 1..4 BY DEF Folders
      <4> QED BY <4>1, <1>5 DEF Range
    <3> QED BY <3>1, <3>2, <1>9
  <2> QED BY <2>1, <2>2, <1>5
<1>15. RootInv'
  <2>1. CASE ok
    <3>1. stage' = "folders" BY <2>1, <1>1
    <3>2. Rooted(job.done)' BY <2>1, <1>2, <1>11, <1>14 DEF Rooted, SkipsFolder, HasFolder
    <3> QED BY <3>1, <3>2, <1>2, <1>4, <1>11, <1>13 DEF RootInv, Rooting
  <2>2. CASE ~ok
    <3>1. stage' \in {"hung", "failed"} BY <2>2, <1>1
    <3> QED BY <3>1 DEF RootInv, Rooting
  <2> QED BY <2>1, <2>2
<1>16. WayInv'
  <2>1. stage' \in {"folders", "hung", "failed"} BY <1>1
  <2> QED BY <2>1 DEF WayInv, OnlyDrivesDangle, Early, ByKexec
<1> QED BY <1>3, <1>10, <1>11, <1>12, <1>15, <1>16 DEF Inv, PrepInv

LEMMA VendorKeeps ==
    ASSUME NEW mounts \in BOOLEAN, NEW hides \in BOOLEAN, Inv, MountVendor(mounts, hides)
    PROVE  Inv'
<1> DEFINE uses == root.dtb = "shown" /\ ~SeesVendor
           vendor == IF uses /\ mounts THEN "dtb" ELSE root.tree["vendor"]
           dtb == IF root.dtb = "shown" /\ hides THEN "hidden" ELSE root.dtb
           tree == [root.tree EXCEPT !["vendor"] = vendor]
<1>1. /\ stage = "folders" /\ stage' = "treble" /\ job.done = 4 /\ ListAlone /\ BootAlone /\ job' = job
      /\ Slip(hides, "device tree")
      /\ root' = [root EXCEPT !.tree["vendor"] = vendor, !.dtb = dtb]
  BY DEF MountVendor, Step, Folders
<1>2. PrepInv /\ RootType /\ JobType /\ FstabInv /\ RootInv /\ selected_rom' = selected_rom BY <1>1 DEF Inv, PrepInv, ListAlone
<1>3. ListInv' /\ WishInv' BY <1>1, WorkStays DEF Working, ByKexec, Rooting
<1>4. job.exit = {} /\ IsAndroid(selected_rom) /\ Rooted(4) /\ (WantsFirmware => job.fw_part)
  BY <1>1, <1>2 DEF RootInv, Rooting
<1>5. root.tree \in [Range(Folders) -> {"primary", "rom", "dtb"}] /\ root.dtb \in {"none", "shown", "hidden"}
  BY <1>2 DEF RootType
<1>6. DOMAIN Folders = 1..4 /\ Folders[2] = "vendor" /\ "vendor" \in Range(Folders)
  <2>1. DOMAIN Folders = 1..4 /\ Folders[2] = "vendor" BY DEF Folders
  <2> QED BY <2>1 DEF Range
<1>7. /\ tree \in [Range(Folders) -> {"primary", "rom", "dtb"}]
      /\ \A f \in Range(Folders) : f # "vendor" => tree[f] = root.tree[f]
  <2>1. vendor \in {"primary", "rom", "dtb"} BY <1>5, <1>6
  <2> HIDE DEF vendor
  <2> QED BY <2>1, <1>5, <1>6
<1>8. dtb \in {"none", "shown", "hidden"} /\ (hides => dtb # "shown") BY <1>5
<1>9. root' = [root EXCEPT !.tree = tree, !.dtb = dtb]
  <2> HIDE DEF vendor, dtb
  <2> QED BY <1>1, <1>2 DEF RootType
<1> HIDE DEF tree, dtb
<1>10. /\ RootType' /\ root'.tree = tree /\ root'.dtb = dtb /\ root'.processed = root.processed
       /\ root'.fstab = root.fstab /\ root'.named = root.named
  BY <1>2, <1>7, <1>8, <1>9 DEF RootType
<1>11. JobType' BY <1>1, <1>2 DEF JobType
<1>12. FstabInv' BY <1>2, <1>10 DEF FstabInv
<1>13. WantsFirmware' => job'.fw_part BY <1>1, <1>2, <1>4, <1>10 DEF WantsFirmware, has_fw
<1>14. Rooted(4)'
  <2> SUFFICES ASSUME NEW k \in 1..4, Folders[k] # "vendor"
               PROVE  SkipsFolder(Folders[k]) \/ tree[Folders[k]] = "rom"
    BY <1>2, <1>10 DEF Rooted, SkipsFolder, HasFolder
  <2>1. SkipsFolder(Folders[k]) \/ root.tree[Folders[k]] = "rom" BY <1>4 DEF Rooted
  <2>2. Folders[k] \in Range(Folders) BY <1>6 DEF Range
  <2> QED BY <2>1, <2>2, <1>7
<1>15. Foldered'
  <2>1. "device tree" \notin slips' => hides BY <1>1 DEF Slip
  <2> QED BY <2>1, <1>8, <1>10, <1>14 DEF Foldered
<1>16. RootInv' BY <1>1, <1>2, <1>4, <1>13, <1>15 DEF RootInv, Rooting
<1>17. WayInv' BY <1>1 DEF WayInv, OnlyDrivesDangle, Early, ByKexec
<1> QED BY <1>3, <1>10, <1>11, <1>12, <1>16, <1>17 DEF Inv, PrepInv

LEMMA VendorFstabKeeps ==
    ASSUME NEW covers \in BOOLEAN, Inv, ProcessVendorFstab(covers)
    PROVE  Inv'
<1>1. /\ stage = "treble" /\ stage' = (IF root'.processed = "none" THEN "failed" ELSE "firmware")
      /\ ListAlone /\ BootAlone /\ slips' = slips
      /\ IF root.processed = "none" /\ SeesVendor THEN multirom_process_android_fstab("vendor", covers)
         ELSE root' = root /\ job' = job
  BY DEF ProcessVendorFstab
<1>2. PrepInv /\ RootType /\ JobType /\ FstabInv /\ RootInv /\ selected_rom' = selected_rom BY <1>1 DEF Inv, PrepInv, ListAlone
<1>3. ListInv' /\ WishInv' BY <1>1, WorkStays DEF Working, ByKexec, Rooting
<1>4. job.exit = {} /\ IsAndroid(selected_rom) /\ Foldered /\ (WantsFirmware => job.fw_part)
  BY <1>1, <1>2 DEF RootInv, Rooting
<1>5. /\ RootType' /\ JobType' /\ FstabInv' /\ (WantsFirmware' => job'.fw_part) /\ job'.exit = {}
      /\ root'.tree = root.tree /\ root'.dtb = root.dtb
  <2>1. CASE root.processed = "none" /\ SeesVendor
    <3>1. multirom_process_android_fstab("vendor", covers) BY <1>1, <2>1
    <3> QED BY <3>1, <2>1, <1>2, <1>4, FstabProcessed
  <2>2. CASE ~(root.processed = "none" /\ SeesVendor)
    <3>1. root' = root /\ job' = job BY <1>1, <2>2
    <3>2. RootType' /\ JobType' /\ FstabInv' BY <3>1, <1>2 DEF RootType, JobType, FstabInv
    <3>3. WantsFirmware' => job'.fw_part BY <3>1, <1>2, <1>4 DEF WantsFirmware, has_fw
    <3> QED BY <3>1, <3>2, <3>3, <1>4
  <2> QED BY <2>1, <2>2
<1>6. Foldered' BY <1>1, <1>2, <1>4, <1>5 DEF Foldered, Rooted, SkipsFolder, HasFolder
<1>7. RootInv' BY <1>1, <1>2, <1>4, <1>5, <1>6 DEF RootInv, Rooting
<1>8. WayInv' BY <1>1 DEF WayInv, OnlyDrivesDangle, Early, ByKexec
<1> QED BY <1>3, <1>5, <1>7, <1>8 DEF Inv, PrepInv

LEMMA FirmwareKeeps ==
    ASSUME Inv, InjectFirmware
    PROVE  Inv'
<1> DEFINE rc == job.rc \cup (IF job.fw_part THEN {"firmware trigger", "firmware context"} ELSE {})
<1>1. /\ stage = "firmware" /\ stage' = "media" /\ ListAlone /\ BootAlone /\ root' = root /\ slips' = slips
      /\ job' = [job EXCEPT !.rc = rc, !.fw_part = FALSE]
  BY DEF InjectFirmware, Step, NothingFails
<1>2. PrepInv /\ RootType /\ JobType /\ FstabInv /\ RootInv /\ selected_rom' = selected_rom BY <1>1 DEF Inv, PrepInv, ListAlone
<1>3. ListInv' /\ WishInv' BY <1>1, WorkStays DEF Working, ByKexec, Rooting
<1>4. job.exit = {} /\ IsAndroid(selected_rom) /\ Foldered /\ root.processed # "none" /\ (WantsFirmware => job.fw_part)
  BY <1>1, <1>2 DEF RootInv, Rooting
<1>5. rc \subseteq Lines /\ (job.fw_part => Firmware \subseteq rc) BY <1>2 DEF JobType, Lines, Firmware
<1> HIDE DEF rc
<1>6. JobType' /\ job'.rc = rc /\ job'.exit = {} BY <1>1, <1>2, <1>4, <1>5 DEF JobType
<1>7. RootType' /\ FstabInv' BY <1>1, <1>2 DEF RootType, FstabInv
<1>8. Foldered' BY <1>1, <1>2, <1>4 DEF Foldered, Rooted, SkipsFolder, HasFolder
<1>9. WantsFirmware' => Firmware \subseteq job'.rc BY <1>1, <1>2, <1>4, <1>5, <1>6 DEF WantsFirmware, has_fw
<1>10. RootInv' BY <1>1, <1>2, <1>4, <1>6, <1>8, <1>9 DEF RootInv, Rooting
<1>11. WayInv' BY <1>1 DEF WayInv, OnlyDrivesDangle, Early, ByKexec
<1> QED BY <1>3, <1>6, <1>7, <1>10, <1>11 DEF Inv, PrepInv

\* The link leads to where this Android looks for the user's files, for each of the four ways.
LEMMA MediaKeeps ==
    ASSUME NEW api \in {"old", "new"}, NEW newLayout \in BOOLEAN, NEW ok \in BOOLEAN, Inv,
           multirom_create_media_link(api, newLayout, ok)
    PROVE  Inv'
<1> DEFINE media == SeenAt(api, newLayout)
           sought == IF api = "old" THEN "/data/media" ELSE "/data/media/0"
           rc == job.rc \cup (IF ok /\ api = "new" THEN {"layout trigger"} ELSE {})
<1>1. /\ stage = "media" /\ stage' = (IF ok THEN "quirks" ELSE "failed") /\ ListAlone /\ BootAlone /\ slips' = slips
      /\ root' = IF ok THEN [root EXCEPT !.media = media, !.sought = sought] ELSE root
      /\ job' = [job EXCEPT !.rc = rc]
  BY DEF multirom_create_media_link, Step
<1>2. PrepInv /\ RootType /\ JobType /\ FstabInv /\ RootInv /\ selected_rom' = selected_rom BY <1>1 DEF Inv, PrepInv, ListAlone
<1>3. ListInv' /\ WishInv' BY <1>1, WorkStays DEF Working, ByKexec, Rooting
<1>4. /\ job.exit = {} /\ IsAndroid(selected_rom) /\ Foldered /\ root.processed # "none"
      /\ WantsFirmware => Firmware \subseteq job.rc
  BY <1>1, <1>2 DEF RootInv, Rooting
<1>5. media = sought /\ media \in Media /\ sought \in Media BY DEF SeenAt, MediaTo, MediaFrom, Media
<1>6. /\ rc \subseteq Lines /\ job.rc \subseteq rc
      /\ ok /\ sought = "/data/media/0" => "layout trigger" \in rc
  <2>1. job.rc \subseteq Lines BY <1>2 DEF JobType
  <2> QED BY <2>1 DEF Lines
<1> HIDE DEF media, sought, rc
<1>7. JobType' /\ job'.rc = rc /\ job'.exit = {} BY <1>1, <1>2, <1>4, <1>6 DEF JobType
<1>8. /\ RootType' /\ root'.tree = root.tree /\ root'.dtb = root.dtb /\ root'.processed = root.processed
      /\ root'.fstab = root.fstab /\ root'.named = root.named
      /\ ok => root'.media = media /\ root'.sought = sought
  BY <1>1, <1>2, <1>5 DEF RootType
<1>9. FstabInv' BY <1>2, <1>8 DEF FstabInv
<1>10. Foldered' BY <1>1, <1>2, <1>4, <1>8 DEF Foldered, Rooted, SkipsFolder, HasFolder
<1>11. WantsFirmware' => Firmware \subseteq job'.rc BY <1>2, <1>4, <1>6, <1>7, <1>8 DEF WantsFirmware, has_fw
<1>12. RootInv'
  <2>1. CASE ok
    <3>1. stage' = "quirks" BY <2>1, <1>1
    <3>2. Mediated' BY <2>1, <1>5, <1>8 DEF Mediated
    <3>3. root'.sought = "/data/media/0" => "layout trigger" \in job'.rc BY <2>1, <1>6, <1>7, <1>8
    <3> QED BY <3>1, <3>2, <3>3, <1>2, <1>4, <1>7, <1>8, <1>10, <1>11 DEF RootInv, Rooting
  <2>2. CASE ~ok
    <3>1. stage' = "failed" BY <2>2, <1>1
    <3> QED BY <3>1 DEF RootInv, Rooting
  <2> QED BY <2>1, <2>2
<1>13. WayInv' BY <1>1 DEF WayInv, OnlyDrivesDangle, Early, ByKexec
<1> QED BY <1>3, <1>7, <1>8, <1>9, <1>12, <1>13 DEF Inv, PrepInv

LEMMA QuirksKeep ==
    ASSUME NEW failing \in BOOLEAN, NEW disabled \in BOOLEAN, NEW covered \in BOOLEAN, Inv,
           Quirks(failing, disabled, covered)
    PROVE  Inv'
<1> DEFINE relabels == failing /\ ~disabled
<1>1. /\ stage = "quirks" /\ stage' = "patch" /\ ListAlone /\ BootAlone /\ job' = job
      /\ Slip(disabled /\ covered, "contexts")
      /\ root' = [root EXCEPT !.relabels = relabels]
  BY DEF Quirks, rom_quirks_on_initrd_finalized, Step
<1>2. PrepInv /\ RootType /\ JobType /\ FstabInv /\ RootInv /\ selected_rom' = selected_rom BY <1>1 DEF Inv, PrepInv, ListAlone
<1>3. ListInv' /\ WishInv' BY <1>1, WorkStays DEF Working, ByKexec, Rooting
<1>4. /\ job.exit = {} /\ IsAndroid(selected_rom) /\ Foldered /\ root.processed # "none" /\ Mediated
      /\ WantsFirmware => Firmware \subseteq job.rc
      /\ root.sought = "/data/media/0" => "layout trigger" \in job.rc
  BY <1>1, <1>2 DEF RootInv, Rooting
<1>5. relabels \in BOOLEAN /\ (disabled => ~relabels) OBVIOUS
<1> HIDE DEF relabels
<1>6. /\ RootType' /\ root'.tree = root.tree /\ root'.dtb = root.dtb /\ root'.processed = root.processed
      /\ root'.fstab = root.fstab /\ root'.named = root.named /\ root'.media = root.media /\ root'.sought = root.sought
      /\ root'.relabels = relabels
  BY <1>1, <1>2, <1>5 DEF RootType
<1>7. JobType' BY <1>1, <1>2 DEF JobType
<1>8. FstabInv' BY <1>2, <1>6 DEF FstabInv
<1>9. \A what : what \notin slips' => what \notin slips BY <1>1 DEF Slip
<1>10. Foldered' BY <1>2, <1>4, <1>6, <1>9 DEF Foldered, Rooted, SkipsFolder, HasFolder
<1>11. Mediated' BY <1>4, <1>6 DEF Mediated
<1>12. Quirked'
  <2>1. "contexts" \notin slips' => disabled BY <1>1 DEF Slip
  <2> QED BY <2>1, <1>5, <1>6 DEF Quirked
<1>13. WantsFirmware' => Firmware \subseteq job'.rc BY <1>1, <1>2, <1>4, <1>6 DEF WantsFirmware, has_fw
<1>14. RootInv' BY <1>1, <1>2, <1>4, <1>6, <1>10, <1>11, <1>12, <1>13 DEF RootInv, Rooting
<1>15. WayInv' BY <1>1 DEF WayInv, OnlyDrivesDangle, Early, ByKexec
<1> QED BY <1>3, <1>6, <1>7, <1>8, <1>14, <1>15 DEF Inv, PrepInv

LEMMA PatchKeeps ==
    ASSUME NEW ok \in BOOLEAN, Inv, ChangePatchLevel(ok)
    PROVE  Inv'
<1>1. /\ stage = "patch" /\ stage' \in {"write", "undefined"} /\ ListAlone /\ BootAlone
      /\ job' = job /\ root' = root /\ (\A what : what \notin slips' => what \notin slips)
      /\ stage' = "undefined" => "build.prop" \in slips'
  BY DEF ChangePatchLevel, Step, Slip
<1>2. PrepInv /\ selected_rom' = selected_rom BY <1>1 DEF Inv, ListAlone
<1>3. ListInv' /\ WishInv' BY <1>1, WorkStays DEF Working, ByKexec, Rooting
<1>4. RootType' /\ JobType' /\ FstabInv' BY <1>1, <1>2 DEF PrepInv, RootType, JobType, FstabInv
<1>5. RootInv /\ job.exit = {} /\ IsAndroid(selected_rom) /\ Foldered /\ Mediated /\ Quirked
      /\ root.processed # "none" /\ (WantsFirmware => Firmware \subseteq job.rc)
      /\ (root.sought = "/data/media/0" => "layout trigger" \in job.rc)
  BY <1>1, <1>2 DEF PrepInv, RootInv, Rooting
<1>6. Foldered' /\ Mediated' /\ Quirked' /\ WantsFirmware' = WantsFirmware
  BY <1>1, <1>2, <1>5 DEF Foldered, Rooted, SkipsFolder, HasFolder, Mediated, Quirked, WantsFirmware, has_fw
<1>7. RootInv' BY <1>1, <1>2, <1>5, <1>6 DEF RootInv, Rooting
<1>8. WayInv' BY <1>1 DEF WayInv, OnlyDrivesDangle, Early, ByKexec
<1> QED BY <1>3, <1>4, <1>7, <1>8 DEF Inv, PrepInv

\* All that init is asked for is written, or the slip is noted.
LEMMA AdditionsKeep ==
    ASSUME NEW upTo \in {"init.rc", "file_contexts", "the end"}, Inv, rcadditions_write_to_files(upTo)
    PROVE  Inv'
<1> DEFINE added == CASE upTo = "init.rc" -> {}
                      [] upTo = "file_contexts" -> job.rc \ {"firmware context"}
                      [] OTHER -> job.rc
<1>1. /\ stage = "write" /\ stage' = "keep" /\ ListAlone /\ BootAlone
      /\ Slip(upTo = "the end", "rc")
      /\ root' = [root EXCEPT !.added = added] /\ job' = [job EXCEPT !.rc = {}]
  BY DEF rcadditions_write_to_files, Step
<1>2. PrepInv /\ RootType /\ JobType /\ FstabInv /\ RootInv /\ selected_rom' = selected_rom BY <1>1 DEF Inv, PrepInv, ListAlone
<1>3. ListInv' /\ WishInv' BY <1>1, WorkStays DEF Working, ByKexec, Rooting
<1>4. /\ job.exit = {} /\ IsAndroid(selected_rom) /\ Foldered /\ root.processed # "none" /\ Mediated /\ Quirked
      /\ WantsFirmware => Firmware \subseteq job.rc
      /\ root.sought = "/data/media/0" => "layout trigger" \in job.rc
  BY <1>1, <1>2 DEF RootInv, Rooting
<1>5. added \subseteq Lines /\ (upTo = "the end" => added = job.rc)
  <2>1. job.rc \subseteq Lines BY <1>2 DEF JobType
  <2> QED BY <2>1
<1> HIDE DEF added
<1>6. /\ RootType' /\ root'.tree = root.tree /\ root'.dtb = root.dtb /\ root'.processed = root.processed
      /\ root'.fstab = root.fstab /\ root'.named = root.named /\ root'.media = root.media /\ root'.sought = root.sought
      /\ root'.relabels = root.relabels /\ root'.added = added
  BY <1>1, <1>2, <1>5 DEF RootType
<1>7. JobType' /\ job'.exit = {} BY <1>1, <1>2, <1>4 DEF JobType
<1>8. FstabInv' BY <1>2, <1>6 DEF FstabInv
<1>9. (\A what : what \notin slips' => what \notin slips) /\ ("rc" \notin slips' => upTo = "the end")
  BY <1>1 DEF Slip
<1>10. Foldered' BY <1>2, <1>4, <1>6, <1>9 DEF Foldered, Rooted, SkipsFolder, HasFolder
<1>11. Mediated' /\ Quirked' BY <1>4, <1>6, <1>9 DEF Mediated, Quirked
<1>12. Added'
  <2>1. Asked \subseteq job.rc
    BY <1>4 DEF Asked, WantsFirmware, Firmware
  <2>2. Asked' = Asked BY <1>2, <1>6 DEF Asked, has_fw
  <2> QED BY <2>1, <2>2, <1>5, <1>6, <1>9 DEF Added
<1>13. RootDone' BY <1>4, <1>6, <1>10, <1>11, <1>12 DEF RootDone
<1>14. RootInv' BY <1>1 DEF RootInv, Rooting
<1>15. WayInv' BY <1>1, <1>2, <1>4, <1>7, <1>13 DEF WayInv, OnlyDrivesDangle, Early, ByKexec
<1> QED BY <1>3, <1>6, <1>7, <1>8, <1>14, <1>15 DEF Inv, PrepInv

LEMMA InternalKeeps ==
    ASSUME NEW failing \in BOOLEAN, NEW disabled \in BOOLEAN, NEW covered \in BOOLEAN,
           NEW shown \in BOOLEAN, NEW mounts \in BOOLEAN, Inv,
           PrepareInternal(failing, disabled, covered, shown, mounts)
    PROVE  Inv'
<1> DEFINE relabels == failing /\ ~disabled
           dtb == IF ~shown THEN "none" ELSE IF mounts THEN "hidden" ELSE "shown"
<1>1. /\ stage = "root" /\ stage' = "save" /\ ListAlone /\ BootAlone /\ job' = job /\ IsDefault(selected_rom)
      /\ root' = [root EXCEPT !.relabels = relabels, !.dtb = dtb]
  BY DEF PrepareInternal, Step, Here, IsDefault
<1>2. PrepInv /\ RootType /\ JobType /\ FstabInv /\ selected_rom' = selected_rom BY <1>1 DEF Inv, PrepInv, ListAlone
<1>3. ListInv' /\ WishInv' BY <1>1, WorkStays DEF Working, ByKexec, Rooting
<1>4. relabels \in BOOLEAN /\ dtb \in {"none", "shown", "hidden"} OBVIOUS
<1> HIDE DEF relabels, dtb
<1>5. RootType' /\ root'.processed = root.processed /\ root'.fstab = root.fstab /\ root'.named = root.named
  BY <1>1, <1>2, <1>4 DEF RootType
<1>6. JobType' BY <1>1, <1>2 DEF JobType
<1>7. FstabInv' BY <1>2, <1>5 DEF FstabInv
<1>8. RootInv' BY <1>1 DEF RootInv, Rooting
<1>9. ~IsAndroid(selected_rom) /\ job.exit = {"umount"}
  BY <1>1, <1>2, DefaultIsNone DEF PrepInv, WayInv
<1>10. WayInv' BY <1>1, <1>2, <1>9 DEF WayInv, OnlyDrivesDangle, Early, ByKexec
<1> QED BY <1>3, <1>5, <1>6, <1>7, <1>8, <1>10 DEF Inv, PrepInv

-----------------------------------------------------------------------------
\* The end of multirom(), and the next boot.
LEMMA KeepKeeps ==
    ASSUME Inv, KeepMounted
    PROVE  Inv'
<1>1. /\ stage = "keep" /\ stage' = (IF Dangles THEN "undefined" ELSE "save")
      /\ kept' = IF OnUsb(selected_rom) THEN kept \cup {Partition(selected_rom)} ELSE kept
      /\ DrivesAlone /\ RomsAlone /\ ini' = ini /\ watcher' = watcher /\ selected_rom' = selected_rom
      /\ partitions' = partitions /\ mounted' = mounted /\ updates' = updates
      /\ root' = root /\ job' = job /\ slips' = slips /\ wanted' = wanted /\ second_boot' = second_boot
      /\ ini_fails' = ini_fails /\ mr_no_kexec' = mr_no_kexec
  BY DEF KeepMounted, Step, IniAlone, WatcherAlone, prepVars
<1>2. PartsInv /\ PointersInv /\ StageInv /\ WishInv /\ PrepInv BY DEF Inv, ListInv
<1>3. PartsInv' BY <1>1, <1>2 DEF PartsInv, DrivesAlone, RomsAlone
<1>4. PointersInv' BY <1>1, <1>2, PointersStay
<1>5. WishInv' BY <1>1, <1>2, WishStays DEF Late, Working
<1>6. selected_rom \in KnownRoms /\ watcher = "none" BY <1>1, <1>2 DEF StageInv, Unchosen, Watching
<1>7. StageInv' BY <1>1, <1>6 DEF StageInv, Working, Over, Pending, Shown
<1>8. RootType' /\ JobType' /\ FstabInv' BY <1>1, <1>2 DEF PrepInv, RootType, JobType, FstabInv
<1>9. RootInv' BY <1>1 DEF RootInv, Rooting
<1>10. /\ IsAndroid(selected_rom) /\ (job.exit = {} \/ "kexec" \in job.exit)
       /\ "kexec" \in job.exit => KernelWhole
       /\ job.exit = {} => RootDone
  BY <1>1, <1>2 DEF PrepInv, WayInv
<1>11. KernelWhole' = KernelWhole /\ RootDone' = RootDone
  BY <1>1 DEF KernelWhole, RootDone, Foldered, Rooted, SkipsFolder, HasFolder, Mediated, Quirked, Added, Asked, has_fw
<1>12. stage' = "save" /\ OnUsb(selected_rom) => Partition(selected_rom) \in Range(partitions') \cap kept'
  BY <1>1 DEF Dangles
<1>14. OnlyDrivesDangle' BY <1>1 DEF OnlyDrivesDangle, Dangles, OnUsb
<1>13. WayInv' BY <1>1, <1>10, <1>11, <1>12, <1>14 DEF WayInv, Early, ByKexec
<1> QED BY <1>3, <1>4, <1>5, <1>7, <1>8, <1>9, <1>13 DEF Inv, ListInv, PrepInv

\* What is saved names the ROM by its directory.
LEMMA SavedKnown ==
    ASSUME NEW r \in KnownRoms
    PROVE  /\ Saved(r) \in [rom : Names, part : Range(Drives) \cup {NoPart}]
           /\ Saved(r).rom \in NamesAt(IF Saved(r).part = NoPart THEN Storage ELSE Saved(r).part)
<1>1. r.place \in Places /\ r.name \in NamesAt(r.place) BY KnownFields
<1>2. r.name \in Names BY <1>1 DEF Names
<1>3. CASE OnUsb(r)
  <2>1. Saved(r) = [rom |-> r.name, part |-> r.place] BY <1>3 DEF Saved
  <2>2. r.place \in Range(Drives) /\ r.place # NoPart BY <1>3, DrivesApart DEF OnUsb
  <2> QED BY <2>1, <2>2, <1>1, <1>2
<1>4. CASE ~OnUsb(r)
  <2>1. Saved(r) = [rom |-> r.name, part |-> NoPart] BY <1>4 DEF Saved
  <2>2. r.place = Storage BY <1>1, <1>4 DEF OnUsb, Places
  <2> QED BY <2>1, <2>2, <1>1, <1>2
<1> QED BY <1>3, <1>4

\* Of one search there is one partition of a drive, so the drive that is kept is not unmounted.
LEMMA DriveIsHeld ==
    ASSUME Inv, Partition(selected_rom) \in Range(partitions) \cap kept
    PROVE  selected_rom.place \in mounted \ {p.drive : p \in Range(partitions) \ kept}
<1> DEFINE mine == Partition(selected_rom)
<1>1. /\ partitions \in Seq(Parts)
      /\ \A p, q \in Range(partitions) : p.born = q.born
      /\ \A p \in Range(partitions) : p.drive \in mounted
  BY DEF Inv, ListInv, PartsInv
<1>2. mine \in Range(partitions) /\ mine \in kept /\ mine.drive = selected_rom.place BY DEF Partition
<1> HIDE DEF mine
<1>3. Range(partitions) \subseteq Parts BY <1>1 DEF Range
<1>4. ASSUME NEW p \in Range(partitions), p.drive = mine.drive PROVE p \in kept
  <2>1. p \in Parts /\ mine \in Parts /\ p.born = mine.born BY <1>1, <1>2, <1>3
  <2>2. p = mine BY <2>1, <1>4 DEF Parts
  <2> QED BY <2>2, <1>2
<1> QED BY <1>1, <1>2, <1>4

LEMMA SaveKeeps ==
    ASSUME NEW prepared \in BOOLEAN, NEW ok \in BOOLEAN, Inv, SaveAndFree(prepared, ok)
    PROVE  Inv'
<1> DEFINE now == IF prepared THEN Saved(selected_rom)
                  ELSE [rom |-> multirom_fixup_rom_name(current_rom, Internal), part |-> curr_rom_part]
           wishes == prepared /\ ("reboot" \in job.exit \/ ("kexec" \in job.exit /\ IsAndroid(selected_rom)))
           holds == prepared /\ "umount" \notin job.exit
<1>1. /\ stage = (IF prepared THEN "save" ELSE "failed")
      /\ stage' = (IF prepared /\ Dangles THEN "undefined"
                   ELSE IF ~prepared \/ "reboot" \in job.exit THEN "reboot" ELSE IF "kexec" \in job.exit THEN "kexeced" ELSE "started")
      /\ ini_fails' = IF ok THEN ini_fails \ {"save"} ELSE ini_fails \cup {"save"}
      /\ wanted' = IF wishes THEN now ELSE NoWish
      /\ mounted' = mounted \ {p.drive : p \in Range(partitions) \ kept}
      /\ partitions' = <<>> /\ roms' = <<>> /\ current_rom' = NoRom /\ auto_boot_rom' = NoRom
      /\ plugged' = plugged /\ updates' = updates /\ scans' = scans /\ watcher' = watcher
      /\ root' = [root EXCEPT !.keep_realdata = holds]
      /\ selected_rom' = selected_rom /\ second_boot' = second_boot /\ job' = job /\ slips' = slips
  BY DEF SaveAndFree, Step, DrivesAlone, WatcherAlone
<1>20. ok => ini'.rom = now.rom /\ ini'.part = now.part
  <2>1. ok => ini' = [rom |-> now.rom, part |-> now.part, auto |-> multirom_fixup_rom_name(auto_boot_rom, ""),
                      last |-> ini.last /\ "load" \notin ini_fails]
    BY DEF SaveAndFree
  <2> DEFINE rest == ini.last /\ "load" \notin ini_fails
             auto == multirom_fixup_rom_name(auto_boot_rom, "")
  <2>2. ok => ini' = [rom |-> now.rom, part |-> now.part, auto |-> auto, last |-> rest] BY <2>1
  <2> HIDE DEF now, rest, auto
  <2> QED BY <2>2
<1>2. PartsInv /\ PointersInv /\ StageInv /\ WishInv /\ PrepInv /\ RootType BY DEF Inv, ListInv, PrepInv
<1>3. selected_rom \in KnownRoms /\ watcher = "none" BY <1>1, <1>2 DEF StageInv, Unchosen, Watching
<1>4. <<>> \in Seq(Parts) /\ <<>> \in Seq(KnownRoms) /\ Range(<<>>) = {} BY DEF Range
<1>5. PartsInv' BY <1>1, <1>2, <1>4 DEF PartsInv
<1>6. PointersInv' BY <1>1, <1>4 DEF PointersInv
<1>7. StageInv' BY <1>1, <1>3 DEF StageInv, Over, Pending, Shown
<1>8. /\ wanted' \in [rom : Names, part : Range(Drives) \cup {NoPart}]
      /\ wanted' # NoWish => /\ wanted'.rom \in NamesAt(IF wanted'.part = NoPart THEN Storage ELSE wanted'.part)
                             /\ ok => ini'.rom = wanted'.rom /\ ini'.part = wanted'.part
  <2>1. NoWish \in [rom : Names, part : Range(Drives) \cup {NoPart}] BY DEF NoWish, Names
  <2>2. CASE wishes
    <3>1. now = Saved(selected_rom) BY <2>2
    <3>2. wanted' = now BY <2>2, <1>1
    <3>3. ok => ini'.rom = now.rom /\ ini'.part = now.part BY <1>20
    <3> HIDE DEF now
    <3>4. /\ now \in [rom : Names, part : Range(Drives) \cup {NoPart}]
          /\ now.rom \in NamesAt(IF now.part = NoPart THEN Storage ELSE now.part)
      BY <3>1, <1>3, SavedKnown
    <3> QED BY <3>2, <3>3, <3>4
  <2>3. CASE ~wishes
    <3>1. wanted' = NoWish BY <2>3, <1>1
    <3> QED BY <3>1, <2>1
  <2> QED BY <2>2, <2>3
<1>9. WishInv'
  <2>1. InLine' => ok BY <1>1 DEF InLine
  <2>2. stage' \in {"undefined", "reboot", "kexeced", "started"} BY <1>1
  <2>3. stage' \notin Late BY <2>2 DEF Late, Working, ByKexec, Rooting
  <2> QED BY <1>1, <1>8, <2>1, <2>2, <2>3 DEF WishInv
<1>10. holds \in BOOLEAN OBVIOUS
<1>11. /\ RootType' /\ root'.tree = root.tree /\ root'.dtb = root.dtb /\ root'.processed = root.processed
       /\ root'.fstab = root.fstab /\ root'.named = root.named /\ root'.media = root.media /\ root'.sought = root.sought
       /\ root'.relabels = root.relabels /\ root'.added = root.added /\ root'.keep_realdata = holds
  <2> HIDE DEF holds
  <2> QED BY <1>1, <1>2, <1>10 DEF RootType
<1>12. JobType' BY <1>1, <1>2 DEF PrepInv, JobType
<1>13. FstabInv' BY <1>2, <1>11 DEF PrepInv, FstabInv
<1>14. RootInv' BY <1>1 DEF RootInv, Rooting
<1>15. stage' = "kexeced" => KernelWhole'
  <2>1. KernelWhole' = KernelWhole BY <1>1 DEF KernelWhole
  <2> QED BY <2>1, <1>1, <1>2 DEF PrepInv, WayInv
<1>16. ASSUME stage' = "started", IsAndroid(selected_rom)
       PROVE  RootDone' /\ root'.keep_realdata /\ DriveHeld'
  <2>1. prepared /\ stage = "save" /\ "reboot" \notin job.exit /\ "kexec" \notin job.exit BY <1>1, <1>16
  <2>2. job.exit = {} BY <2>1, <1>2, <1>16 DEF PrepInv, WayInv
  <2>3. RootDone BY <2>1, <2>2, <1>2 DEF PrepInv, WayInv
  <2>4. RootDone'
    <3>1. Foldered' = Foldered /\ Mediated' = Mediated /\ Quirked' = Quirked
      BY <1>1, <1>11 DEF Foldered, Rooted, SkipsFolder, HasFolder, Mediated, Quirked
    <3>2. Added' = Added BY <1>1, <1>11 DEF Added, Asked, has_fw
    <3> QED BY <3>1, <3>2, <2>3, <1>11 DEF RootDone
  <2>5. root'.keep_realdata BY <2>1, <2>2, <1>11
  <2>6. OnUsb(selected_rom) => Partition(selected_rom) \in Range(partitions) \cap kept
    BY <2>1, <2>2, <1>2, <1>16 DEF PrepInv, WayInv
  <2>7. DriveHeld' BY <2>6, <1>1, DriveIsHeld DEF DriveHeld
  <2> QED BY <2>4, <2>5, <2>7
<1>17. stage' \in {"undefined", "reboot", "kexeced", "started"} BY <1>1
<1>19. OnlyDrivesDangle'
  <2>1. stage' = "undefined" => Dangles BY <1>1
  <2> QED BY <2>1, <1>1 DEF OnlyDrivesDangle, Dangles, OnUsb
<1>18. WayInv' BY <1>1, <1>15, <1>16, <1>17, <1>19 DEF WayInv, Early, ByKexec
<1> QED BY <1>5, <1>6, <1>7, <1>9, <1>11, <1>12, <1>13, <1>14, <1>18 DEF Inv, ListInv, PrepInv

\* Nothing is done yet.
Fresh == root = FreshRoot /\ job = FreshJob /\ slips = {} /\ stage \in Early

LEMMA FreshTyped == Fresh => PrepInv
<1> SUFFICES ASSUME Fresh PROVE PrepInv OBVIOUS
<1> USE DEF Fresh
<1>1. /\ "none" \in Media /\ "none" \in Names /\ <<>> \in Tabs /\ {} \subseteq Lines /\ {} \subseteq Words
      /\ [f \in Range(Folders) |-> "primary"] \in [Range(Folders) -> {"primary", "rom", "dtb"}]
  BY DEF Media, Names, Tabs
<1>2. RootType BY <1>1 DEF FreshRoot, RootType
<1>3. JobType
  <2>1. NoKernel \in [of : Names, cmdline : SUBSET Words] BY <1>1 DEF NoKernel
  <2>2. {"umount"} \subseteq {"umount", "reboot", "kexec"} /\ 0 \in 0..4 OBVIOUS
  <2> QED BY <2>1, <2>2, <1>1 DEF FreshJob, JobType
<1>4. FstabInv BY DEF FstabInv, FreshRoot
<1>5. RootInv BY DEF RootInv, Rooting, Early
<1>6. WayInv BY DEF WayInv, OnlyDrivesDangle, Early, ByKexec
<1> QED BY <1>2, <1>3, <1>4, <1>5, <1>6 DEF PrepInv

LEMMA BootKeeps ==
    ASSUME Inv, NextBoot
    PROVE  Inv'
<1>1. /\ stage \in {"reboot", "kexeced"} /\ stage' = "load"
      /\ second_boot' = (wanted # NoWish) /\ wanted' = wanted /\ ini' = ini /\ ini_fails' = ini_fails \ {"load"}
      /\ root' = FreshRoot /\ job' = FreshJob /\ slips' = {}
      /\ mounted' = {} /\ updates' = 0 /\ scans' = 0 /\ watcher' = "none" /\ plugged' = plugged
      /\ roms' = roms /\ partitions' = partitions /\ current_rom' = current_rom /\ auto_boot_rom' = auto_boot_rom
  BY DEF NextBoot, DrivesAlone
<1>2. PartsInv /\ PointersInv /\ WishInv BY DEF Inv, ListInv
<1>3. partitions = <<>> /\ Range(partitions) = {} BY <1>1, <1>2 DEF WishInv, Range
<1>4. PartsInv' BY <1>1, <1>2, <1>3 DEF PartsInv
<1>5. PointersInv' BY <1>1, <1>2 DEF PointersInv, Lasts
<1>6. StageInv' BY <1>1 DEF StageInv, Early, Unchosen, Pending, Shown
<1>7. WishInv'
  <2>1. InLine' = InLine BY <1>1 DEF InLine
  <2>2. stage' \notin Late BY <1>1 DEF Late, Working, ByKexec, Rooting
  <2> QED BY <1>1, <1>2, <2>1, <2>2 DEF WishInv
<1>8. Fresh' BY <1>1 DEF Fresh, Early, FreshRoot, FreshJob, NoKernel, Folders
<1>9. PrepInv' BY <1>8, FreshTyped, PTL
<1> QED BY <1>4, <1>5, <1>6, <1>7, <1>9 DEF Inv, ListInv

-----------------------------------------------------------------------------
LEMMA PrepInitInv == PrepInit => Inv
<1> SUFFICES ASSUME PrepInit PROVE Inv OBVIOUS
<1>1. /\ plugged \subseteq Range(Drives) /\ roms = <<>> /\ partitions = <<>> /\ mounted = {}
      /\ current_rom = NoRom /\ auto_boot_rom = NoRom /\ watcher = "none" /\ updates = 0 /\ scans = 0
      /\ stage = "load" /\ second_boot = FALSE /\ wanted = NoWish
      /\ root = FreshRoot /\ job = FreshJob /\ slips = {}
  BY DEF PrepInit, ListInit
<1>2. PartsInv BY <1>1 DEF PartsInv, Range
<1>3. PointersInv BY <1>1 DEF PointersInv
<1>4. StageInv BY <1>1 DEF StageInv, Early, Unchosen, Pending, Shown
<1>5. NoWish \in [rom : Names, part : Range(Drives) \cup {NoPart}] BY DEF NoWish, Names
<1>6. WishInv BY <1>1, <1>5 DEF WishInv, Late, Working, ByKexec, Rooting
<1>7. PrepInv BY <1>1, FreshTyped DEF Fresh, Early
<1> QED BY <1>2, <1>3, <1>4, <1>6, <1>7 DEF Inv, ListInv

LEMMA PrepareKeeps ==
    ASSUME Inv, PrepareNext
    PROVE  Inv'
<1>1. ASSUME NEW ok \in BOOLEAN,
             FlashSecondary(ok) \/ RestorePrimary(ok) \/ kexec_load_exec(ok) \/ MountFolder(ok)
             \/ ProcessVendorFstab(ok) \/ ChangePatchLevel(ok)
      PROVE  Inv'
  BY <1>1, FlashKeeps, BeginKeeps, ExecKeeps, FolderKeeps, VendorFstabKeeps, PatchKeeps
<1>2. ASSUME NEW upTo \in {"init.rc", "file_contexts", "the end"}, rcadditions_write_to_files(upTo) PROVE Inv'
  BY <1>2, AdditionsKeep
<1>3. ASSUME NEW ok \in BOOLEAN, NEW fails \in SUBSET plugged, KexecPartitions(ok, fails) PROVE Inv'
  BY <1>3, KexecPartitionsKeeps
<1>4. ASSUME NEW ok \in BOOLEAN, NEW read \in BOOLEAN, NEW room \in BOOLEAN, multirom_fill_kexec_android(ok, read, room)
      PROVE  Inv'
  BY <1>4, FillKeeps
<1>5. ASSUME NEW keys \in RomInfos, NEW where \in {"root_img", "root_dir"}, NEW ok \in BOOLEAN,
             multirom_fill_kexec_linux(keys, where, ok)
      PROVE  Inv'
  BY <1>5, FillKeeps
<1>6. ASSUME NEW r \in RootFstabs, NEW v \in VendorFstabs, NEW named \in {"root", "vendor", "any"},
             NEW shown \in {"none", "shown"}, CopyBootFiles(r, v, named, shown)
      PROVE  Inv'
  BY <1>6, CopyKeeps
<1>7. ASSUME NEW mounts \in BOOLEAN, NEW hides \in BOOLEAN, MountVendor(mounts, hides) PROVE Inv'
  BY <1>7, VendorKeeps
<1>8. ASSUME NEW api \in {"old", "new"}, NEW newLayout \in BOOLEAN, NEW ok \in BOOLEAN,
             multirom_create_media_link(api, newLayout, ok)
      PROVE  Inv'
  BY <1>8, MediaKeeps
<1>9. ASSUME NEW failing \in BOOLEAN, NEW disabled \in BOOLEAN, NEW covered \in BOOLEAN, Quirks(failing, disabled, covered)
      PROVE  Inv'
  BY <1>9, QuirksKeep
<1>10. ASSUME NEW failing \in BOOLEAN, NEW disabled \in BOOLEAN, NEW covered \in BOOLEAN,
              NEW shown \in BOOLEAN, NEW mounts \in BOOLEAN, PrepareInternal(failing, disabled, covered, shown, mounts)
       PROVE  Inv'
  BY <1>10, InternalKeeps
<1>11. CASE SkipUi
  <2>1. UNCHANGED prepVars BY <1>11 DEF SkipUi
  <2> QED BY <2>1, <1>11, UiKeeps
<1>12. CASE Begin \/ PrepareOther BY <1>12, BeginKeeps
<1>13. CASE ProcessRootFstab BY <1>13, RootFstabKeeps
<1>14. CASE InjectFirmware BY <1>14, FirmwareKeeps
<1>15. CASE KeepMounted BY <1>15, KeepKeeps
<1>16. ASSUME NEW prepared \in BOOLEAN, NEW ok \in BOOLEAN, SaveAndFree(prepared, ok) PROVE Inv' BY <1>16, SaveKeeps
<1>17. CASE NextBoot BY <1>17, BootKeeps
<1> QED
  BY <1>1, <1>2, <1>3, <1>4, <1>5, <1>6, <1>7, <1>8, <1>9, <1>10, <1>11, <1>12, <1>13, <1>14, <1>15, <1>16, <1>17
  DEF PrepareNext

LEMMA StatusKeeps ==
    ASSUME NEW fails, NEW opens \in BOOLEAN, Inv, LoadStatus(fails, opens)
    PROVE  Inv'
<1>1. ListInv' /\ WishInv' BY LoadKeeps
<1>2. stage = "load" /\ stage' = "loaded" /\ root' = root /\ job' = job /\ slips' = slips
  BY DEF LoadStatus, multirom_load_status
<1>3. root = FreshRoot /\ job = FreshJob /\ slips = {} BY <1>2 DEF Inv, PrepInv, WayInv, Early
<1>4. Fresh' BY <1>2, <1>3 DEF Fresh, Early, FreshRoot, FreshJob, NoKernel, Folders
<1>5. PrepInv' BY <1>4, FreshTyped, PTL
<1> QED BY <1>1, <1>5 DEF Inv

LEMMA ListKeeps ==
    ASSUME Inv, UNCHANGED prepVars, ListNext \/ (~second_boot /\ (BootsAtOnce \/ ShowUi))
    PROVE  Inv'
BY UiKeeps DEF ListNext

LEMMA StutterKeeps ==
    ASSUME Inv, UNCHANGED <<listVars, prepVars>>
    PROVE  Inv'
<1>1. ListInv' /\ WishInv'
  BY DEF Inv, ListInv, PartsInv, PointersInv, StageInv, WishInv, Lasts, InLine, listVars, prepVars
<1>2. RootType' /\ JobType' /\ FstabInv' BY DEF Inv, PrepInv, RootType, JobType, FstabInv, listVars, prepVars
<1>3. /\ WantsFirmware' = WantsFirmware /\ Foldered' = Foldered /\ Mediated' = Mediated /\ Quirked' = Quirked
      /\ Rooted(job.done)' = Rooted(job.done) /\ KernelWhole' = KernelWhole /\ DriveHeld' = DriveHeld /\ Asked' = Asked
  BY DEF WantsFirmware, has_fw, Foldered, Rooted, SkipsFolder, HasFolder, Mediated, Quirked, KernelWhole, DriveHeld, Asked, listVars, prepVars
<1>4. Added' = Added BY <1>3 DEF Added, listVars, prepVars
<1>5. RootDone' = RootDone BY <1>3, <1>4 DEF RootDone, listVars, prepVars
<1>6. RootInv' BY <1>3 DEF Inv, PrepInv, RootInv, listVars, prepVars
<1>7. WayInv' BY <1>3, <1>5 DEF Inv, PrepInv, WayInv, OnlyDrivesDangle, OnUsb, listVars, prepVars
<1> QED BY <1>1, <1>2, <1>6, <1>7 DEF Inv, PrepInv

LEMMA PrepNextInv == Inv /\ [PrepNext]_<<listVars, prepVars>> => Inv'
<1> SUFFICES ASSUME Inv, [PrepNext]_<<listVars, prepVars>> PROVE Inv' OBVIOUS
<1>1. CASE PrepareNext BY <1>1, PrepareKeeps
<1>2. CASE ListNext /\ UNCHANGED prepVars BY <1>2, ListKeeps
<1>3. CASE ~second_boot /\ (BootsAtOnce \/ ShowUi) /\ UNCHANGED prepVars BY <1>3, ListKeeps
<1>4. ASSUME NEW fails \in SUBSET plugged, NEW opens \in BOOLEAN, LoadStatus(fails, opens) PROVE Inv'
  BY <1>4, StatusKeeps
<1>5. CASE UNCHANGED <<listVars, prepVars>> BY <1>5, StutterKeeps
<1> QED BY <1>1, <1>2, <1>3, <1>4, <1>5 DEF PrepNext

\* A root with all of that done is whole.
LEMMA DoneIsWhole ==
    ASSUME FstabInv, RootDone, RootType, root.keep_realdata
    PROVE  RootWhole
<1>1. Foldered /\ root.processed # "none" /\ Mediated /\ Quirked /\ Added BY DEF RootDone
<1>2. \A f \in {"system", "data", "cache"} : SkipsFolder(f) \/ root.tree[f] = "rom"
  <2>1. 1 \in 1..4 /\ 3 \in 1..4 /\ 4 \in 1..4 /\ Folders[1] = "system" /\ Folders[3] = "data" /\ Folders[4] = "cache"
    BY DEF Folders
  <2> QED BY <2>1, <1>1 DEF Foldered, Rooted, SkipsFolder, HasFolder
<1>3. ~Overlooked => Quiet(root.fstab[InForce]) /\ \E i \in DOMAIN root.fstab[InForce] : root.fstab[InForce][i].skipped
  <2>1. Sound(root.fstab[root.processed]) /\ (root.processed = "root" => root.named # "vendor") BY <1>1 DEF FstabInv
  <2>2. root.processed \in {"root", "vendor"} /\ root.named \in {"any", "root", "vendor"} BY <1>1 DEF RootType
  <2>3. ~Overlooked => InForce = root.processed BY <2>1, <2>2 DEF Overlooked, InForce
  <2> QED BY <2>1, <2>3 DEF Sound
<1> QED BY <1>1, <1>2, <1>3 DEF RootWhole, Foldered, Mediated, Quirked, Added

LEMMA InvStartsWhole == Inv => StartsWhole
<1> SUFFICES ASSUME Inv PROVE StartsWhole OBVIOUS
<1>1. stage = "started" /\ IsAndroid(selected_rom) => RootDone /\ root.keep_realdata /\ DriveHeld
  BY DEF Inv, PrepInv, WayInv
<1>2. FstabInv /\ RootType BY DEF Inv, PrepInv
<1>3. stage = "started" /\ IsAndroid(selected_rom) => RootWhole /\ DriveHeld BY <1>1, <1>2, DoneIsWhole
<1>4. stage = "kexeced" => KernelWhole BY DEF Inv, PrepInv, WayInv
<1>5. stage = "loaded" /\ second_boot /\ ini_fails = {} /\ wanted.part \in mounted \cup {NoPart} =>
         Saved(current_rom) = wanted
  BY DEF Inv, WishInv
<1>6. stage \in {"root", "keep", "save"} /\ second_boot /\ mr_no_kexec /\ "save" \notin ini_fails =>
         Saved(selected_rom) = wanted
  BY DEF Inv, WishInv, Late, Working, InLine
<1> QED BY <1>3, <1>4, <1>5, <1>6 DEF StartsWhole

\* What multirom() leaves behind is what was chosen: the root of an Android ROM, as whole as
\* slips tells, and the ROM's kernel; and unless multirom.ini was not written, a second boot
\* comes back to the same ROM, or, without kexec, goes no further.
THEOREM AlwaysStartsWhole == PrepSpec => []StartsWhole
<1>1. PrepInit => Inv BY PrepInitInv
<1>2. Inv /\ [PrepNext]_<<listVars, prepVars>> => Inv' BY PrepNextInv
<1>3. Inv => StartsWhole BY InvStartsWhole
<1> QED BY <1>1, <1>2, <1>3, PTL DEF PrepSpec

\* A pointer that is used after the list or the partitions were freed is one to the ROM of a
\* drive: those to a ROM of the storage last as long as multirom() uses them.
THEOREM AlwaysOnlyDrivesDangle == PrepSpec => []OnlyDrivesDangle
<1>1. PrepInit => Inv BY PrepInitInv
<1>2. Inv /\ [PrepNext]_<<listVars, prepVars>> => Inv' BY PrepNextInv
<1>3. Inv => OnlyDrivesDangle BY DEF Inv, PrepInv, WayInv
<1> QED BY <1>1, <1>2, <1>3, PTL DEF PrepSpec

\* The chosen ROM is one of a directory's, the partitions are of one search and mounted, and
\* the watcher has gone by the time one is booted.
THEOREM ListSafe == PrepSpec => []ListInv
<1>1. PrepInit => Inv BY PrepInitInv
<1>2. Inv /\ [PrepNext]_<<listVars, prepVars>> => Inv' BY PrepNextInv
<1>3. Inv => ListInv BY DEF Inv
<1> QED BY <1>1, <1>2, <1>3, PTL DEF PrepSpec
================================================================================
