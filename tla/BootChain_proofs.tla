--------------------------- MODULE BootChain_proofs ---------------------------
(***************************************************************************)
(* Theorems about NoKexec and BootChain, for any sets of images and ROMs,  *)
(* any options and any number of faults.  First the calls of no_kexec.c:   *)
(* types, the inductive invariant behind PrimaryRecoverable, ResultTruthful*)
(* and FailedCallHarmless, and that they implement PrimaryCustody.  Then   *)
(* the chain: it touches the slot only through whole calls, so what was    *)
(* shown of those holds of it; and on top the invariant (ChainInv) that    *)
(* ties multirom()'s stage and locals to the slot, the running kernel and  *)
(* multirom.ini, from which the four invariants and two action properties  *)
(* of the boot follow.                                                     *)
(***************************************************************************)
EXTENDS BootChain, TLAPS

\* Between two writes of the slot: it holds the primary, or a tagged secondary
\* whose backup is the primary.
Settled == Holds(slot) \/ (Tagged /\ Holds(backup))

Untouched == {"idle", "is_new_primary", "backup_primary", "set_oslevel",
              "copy_to_temp", "inject", "flash_slot",
              "is_secondary_in_primary", "access_backup"}

\* What was not written since the last sync is what storage holds.
StorageInv ==
    /\ "slot" \notin dirty => slot = disk.slot
    /\ "backup" \notin dirty => backup = disk.backup
    /\ pc = "idle" => dirty = {}
    /\ pc \in Untouched => "slot" \notin dirty

\* Which call a step belongs to.
CallInv ==
    /\ pc \in {"is_new_primary", "backup_primary", "set_oslevel",
               "set_secondary_flag"} => req \in Roms
    /\ pc \in {"is_secondary_in_primary", "access_backup", "cleanup"} => req = "none"
    /\ pc = "flash_slot" => temp # NoFile

\* Who holds the primary at each step, while no mishap happened.
StepInv ==
    /\ "slot" \notin dirty => Settled /\ (Holds(slot) \/ "backup" \notin dirty)
    /\ pc = "backup_primary" => Holds(slot)
    /\ pc \in {"set_oslevel", "copy_to_temp", "inject", "flash_slot",
               "access_backup", "set_secondary_flag"} => Holds(backup)
    /\ pc = "inject" => temp \in {Source, NoFile}
    /\ pc = "flash_slot" => temp = Source
    /\ pc = "set_secondary_flag" => slot.img = req
    /\ pc = "cleanup" => Holds(slot)
    /\ pc = "returned" =>
         IF res # 0 THEN "slot" \notin dirty
         ELSE IF req \in Roms THEN slot.img = req /\ Tagged /\ Holds(backup)
         ELSE Holds(slot)

IInv == TypeOK /\ StorageInv /\ CallInv /\ (exposed = "none" => StepInv)

-----------------------------------------------------------------------------
\* Tearing a file, or copying one, keeps it a file of its kind.
LEMMA TornType ==
    /\ \A f \in Images : Torn(f) \in Images
    /\ Torn(NoFile) = NoFile
<1>1. ASSUME NEW f \in Images PROVE Torn(f) \in Images
  BY <1>1 DEF Torn, Images
<1>2. Torn(NoFile) = NoFile
  BY DEF Torn, NoFile
<1> QED
  BY <1>1, <1>2

LEMMA CopiedImage ==
    ASSUME NEW from \in Images, NEW to \in Images, NEW how \in Hows
    PROVE  Copied(from, to, how) \in Images
BY TornType DEF Copied, Hows

\* What a failed write or a power loss leaves of an image is still an image.
LEMMA HalfWrittenType == \A f \in Images : HalfWritten(f) \subseteq Images
  <1> SUFFICES ASSUME NEW f \in Images, NEW t \in BOOLEAN
               PROVE  [img |-> f.img, tag |-> t, whole |-> FALSE] \in Images
    BY DEF HalfWritten
  <1> QED
    BY DEF Images

LEMMA SurvivorsType ==
    ASSUME NEW what, NEW S, Images \subseteq S, S \subseteq Images \cup {NoFile},
           NEW now \in S, NEW old \in S
    PROVE  Survivors(what, now, old) \subseteq S
BY HalfWrittenType DEF Survivors

LEMMA CopiedFile ==
    ASSUME NEW from \in Images \cup {NoFile}, NEW to \in Images \cup {NoFile},
           NEW how \in Hows
    PROVE  Copied(from, to, how) \in Images \cup {NoFile}
BY TornType DEF Copied, Hows

\* Type correctness: every reachable state is of the declared types.
THEOREM TypeCorrect == Spec => [](TypeOK /\ CallInv)
<1>1. Init => TypeOK /\ CallInv
  BY NoKexecAssumption DEF Init, TypeOK, CallInv, Images, PrimaryImage, NoFile, Labels, Mishaps
<1>2. TypeOK /\ CallInv /\ [Next]_vars => (TypeOK /\ CallInv)'
  <2> SUFFICES ASSUME TypeOK, CallInv, [Next]_vars PROVE (TypeOK /\ CallInv)'
    OBVIOUS
  <2> USE NoKexecAssumption DEF TypeOK, CallInv, Goto, Return, Idle, Spend, Labels
  <2>1. ASSUME NEW r \in Roms, FlashSecondary(r) PROVE (TypeOK /\ CallInv)'
    BY <2>1 DEF FlashSecondary, FindBoot
  <2>2. CASE RestorePrimary
    BY <2>2 DEF RestorePrimary, FindBoot
  <2>3. CASE IsNewPrimary
    BY <2>3 DEF IsNewPrimary, Harm, Mishaps
  <2>4. ASSUME NEW how \in Hows, BackupPrimary(how) PROVE (TypeOK /\ CallInv)'
    <3>1. backup' \in Images \cup {NoFile}
      BY <2>4, CopiedFile DEF BackupPrimary
    <3> QED
      BY <2>4, <3>1 DEF BackupPrimary, Harm, Mishaps
  <2>5. ASSUME NEW failed \in {"nothing", "load", "write"}, SetOslevel(failed)
          PROVE  (TypeOK /\ CallInv)'
    <3>1. romImg' \in [Roms -> BOOLEAN] /\ dirty' \in SUBSET ({"slot", "backup"} \cup Roms)
      BY <2>5 DEF SetOslevel
    <3>2. pc' \in Labels /\ res' \in -4 .. 0 /\ faults' \in 0 .. MaxFaults
      BY <2>5 DEF SetOslevel
    <3> QED
      BY <2>5, <3>1, <3>2 DEF SetOslevel
  <2>6. ASSUME NEW how \in Hows, CopyToTemp(how) PROVE (TypeOK /\ CallInv)'
    <3>1. Source \in Images \cup {NoFile}
      BY DEF Source, Images
    <3>2. temp' \in Images \cup {NoFile}
      BY <2>6, <3>1, CopiedFile DEF CopyToTemp
    <3>3. exposed' \in Mishaps \cup {"none"}
      BY <2>6 DEF CopyToTemp, Harm, Mishaps
    <3> QED
      BY <2>6, <3>2, <3>3 DEF CopyToTemp
  <2>7. CASE InjectTemp
    BY <2>7 DEF InjectTemp
  <2>8. ASSUME NEW how \in Hows, FlashSlot(how) PROVE (TypeOK /\ CallInv)'
    <3>1. slot' \in Images
      BY <2>8, CopiedImage DEF FlashSlot
    <3> QED
      BY <2>8, <3>1 DEF FlashSlot, Harm, Mishaps
  <2>9. ASSUME NEW ok \in BOOLEAN, SetSecondaryFlag(ok) PROVE (TypeOK /\ CallInv)'
    <3>1. slot' \in Images
      <4>1. WithTag(slot) \in Images
        BY DEF Images, WithTag
      <4> QED
        BY <2>9, <4>1, HalfWrittenType DEF SetSecondaryFlag
    <3>2. exposed' \in Mishaps \cup {"none"}
      BY <2>9 DEF SetSecondaryFlag, Harm, Mishaps
    <3>3. faults' \in 0 .. MaxFaults
      BY <2>9 DEF SetSecondaryFlag, Images
    <3> QED
      BY <2>9, <3>1, <3>2, <3>3 DEF SetSecondaryFlag
  <2>10. CASE IsSecondaryInPrimary
    BY <2>10 DEF IsSecondaryInPrimary, Harm, Mishaps
  <2>11. CASE AccessBackup
    BY <2>11 DEF AccessBackup
  <2>12. CASE Cleanup
    BY <2>12 DEF Cleanup
  <2>13. CASE Sync
    BY <2>13 DEF Sync
  <2>14. CASE Killed
    <3>1. exposed' \in Mishaps \cup {"none"}
      BY <2>14 DEF Killed, Harm, Mishaps
    <3> QED
      BY <2>14, <3>1 DEF Killed
  <2>15. CASE PowerLoss
    <3>1. slot' \in Images
      BY <2>15, SurvivorsType DEF PowerLoss
    <3>2. backup' \in Images \cup {NoFile}
      BY <2>15, SurvivorsType DEF PowerLoss
    <3>3. exposed' \in Mishaps \cup {"none"}
      BY <2>15 DEF PowerLoss, Harm, Mishaps
    <3>4. disk' \in [slot : Images, backup : Images \cup {NoFile}]
      BY <2>15, <3>1, <3>2 DEF PowerLoss
    <3> QED
      BY <2>15, <3>1, <3>2, <3>3, <3>4 DEF PowerLoss
  <2>16. CASE Reboot
    BY <2>16 DEF Reboot
  <2>17. ASSUME NEW p \in Primaries, InstallPrimary(p) PROVE (TypeOK /\ CallInv)'
    BY <2>17 DEF InstallPrimary, Images
  <2>18. ASSUME NEW r \in Roms, InstallRom(r) PROVE (TypeOK /\ CallInv)'
    BY <2>18 DEF InstallRom
  <2>19. CASE UNCHANGED vars
    BY <2>19 DEF vars
  <2> QED
    BY <2>1, <2>2, <2>3, <2>4, <2>5, <2>6, <2>7, <2>8, <2>9, <2>10, <2>11,
       <2>12, <2>13, <2>14, <2>15, <2>16, <2>17, <2>18, <2>19 DEF Next, CallStep
<1> QED
  BY <1>1, <1>2, PTL DEF Spec

\* What has not been written since the last sync is what storage holds.
LEMMA StorageStep == TypeOK /\ CallInv /\ StorageInv /\ [Next]_vars => StorageInv'
<1> SUFFICES ASSUME TypeOK, CallInv, StorageInv, [Next]_vars PROVE StorageInv'
  OBVIOUS
<1> USE DEF StorageInv, Untouched, Goto, Return, Idle
<1>1. ASSUME NEW r \in Roms, FlashSecondary(r) PROVE StorageInv'
  BY <1>1 DEF FlashSecondary, FindBoot
<1>2. CASE RestorePrimary
  BY <1>2 DEF RestorePrimary, FindBoot
<1>3. CASE IsNewPrimary
  BY <1>3 DEF IsNewPrimary
<1>4. ASSUME NEW how \in Hows, BackupPrimary(how) PROVE StorageInv'
  BY <1>4 DEF BackupPrimary, Copied, Hows
<1>5. ASSUME NEW failed \in {"nothing", "load", "write"}, SetOslevel(failed)
        PROVE  StorageInv'
  BY <1>5, NoKexecAssumption DEF SetOslevel, CallInv
<1>6. ASSUME NEW how \in Hows, CopyToTemp(how) PROVE StorageInv'
  BY <1>6 DEF CopyToTemp
<1>7. CASE InjectTemp
  BY <1>7 DEF InjectTemp
<1>8. ASSUME NEW how \in Hows, FlashSlot(how) PROVE StorageInv'
  BY <1>8 DEF FlashSlot, Copied, Hows
<1>9. ASSUME NEW ok \in BOOLEAN, SetSecondaryFlag(ok) PROVE StorageInv'
  BY <1>9 DEF SetSecondaryFlag
<1>10. CASE IsSecondaryInPrimary
  BY <1>10 DEF IsSecondaryInPrimary
<1>11. CASE AccessBackup
  BY <1>11 DEF AccessBackup
<1>12. CASE Cleanup
  BY <1>12 DEF Cleanup
<1>13. CASE Sync
  BY <1>13 DEF Sync
<1>14. CASE Killed
  BY <1>14 DEF Killed
<1>15. CASE PowerLoss
  BY <1>15 DEF PowerLoss
<1>16. CASE Reboot
  BY <1>16 DEF Reboot
<1>17. ASSUME NEW p \in Primaries, InstallPrimary(p) PROVE StorageInv'
  BY <1>17 DEF InstallPrimary, TypeOK
<1>18. ASSUME NEW r \in Roms, InstallRom(r) PROVE StorageInv'
  BY <1>18 DEF InstallRom
<1>19. CASE UNCHANGED vars
  BY <1>19 DEF vars
<1> QED
  BY <1>1, <1>2, <1>3, <1>4, <1>5, <1>6, <1>7, <1>8, <1>9, <1>10, <1>11,
     <1>12, <1>13, <1>14, <1>15, <1>16, <1>17, <1>18, <1>19 DEF Next, CallStep

\* The primary image is handed from the slot to the backup and back without a
\* moment at which neither has it.
LEMMA StepStep ==
    TypeOK /\ CallInv /\ StorageInv /\ (exposed = "none" => StepInv) /\ [Next]_vars
        => (exposed = "none" => StepInv)'
<1> SUFFICES ASSUME TypeOK, CallInv, StorageInv, exposed = "none" => StepInv,
                    [Next]_vars, exposed' = "none"
             PROVE  StepInv'
  OBVIOUS
<1>0. /\ PrimaryImage.tag = FALSE
      /\ NoFile # PrimaryImage
      /\ slot.tag \in BOOLEAN
      /\ pc = "set_oslevel" => req \notin {"slot", "backup", "none"}
  BY NoKexecAssumption DEF PrimaryImage, NoFile, TypeOK, Images, CallInv
<1> USE NoKexecAssumption DEF StepInv, Settled, Tagged, Holds, Goto, Return, Idle, StorageInv,
        CallInv, Untouched
<1>1. ASSUME NEW r \in Roms, FlashSecondary(r) PROVE StepInv'
  BY <1>1 DEF FlashSecondary, FindBoot, PrimaryImage
<1>2. CASE RestorePrimary
  BY <1>2 DEF RestorePrimary, FindBoot, PrimaryImage
<1>3. CASE IsNewPrimary
  <2>1. PICK readable \in BOOLEAN :
              /\ ~(~readable /\ ~Tagged)
              /\ Goto(IF IsNew(readable) THEN "backup_primary" ELSE "set_oslevel")
    BY <1>3, <1>0 DEF IsNewPrimary, Harm
  <2>2. UNCHANGED <<slot, backup, temp, dirty, req, primary>>
    BY <1>3 DEF IsNewPrimary
  <2>3. pc = "is_new_primary" /\ exposed = "none"
    BY <1>3 DEF IsNewPrimary, Harm
  <2>4. CASE IsNew(readable)
    BY <1>0, <2>1, <2>2, <2>3, <2>4 DEF PrimaryImage, IsNew, HasBackup
  <2>5. CASE ~IsNew(readable)
    BY <1>0, <2>1, <2>2, <2>3, <2>5 DEF PrimaryImage, IsNew, HasBackup
  <2> QED
    BY <2>4, <2>5
<1>4. ASSUME NEW how \in Hows, BackupPrimary(how) PROVE StepInv'
  <2>1. CASE how = "ok"
    BY <1>4, <2>1 DEF BackupPrimary, PrimaryImage, Harm, Copied
  <2>2. CASE how = "fail"
    BY <1>4, <2>2 DEF BackupPrimary, PrimaryImage, Harm, Copied
  <2> QED
    BY <1>4, <2>1, <2>2 DEF BackupPrimary, Harm, Hows
<1>5. ASSUME NEW failed \in {"nothing", "load", "write"}, SetOslevel(failed)
        PROVE  StepInv'
  <2>1. UNCHANGED <<slot, backup, temp, req, primary, exposed>> /\ pc = "set_oslevel"
    BY <1>5 DEF SetOslevel
  <2>2. /\ dirty' = dirty \/ dirty' = dirty \cup {req}
        /\ pc' = "copy_to_temp" \/ (pc' = "returned" /\ res' # 0)
    BY <1>5 DEF SetOslevel
  <2> QED
    BY <1>0, <2>1, <2>2 DEF PrimaryImage
<1>6. ASSUME NEW how \in Hows, CopyToTemp(how) PROVE StepInv'
  <2>1. exposed = "none" /\ (how = "ok" \/ (how = "fail" /\ temp = NoFile))
    BY <1>6 DEF CopyToTemp, Harm, Hows
  <2>2. temp' \in {Source, NoFile}
    BY <1>6, <2>1 DEF CopyToTemp, Copied
  <2>3. Source' = Source
    BY <1>6 DEF CopyToTemp, Source
  <2> QED
    BY <1>6, <2>1, <2>2, <2>3 DEF CopyToTemp, PrimaryImage, NoFile
<1>7. CASE InjectTemp
  BY <1>7 DEF InjectTemp, PrimaryImage, Source
<1>8. ASSUME NEW how \in Hows, FlashSlot(how) PROVE StepInv'
  <2>1. CASE how = "ok"
    BY <1>8, <2>1 DEF FlashSlot, PrimaryImage, Harm, Copied, Source
  <2>2. CASE how = "fail"
    BY <1>8, <2>2 DEF FlashSlot, PrimaryImage, Harm, Copied
  <2> QED
    BY <1>8, <2>1, <2>2 DEF FlashSlot, Harm, Hows
<1>9. ASSUME NEW ok \in BOOLEAN, SetSecondaryFlag(ok) PROVE StepInv'
  BY <1>9 DEF SetSecondaryFlag, PrimaryImage, Harm, WithTag
<1>10. CASE IsSecondaryInPrimary
  BY <1>10 DEF IsSecondaryInPrimary, PrimaryImage, Harm, MustRestore
<1>11. CASE AccessBackup
  BY <1>11 DEF AccessBackup, PrimaryImage, HasBackup
<1>12. CASE Cleanup
  BY <1>12 DEF Cleanup, PrimaryImage
<1>13. CASE Sync
  BY <1>13 DEF Sync, PrimaryImage
<1>14. CASE Killed
  BY <1>14 DEF Killed, PrimaryImage, Harm
<1>15. CASE PowerLoss
  BY <1>15 DEF PowerLoss, PrimaryImage, Harm, Survivors
<1>16. CASE Reboot
  BY <1>16 DEF Reboot, PrimaryImage
<1>17. ASSUME NEW p \in Primaries, InstallPrimary(p) PROVE StepInv'
  BY <1>17 DEF InstallPrimary, PrimaryImage
<1>18. ASSUME NEW r \in Roms, InstallRom(r) PROVE StepInv'
  BY <1>18 DEF InstallRom, PrimaryImage
<1>19. CASE UNCHANGED vars
  BY <1>19 DEF vars, PrimaryImage, Source
<1> QED
  BY <1>1, <1>2, <1>3, <1>4, <1>5, <1>6, <1>7, <1>8, <1>9, <1>10, <1>11,
     <1>12, <1>13, <1>14, <1>15, <1>16, <1>17, <1>18, <1>19 DEF Next, CallStep

THEOREM Invariance == Spec => []IInv
<1>1. Init => StorageInv /\ StepInv
  BY DEF Init, StorageInv, StepInv, Settled, Holds, Untouched
<1>2. Spec => [](TypeOK /\ CallInv)
  BY TypeCorrect
<1> QED
  BY <1>1, <1>2, StorageStep, StepStep, PTL DEF Spec, IInv

-----------------------------------------------------------------------------
LEMMA IInvRecoverable == IInv => PrimaryRecoverable
BY DEF IInv, StorageInv, StepInv, PrimaryRecoverable, Settled, Untouched, TypeOK, Labels

\* The primary image the user installed last is never out of reach (no_kexec.c
\* as a whole), whatever calls are made, fail or are cut short, unless one of
\* the five mishaps happened since.
THEOREM Recoverable == Spec => []PrimaryRecoverable
BY Invariance, IInvRecoverable, PTL

LEMMA IInvResults == IInv => ResultTruthful /\ FailedCallHarmless
BY DEF IInv, StorageInv, StepInv, ResultTruthful, FailedCallHarmless, Tagged

\* What the two entry points return 0 for has been done: the ROM is in the slot,
\* tagged, or the primary is back.
THEOREM Truthful == Spec => []ResultTruthful
BY Invariance, IInvResults, PTL

\* A call that failed without a mishap has not written the slot.
THEOREM Harmless == Spec => []FailedCallHarmless
BY Invariance, IInvResults, PTL

-----------------------------------------------------------------------------
\* Only an installation changes what the primary is, and no step without a
\* mishap changes both places.
LEMMA OnePlaceAtATime ==
    ASSUME IInv, [Next]_vars, exposed' = "none"
    PROVE  \/ \E p \in Primaries : InstallPrimary(p)
           \/ primary' = primary /\ exposed = "none" /\ (slot' = slot \/ backup' = backup)
<1>1. CASE \E r \in Roms : FlashSecondary(r) \/ InstallRom(r)
  BY <1>1 DEF FlashSecondary, FindBoot, InstallRom
<1>2. CASE RestorePrimary \/ Killed \/ Sync \/ Reboot \/ UNCHANGED vars
  BY <1>2 DEF RestorePrimary, FindBoot, Killed, Harm, Sync, Reboot, vars
<1>3. CASE CallStep
  <2>1. CASE \E how \in Hows : BackupPrimary(how) \/ CopyToTemp(how) \/ FlashSlot(how)
    BY <2>1 DEF BackupPrimary, CopyToTemp, FlashSlot, Harm
  <2>2. CASE \E failed \in {"nothing", "load", "write"} : SetOslevel(failed)
    BY <2>2 DEF SetOslevel
  <2>3. CASE \E ok \in BOOLEAN : SetSecondaryFlag(ok)
    BY <2>3 DEF SetSecondaryFlag, Harm
  <2>4. CASE IsNewPrimary \/ IsSecondaryInPrimary
    BY <2>4 DEF IsNewPrimary, IsSecondaryInPrimary, Harm
  <2>5. CASE InjectTemp \/ AccessBackup \/ Cleanup
    BY <2>5 DEF InjectTemp, AccessBackup, Cleanup
  <2> QED
    BY <1>3, <2>1, <2>2, <2>3, <2>4, <2>5 DEF CallStep
<1>4. CASE PowerLoss
  BY <1>4 DEF PowerLoss, Harm, Survivors
<1> QED
  BY <1>1, <1>2, <1>3, <1>4 DEF Next

\* The workaround implements PrimaryCustody: the slot and the backup never give
\* up the primary image in the same step.
THEOREM Implements == Spec => CustodySpec
<1>1. Init => Custody!Init
  BY NoKexecAssumption DEF Init, Custody!Init, held, lost, Holds, PrimaryImage, NoFile
<1>2. IInv /\ PrimaryRecoverable /\ PrimaryRecoverable' /\ [Next]_vars
        => [Custody!Next]_<<held, lost>>
  <2> SUFFICES ASSUME IInv, PrimaryRecoverable, PrimaryRecoverable', [Next]_vars
               PROVE  Custody!Next \/ UNCHANGED <<held, lost>>
    OBVIOUS
  <2>1. CASE exposed' # "none"
    BY <2>1 DEF Custody!Next, Custody!Mishap, Custody!Places, held, lost
  <2>2. ASSUME NEW p \in Primaries, InstallPrimary(p) PROVE Custody!Next
    <3>1. Holds(slot)' /\ lost' = FALSE
      BY <2>2 DEF InstallPrimary, Holds, PrimaryImage, lost
    <3> QED
      BY <3>1 DEF Custody!Next, Custody!Install, Custody!Places, held
  <2>3. CASE exposed' = "none" /\ exposed = "none" /\ primary' = primary
             /\ (slot' = slot \/ backup' = backup)
    <3>1. held # {} /\ held' # {} /\ lost = FALSE /\ lost' = FALSE
      BY <2>3 DEF PrimaryRecoverable, held, lost
    <3>2. held \subseteq Custody!Places /\ held' \subseteq Custody!Places
      BY DEF held, Custody!Places
    <3>3. \E x \in Custody!Places : held' = held \/ held' = held \cup {x} \/ held' = held \ {x}
      BY <2>3 DEF held, Holds, PrimaryImage, Custody!Places
    <3> QED
      BY <3>1, <3>3 DEF Custody!Next, Custody!Copy, Custody!Release
  <2> QED
    BY <2>1, <2>2, <2>3, OnePlaceAtATime
<1> QED
  BY <1>1, <1>2, Invariance, Recoverable, PTL DEF Spec, CustodySpec, Custody!Spec

-----------------------------------------------------------------------------
\* The chain.

Fits(x, k) == k \in IF x \in Roms \cup Linux THEN {x} ELSE Primaries

Underway == {"load", "select", "commit", "flashing", "restoring", "prepare", "save"}
Ending == {"save", "sync", "exit"}

\* Where the call of no_kexec.c is at each stage of multirom().
CallsInv ==
    /\ stage \in Underway \cup {"sync"} \/ pc = "idle"
    /\ stage \in {"load", "select", "commit"} => pc = "idle"
    /\ stage \in {"save", "sync"} => pc \in {"idle", "returned"}
    /\ stage = "flashing" => pc # "idle" /\ req = s.toBoot /\ s.toBoot \in Roms /\ ~s.second
    /\ stage = "restoring" => pc # "idle" /\ req = "none" /\ s.second
    /\ stage = "prepare" => IF s.second THEN pc = "returned" /\ res = 0 /\ req = "none"
                            ELSE pc = "idle" /\ s.toBoot \notin Roms

\* multirom()'s locals at each stage.
LocalsInv ==
    /\ stage # "sync" => pending = ini
    /\ stage \in Underway \cup {"sync", "exit", "hung"} \/ s = Blank
    /\ stage = "select" => s.toBoot = "none" /\ s.arg = "none" /\ ~s.second
    /\ stage \in {"commit", "flashing", "restoring", "prepare"} =>
         /\ s.toBoot # "none"
         /\ s.arg # "none" => ~s.second /\ s.toBoot \in Roms \cup Linux
    /\ stage \in {"flashing", "restoring", "prepare"} => ~s.force
    /\ stage \in Ending =>
         /\ s.toBoot # "none" => ~s.force
         /\ s.exit = "kexec" => s.toBoot \in Linux
         /\ s.exit = "run" => s.toBoot \in Shared \cup Roms
         /\ s.exit = "restart" => s.arg = "none"

\* A tagged slot is named by the ROM of multirom.ini.
Names(rom) == Tagged => rom = slot.img \/ (rom = Internal /\ slot.img \in External)

\* What runs, or is about to, while no mishap is open.
CleanInv ==
    /\ Tagged => slot.img \in Roms
    \* multirom.ini and the slot
    /\ stage \notin {"flashing", "save", "sync"} => Names(ini.rom)
    /\ stage = "save" => Names(s.rom) /\ ("slot" \notin dirty => Names(ini.rom))
    /\ stage = "sync" => Names(pending.rom)
    \* the kernel and the slot
    /\ stage = "trampoline" => kernel = slot.img
    /\ stage \in {"load", "select", "commit"} /\ s.arg = "none" => kernel = slot.img
    /\ stage \in {"select", "commit"} => s.second = Tagged
    /\ stage = "commit" /\ s.second => s.toBoot = slot.img /\ s.rom = slot.img
    /\ stage = "restoring" =>
         /\ kernel = s.toBoot /\ s.toBoot \in Roms /\ s.rom = s.toBoot
         /\ "slot" \notin dirty => Tagged /\ slot.img = s.rom
    /\ stage = "flashing" /\ s.arg = "none" => kernel = primary
    /\ stage = "prepare" =>
         /\ Holds(slot)
         /\ s.second => kernel = s.toBoot /\ s.toBoot \in Roms
         /\ ~s.second /\ s.arg = "none" => kernel = primary
    /\ stage \in Underway /\ "slot" \notin dirty /\ (s.arg # "none" \/ kernel \in Primaries)
         => Holds(slot) /\ (s.arg = "none" => kernel = primary)
    /\ stage \in Underway \cup Ending /\ s.arg # "none" => Fits(system, kernel)
    \* how it ends
    /\ stage \in Ending =>
         /\ s.exit \in {"kexec", "run", "umount", "restart"} => Holds(slot)
         /\ s.exit = "run" => Fits(s.toBoot, kernel)
         /\ s.exit \in {"umount", "restart"} /\ s.arg = "none" => kernel = primary
    /\ stage = "running" => Holds(slot) /\ Fits(system, kernel)

\* The next boot will serve the request.
Due(i) == i.rom = chosen /\ (i.force \/ Tagged)

\* Where a request can be pending at all.
AskedInv ==
    chosen # "none" =>
        /\ stage \in {"boot", "trampoline", "load", "commit", "flashing", "restoring",
                      "prepare", "save", "sync", "exit", "hung"}
        /\ stage \in Ending => s.exit \in {"reboot", "kexec", "run", "umount"}

RequestInv ==
    chosen # "none" =>
        /\ IF stage = "load" /\ s.arg # "none" THEN chosen = s.arg ELSE chosen \in Reachable
        /\ stage \in {"boot", "trampoline"} \/ (stage = "load" /\ s.arg = "none") => Due(ini)
        /\ stage \in {"commit", "flashing", "restoring", "prepare"} => chosen = s.toBoot
        /\ stage \in Ending =>
             /\ s.exit \in {"kexec", "run"} => chosen = s.toBoot
             /\ s.exit = "umount" => s.arg = "none" /\ (strained = "none" => chosen = Internal)
             /\ s.exit = "reboot" =>
                  /\ stage = "save" => Due([rom |-> s.rom, force |-> s.force])
                  /\ stage = "sync" => Due(pending)
                  /\ stage = "exit" => Due(ini)

\* AUTOBOOT_FORCE_CURRENT is off wherever a system is being started.
ForceInv ==
    /\ stage = "sync" /\ s.toBoot # "none" => ~pending.force
    /\ stage = "exit" /\ s.toBoot # "none" => ~ini.force

ShapeInv == BootTypeOK /\ CallsInv /\ LocalsInv

ChainInv ==
    /\ ShapeInv
    /\ AskedInv
    /\ Clean => CleanInv /\ ForceInv
    /\ exposed = "none" => RequestInv

\* Every step of the chain is a step of NoKexec or leaves the slot alone.
LEMMA ChainStep == BootNext => [Next]_vars
<1> SUFFICES ASSUME BootNext PROVE [Next]_vars
  OBVIOUS
<1>1. ASSUME DeviceStep PROVE [Next]_vars
  <2>1. CASE Bootloader
    BY <2>1 DEF Bootloader, Next
  <2>2. CASE \/ RunMultirom \/ RunCoreGivesUp \/ FlashReturned \/ RestoreReturned
             \/ Leave \/ KexecFails
    BY <2>2 DEF RunMultirom, RunCoreGivesUp, FlashReturned, RestoreReturned, Leave, KexecFails
  <2>3. ASSUME NEW readable \in BOOLEAN, NEW again \in BOOLEAN,
               MountFails(readable) \/ LoadStatus(readable, again)
        PROVE  UNCHANGED vars
    BY <2>3 DEF MountFails, LoadStatus
  <2>4. CASE Commit
    <3>1. CASE s.second
      BY <2>4, <3>1 DEF Commit, Route, Next
    <3>2. CASE ~s.second /\ s.toBoot \in Roms
      BY <2>4, <3>2 DEF Commit, Route, Next
    <3>3. CASE ~s.second /\ s.toBoot \notin Roms
      BY <2>4, <3>3 DEF Commit, Route
    <3> QED
      BY <3>1, <3>2, <3>3
  <2>5. CASE InCall
    BY <2>5 DEF InCall, Next
  <2>6. ASSUME NEW ok \in BOOLEAN, Prepare(ok) \/ Save(ok) PROVE UNCHANGED vars
    BY <2>6 DEF Prepare, Save
  <2>7. CASE SyncAll
    BY <2>7 DEF SyncAll, Next
  <2>8. ASSUME NEW restart \in BOOLEAN, Died(restart) PROVE [Next]_vars
    BY <2>8 DEF Died, Next
  <2> QED
    BY <1>1, <2>1, <2>2, <2>3, <2>4, <2>5, <2>6, <2>7, <2>8 DEF DeviceStep
<1>2. ASSUME UserStep PROVE [Next]_vars
  <2>1. CASE DecryptScreen \/ LeaveUI \/ PressPower \/ Restart \/ PlugUsb
    BY <2>1 DEF DecryptScreen, LeaveUI, PressPower, Restart, PlugUsb
  <2>2. ASSUME NEW x \in Systems, Pick(x) \/ BootRom(x) PROVE UNCHANGED vars
    BY <2>2 DEF Pick, BootRom
  <2>3. CASE PowerCut
    BY <2>3 DEF PowerCut, Next
  <2>4. CASE Reinstall
    BY <2>4 DEF Reinstall, Next
  <2> QED
    BY <1>2, <2>1, <2>2, <2>3, <2>4 DEF UserStep, Reachable
<1> QED
  BY <1>1, <1>2 DEF BootNext

\* The chain implements NoKexec.
THEOREM ChainImplements == BootSpec => NoKexecSpec
<1>1. UNCHANGED bootVars => UNCHANGED vars
  BY DEF bootVars
<1>2. [BootNext]_bootVars => [Next]_vars
  BY <1>1, ChainStep
<1> QED
  BY <1>2, PTL DEF BootSpec, BootInit, NoKexecSpec, Spec

\* Across reboots, power losses, crashes and whatever the user does, the primary
\* image can be had back, unless a mishap happened since it was installed.
THEOREM ChainRecoverable == BootSpec => []PrimaryRecoverable
BY ChainImplements, Recoverable, PTL DEF NoKexecSpec

-----------------------------------------------------------------------------
\* ---- types and the shape of a boot
Locals == [rom : Systems, force : BOOLEAN, second : BOOLEAN,
           toBoot : Systems \cup {"none"}, exit : Exits,
           arg : Systems \cup {"none"}, method : {"normal", "nokexec"}]

\* A step within a call belongs to the same call and does not leave it.
LEMMA StaysInCall ==
    CallStep => /\ pc \notin {"idle", "returned"}
                /\ pc' # "idle"
                /\ req' = req
<1> SUFFICES ASSUME CallStep
             PROVE  pc \notin {"idle", "returned"} /\ pc' # "idle" /\ req' = req
  OBVIOUS
<1> USE DEF Goto, Return
<1>1. CASE \E how \in Hows : BackupPrimary(how) \/ CopyToTemp(how) \/ FlashSlot(how)
  BY <1>1 DEF BackupPrimary, CopyToTemp, FlashSlot
<1>2. CASE \E failed \in {"nothing", "load", "write"} : SetOslevel(failed)
  BY <1>2 DEF SetOslevel
<1>3. CASE \E ok \in BOOLEAN : SetSecondaryFlag(ok)
  BY <1>3 DEF SetSecondaryFlag
<1>4. CASE IsNewPrimary \/ IsSecondaryInPrimary
  BY <1>4 DEF IsNewPrimary, IsSecondaryInPrimary
<1>5. CASE InjectTemp \/ AccessBackup \/ Cleanup
  BY <1>5 DEF InjectTemp, AccessBackup, Cleanup
<1> QED
  BY <1>1, <1>2, <1>3, <1>4, <1>5 DEF CallStep

\* The values the chain starts its variables over with.
LEMMA ChainTypes ==
    /\ Internal \in Systems
    /\ "none" \notin Systems
    /\ EmptyIni \in [rom : Systems, force : BOOLEAN]
    /\ Blank \in Locals
    /\ TypeOK => slot.img \in Kernels
    /\ SetStruct \in {"normal", "nokexec"}
BY BootChainAssumption, NoKexecAssumption
DEF Systems, Internal, EmptyIni, Blank, Locals, Exits, TypeOK, Images, Kernels, SetStruct

\* What LoadStatus makes of the locals.
LEMMA LoadedTypes ==
    ASSUME s \in Locals, ini \in [rom : Systems, force : BOOLEAN],
           slot \in Images, NEW readable \in BOOLEAN
    PROVE  /\ Loaded(readable) \in Locals
           /\ Loaded(readable).toBoot = "none"
           /\ Loaded(readable).arg = s.arg
           /\ Loaded(readable).exit = "reboot"
           /\ Loaded(readable).second = (readable /\ Tagged)
           /\ Loaded(readable).force = ini.force
           /\ Loaded(readable).rom = IF ini.rom \in Reachable THEN ini.rom ELSE Internal
<1>1. (readable /\ Tagged) \in BOOLEAN
  BY DEF Tagged, Images
<1>2. (IF ini.rom \in Reachable THEN ini.rom ELSE Internal) \in Systems
  BY ChainTypes
<1> QED
  BY <1>1, <1>2, ChainTypes DEF Loaded, Locals, Blank, Exits

\* What the decision leaves: a system to boot, a request in multirom.ini, or nothing.
LEMMA DecideEffect ==
    ASSUME NEW l \in Locals, Decide(l), l.toBoot = "none", l.exit = "reboot"
    PROVE  /\ s' \in Locals /\ s'.arg = l.arg
           /\ stage' \in {"commit", "select", "save"}
           /\ stage' = "commit" =>
                /\ s'.toBoot # "none"
                /\ s'.exit = "reboot"
                /\ l.arg = "none" => s' = [l EXCEPT !.toBoot = l.rom] /\ (l.second \/ l.force)
                /\ l.arg # "none" => s'.toBoot = l.arg /\ ~s'.second
                                     /\ l.arg \in Reachable \cap (Roms \cup Linux)
                /\ UNCHANGED chosen
           /\ stage' = "select" => l.arg = "none" /\ s' = l /\ ~l.second /\ chosen' = "none"
           /\ stage' = "save" =>
                /\ l.arg # "none" /\ s'.toBoot = "none"
                /\ \/ s'.exit = "reboot" /\ s'.force /\ s'.rom = l.arg /\ l.arg \in Reachable
                      /\ UNCHANGED chosen
                   \/ s'.exit = "umount" /\ s'.rom = l.rom /\ chosen' = "none"
<1>0. Reachable \subseteq Systems /\ "none" \notin Systems
  BY ChainTypes DEF Reachable
<1>1. CASE l.arg = "none" /\ (l.second \/ l.force)
  BY <1>0, <1>1 DEF Decide, To, Locals
<1>2. CASE l.arg = "none" /\ ~(l.second \/ l.force)
  BY <1>0, <1>2 DEF Decide, To, Locals
<1>3. CASE l.arg \in Reachable \cap (Roms \cup Linux)
  BY <1>0, <1>3 DEF Decide, To, Locals
<1>4. CASE l.arg \in Reachable \ (Roms \cup Linux)
  BY <1>0, <1>4 DEF Decide, To, Locals
<1>5. CASE l.arg \notin Reachable \cup {"none"}
  BY <1>0, <1>5 DEF Decide, To, Locals, Exits
<1> QED
  BY <1>1, <1>2, <1>3, <1>4, <1>5

\* multirom() gives up on the boot.
LEMMA AbortEffect ==
    ASSUME s \in Locals, Abort(s)
    PROVE  /\ s' \in Locals /\ s'.arg = s.arg /\ s'.toBoot = s.toBoot /\ s'.rom = s.rom
           /\ s'.force = s.force
           /\ s'.exit = IF s.arg = "none" THEN "recovery" ELSE "umount"
           /\ stage' = "save" /\ chosen' = "none"
BY DEF Abort, To, Locals, Exits

\* How multirom() ends when it prepared the system it boots.
LEMMA PreparedExits ==
    /\ PreparedExit \in {"kexec", "run", "umount"}
    /\ PreparedExit = "kexec" => s.toBoot \in Linux /\ ~s.second
    /\ PreparedExit = "run" => s.toBoot \in Shared \cup Roms
    /\ PreparedExit = "umount" => s.toBoot \notin Shared \cup Roms /\ (s.toBoot \in Linux => s.second)
BY DEF PreparedExit, NeedsKexec

\* Leaving: by the exit code.
LEMMA LeaveEffect ==
    ASSUME Leave, s \in Locals
    PROVE  /\ s' = Blank
           /\ \/ s.exit = "reboot" /\ Halt("boot") /\ UNCHANGED chosen
              \/ s.exit \in {"bootloader", "shutdown"} /\ Halt("down") /\ UNCHANGED chosen
              \/ s.exit = "recovery" /\ Halt("recovery") /\ UNCHANGED chosen
              \/ s.exit = "kexec" /\ Run(s.toBoot, s.toBoot)
              \/ s.exit = "run" /\ Run(s.toBoot, kernel)
              \/ s.exit = "umount" /\ s.arg = "none" /\ Run(Internal, kernel)
              \/ s.exit = "umount" /\ s.arg # "none" /\ Run(system, kernel)
              \/ s.exit = "restart" /\ To("load") /\ UNCHANGED <<kernel, system, chosen>>
BY DEF Leave, Locals, Exits

LEMMA ShapeInit == BootInit => ShapeInv
<1> SUFFICES ASSUME BootInit PROVE ShapeInv
  OBVIOUS
<1>1. TypeOK
  BY NoKexecAssumption DEF BootInit, Init, TypeOK, Images, PrimaryImage, NoFile, Labels, Mishaps
<1>2. BootTypeOK
  BY <1>1, ChainTypes, BootChainAssumption DEF BootInit, BootTypeOK, Stages, Locals
<1>3. CallsInv /\ LocalsInv
  BY DEF BootInit, Init, CallsInv, LocalsInv, Underway, Ending
<1> QED
  BY <1>2, <1>3 DEF ShapeInv

LEMMA ShapeStep ==
    ASSUME ShapeInv, TypeOK', [BootNext]_bootVars
    PROVE  ShapeInv'
<1>0. BootTypeOK /\ CallsInv /\ LocalsInv /\ TypeOK
  BY DEF ShapeInv, BootTypeOK
<1>s. s \in Locals /\ Reachable \subseteq Systems
  BY <1>0 DEF BootTypeOK, Locals, Reachable
<1> USE <1>0, <1>s, ChainTypes, BootChainAssumption DEF BootTypeOK, Stages, CallsInv, LocalsInv, Underway, Ending,
        At, To, BootSpend, Strain, Fresh, Run, Halt
<1> HIDE DEF TypeOK, Internal, EmptyIni
<1>1. CASE Bootloader
  BY <1>1 DEF Bootloader, Reboot, ShapeInv, Locals
<1>2. CASE RunMultirom
  BY <1>2 DEF RunMultirom, ShapeInv, Locals, vars
<1>3. CASE RunCoreGivesUp
  BY <1>3 DEF RunCoreGivesUp, BootMishaps, ShapeInv, Locals, vars
<1>4. ASSUME NEW readable \in BOOLEAN, MountFails(readable) PROVE ShapeInv'
  BY <1>4 DEF MountFails, BootMishaps, ShapeInv, Locals, vars
<1>5. ASSUME NEW readable \in BOOLEAN, NEW again \in BOOLEAN, LoadStatus(readable, again)
      PROVE  ShapeInv'
  <2>1. /\ stage = "load" /\ strained' \in BootMishaps \cup {"none"}
        /\ bootFaults' \in 0 .. MaxBootFaults
        /\ UNCHANGED <<kernel, system, ini, pending, usb, pc, req, res>>
    BY <1>5 DEF LoadStatus, BootMishaps, vars
  <2>2. slot \in Images /\ chosen' \in Systems \cup {"none"}
    BY <1>5 DEF TypeOK, LoadStatus, FallBack, Decide
  <2>3. CASE SomethingWrong(Loaded(readable), again)
    <3>1. FallBack(Loaded(readable))
      BY <1>5, <2>3 DEF LoadStatus
    <3>2. s' \in Locals /\ s'.toBoot = "none" /\ s'.exit = "recovery" /\ stage' = "save"
      <4>1. Loaded(readable) \in Locals /\ Loaded(readable).toBoot = "none"
        BY <2>2, LoadedTypes
      <4> QED
        BY <3>1, <4>1 DEF FallBack, Locals, Exits
    <3> QED
      BY <2>1, <2>2, <3>2 DEF ShapeInv, Locals
  <2>4. CASE Decide(Loaded(readable))
    <3>1. /\ s' \in Locals /\ stage' \in {"commit", "select", "save"}
          /\ stage' = "commit" =>
                s'.toBoot # "none"
                /\ (s'.arg # "none" => ~s'.second /\ s'.toBoot \in Roms \cup Linux)
          /\ stage' = "select" => s'.toBoot = "none" /\ s'.arg = "none" /\ ~s'.second
          /\ stage' = "save" => s'.toBoot = "none" /\ s'.exit \in {"reboot", "umount"}
      BY <2>2, <2>4, LoadedTypes, DecideEffect
    <3> QED
      BY <2>1, <2>2, <3>1 DEF ShapeInv, Locals
  <2> QED
    BY <1>5, <2>3, <2>4 DEF LoadStatus
<1>6. CASE Commit
  <2>1. /\ stage = "commit" /\ stage' = Route
        /\ s' \in Locals /\ ~s'.force /\ s'.toBoot = s.toBoot
        /\ s'.second = s.second /\ s'.arg = s.arg /\ s'.exit = s.exit
        /\ UNCHANGED <<kernel, system, ini, pending, usb, chosen, bootFaults, strained>>
    BY <1>6 DEF Commit, Unforced, Locals
  <2>2. CASE s.second
    <3>1. stage' = "restoring" /\ pc' # "idle" /\ req' = "none"
      BY <1>6, <2>1, <2>2 DEF Commit, Route, RestorePrimary, FindBoot, Goto, Return
    <3> QED
      BY <2>1, <2>2, <3>1 DEF ShapeInv, Locals
  <2>3. CASE ~s.second /\ s.toBoot \in Roms
    <3>1. stage' = "flashing" /\ pc' # "idle" /\ req' = s.toBoot
      BY <1>6, <2>1, <2>3 DEF Commit, Route, FlashSecondary, FindBoot, Goto, Return
    <3> QED
      BY <2>1, <2>3, <3>1 DEF ShapeInv, Locals
  <2>4. CASE ~s.second /\ s.toBoot \notin Roms
    <3>1. stage' = "prepare" /\ UNCHANGED <<pc, req, res>>
      BY <1>6, <2>1, <2>4 DEF Commit, Route, vars
    <3> QED
      BY <2>1, <2>4, <3>1 DEF ShapeInv, Locals
  <2> QED
    BY <2>2, <2>3, <2>4
<1>7. CASE InCall
  BY <1>7, StaysInCall DEF InCall, chain, ShapeInv, Locals
<1>8. CASE FlashReturned
  <2>1. /\ stage = "flashing" /\ pc = "returned"
        /\ UNCHANGED <<kernel, system, ini, pending, usb, pc, req, res, bootFaults, strained>>
    BY <1>8 DEF FlashReturned, vars
  <2>2. CASE res < 0
    <3>1. Abort(s)
      BY <1>8, <2>2 DEF FlashReturned
    <3> QED
      BY <2>1, <3>1, AbortEffect DEF ShapeInv, Locals
  <2>3. CASE ~(res < 0)
    <3>1. /\ s' = [s EXCEPT !.rom = s.toBoot, !.exit = "reboot"]
          /\ stage' = "save" /\ chosen' = chosen
      BY <1>8, <2>3 DEF FlashReturned
    <3>2. /\ s' \in Locals /\ s'.toBoot = s.toBoot /\ s'.exit = "reboot"
          /\ s'.force = s.force
      BY <2>1, <3>1 DEF Locals, Exits, Systems
    <3> QED
      BY <2>1, <3>1, <3>2 DEF ShapeInv, Locals
  <2> QED
    BY <2>2, <2>3
<1>9. CASE RestoreReturned
  <2>1. /\ stage = "restoring" /\ pc = "returned"
        /\ UNCHANGED <<kernel, system, ini, pending, usb, pc, req, res, bootFaults, strained>>
    BY <1>9 DEF RestoreReturned, vars
  <2>2. CASE res < 0
    <3>1. Abort(s)
      BY <1>9, <2>2 DEF RestoreReturned
    <3> QED
      BY <2>1, <3>1, AbortEffect DEF ShapeInv, Locals
  <2>3. CASE ~(res < 0)
    <3>1. res = 0
      BY <2>3 DEF TypeOK
    <3>2. UNCHANGED <<s, chosen>> /\ stage' = "prepare"
      BY <1>9, <2>3 DEF RestoreReturned
    <3> QED
      BY <2>1, <3>1, <3>2 DEF ShapeInv, Locals
  <2> QED
    BY <2>2, <2>3
<1>10. ASSUME NEW ok \in BOOLEAN, Prepare(ok) PROVE ShapeInv'
  <2>1. /\ stage = "prepare" /\ stage' = "save" /\ bootFaults' \in 0 .. MaxBootFaults
        /\ chosen' \in {chosen, "none"}
        /\ UNCHANGED <<kernel, system, ini, pending, usb, pc, req, res, strained>>
    BY <1>10 DEF Prepare, vars
  <2>2. s' \in Locals /\ ~s'.force /\ s'.toBoot = s.toBoot /\ s'.arg = s.arg
        /\ s'.exit \in {PreparedExit, "reboot", "umount"}
    <3>1. CASE ok
      <4>1. s' = [s EXCEPT !.rom = s.toBoot, !.second = FALSE, !.exit = PreparedExit]
        BY <1>10, <3>1 DEF Prepare
      <4>2. PreparedExit \in Exits /\ s.toBoot \in Systems
        BY <2>1, PreparedExits DEF Exits, Locals
      <4> QED
        BY <2>1, <4>1, <4>2 DEF Locals
    <3>2. CASE ~ok
      <4>1. s' = [s EXCEPT !.exit = IF s.arg = "none" THEN "reboot" ELSE "umount"]
        BY <1>10, <3>2 DEF Prepare
      <4> QED
        BY <2>1, <4>1 DEF Locals, Exits
    <3> QED
      BY <3>1, <3>2
  <2> QED
    BY <2>1, <2>2, PreparedExits DEF ShapeInv, Locals
<1>11. ASSUME NEW ok \in BOOLEAN, Save(ok) PROVE ShapeInv'
  BY <1>11 DEF Save, BootMishaps, ShapeInv, vars, Locals
<1>12. CASE SyncAll
  BY <1>12 DEF SyncAll, Sync, Idle, ShapeInv, vars, Locals
<1>13. CASE Leave
  <2>1. /\ stage = "exit" /\ s' = Blank
        /\ UNCHANGED <<ini, pending, usb, pc, req, res, bootFaults, strained>>
    BY <1>13 DEF Leave, vars
  <2>2. /\ stage' \in {"boot", "down", "recovery", "running", "load"}
        /\ chosen' \in {chosen, "none"}
        /\ system' \in Systems \cup {"none"}
        /\ kernel' \in Kernels \cup {"none"}
    <3>1. s.exit = "kexec" => s.toBoot \in Kernels
      BY <2>1 DEF Kernels
    <3>2. s.toBoot \in Systems \cup {"none"} /\ system \in Systems \cup {"none"}
          /\ kernel \in Kernels \cup {"none"}
      BY DEF Locals
    <3> HIDE DEF CallsInv, LocalsInv, BootTypeOK
    <3> QED
      BY <1>13, <3>1, <3>2, LeaveEffect
  <2> QED
    BY <2>1, <2>2 DEF ShapeInv, Locals
<1>14. CASE KexecFails
  BY <1>14 DEF KexecFails, ShapeInv, vars, Locals
<1>15. ASSUME NEW restart \in BOOLEAN, Died(restart) PROVE ShapeInv'
  <2>1. /\ stage \in Underway /\ stage' = "sync" /\ chosen' = "none"
        /\ bootFaults' \in 0 .. MaxBootFaults
        /\ strained' \in BootMishaps \cup {"none"}
        /\ UNCHANGED <<kernel, system, ini, pending, usb>>
    BY <1>15 DEF Died, BootMishaps
  <2>2. pc' \in {"idle", "returned"}
    BY <1>15 DEF Died, Killed, Return, vars
  <2>3. /\ s' \in Locals /\ s'.toBoot = "none" /\ s'.exit \in {"restart", "umount"}
        /\ s'.exit = "restart" => s'.arg = "none"
    BY <1>15 DEF Died, Locals, Blank, Exits
  <2> QED
    BY <2>1, <2>2, <2>3 DEF ShapeInv, Locals
<1>16. CASE DecryptScreen
  BY <1>16 DEF DecryptScreen, BootMishaps, ShapeInv, vars, Locals
<1>17. ASSUME NEW x \in Reachable, Pick(x) PROVE ShapeInv'
  <2>1. PICK m \in Methods(x) : s' = [s EXCEPT !.toBoot = x, !.method = m]
    BY <1>17 DEF Pick
  <2>2. Methods(x) \subseteq {"normal", "nokexec"}
    BY <1>17 DEF Methods
  <2>3. s' \in Locals /\ s'.toBoot = x /\ s'.arg = s.arg
    BY <1>17, <2>1, <2>2 DEF Locals
  <2> QED
    BY <1>17, <2>3 DEF Pick, ShapeInv, vars, Locals
<1>18. CASE LeaveUI
  BY <1>18 DEF LeaveUI, ShapeInv, vars, Locals, Exits
<1>19. CASE PressPower
  BY <1>19 DEF PressPower, ShapeInv, vars, Locals
<1>20. CASE PowerCut
  BY <1>20 DEF PowerCut, PowerLoss, Idle, BootMishaps, ShapeInv, vars, Locals
<1>21. CASE Restart
  BY <1>21 DEF Restart, ShapeInv, vars, Locals
<1>22. ASSUME NEW x \in Systems, BootRom(x) PROVE ShapeInv'
  BY <1>22 DEF BootRom, ShapeInv, vars, Locals, Blank
<1>23. CASE Reinstall
  BY <1>23 DEF Reinstall, chain, InstallPrimary, InstallRom, ShapeInv, Locals
<1>24. CASE PlugUsb
  BY <1>24 DEF PlugUsb, ShapeInv, vars, Locals
<1>25. CASE UNCHANGED bootVars
  BY <1>25 DEF bootVars, chain, vars, ShapeInv, Locals
<1> QED
  BY <1>1, <1>2, <1>3, <1>4, <1>5, <1>6, <1>7, <1>8, <1>9, <1>10, <1>11, <1>12, <1>13,
     <1>14, <1>15, <1>16, <1>17, <1>18, <1>19, <1>20, <1>21, <1>22, <1>23, <1>24, <1>25
  DEF BootNext, DeviceStep, UserStep

\* Every reachable state of the chain has the declared types, and multirom() is
\* never further or less far in a call of no_kexec.c than its caller believes.
THEOREM Shaped == BootSpec => []ShapeInv
<1>1. BootSpec => []IInv
  BY ChainImplements, Invariance, PTL DEF NoKexecSpec
<1>2. IInv => TypeOK
  BY DEF IInv
<1>3. ShapeInv /\ TypeOK' /\ [BootNext]_bootVars => ShapeInv'
  BY ShapeStep
<1> QED
  BY <1>1, <1>2, <1>3, ShapeInit, PTL DEF BootSpec

-----------------------------------------------------------------------------
\* ---- which kernel, which system, what is in the slot

\* What a step of a call does to the slot.
LEMMA CallSlot ==
    ASSUME IInv, CallStep, exposed' = "none"
    PROVE  /\ exposed = "none" /\ primary' = primary
           /\ \/ slot' = slot /\ ("slot" \in dirty' <=> "slot" \in dirty)
              \/ pc = "flash_slot" /\ "slot" \in dirty' /\ slot' = Source
              \/ pc = "set_secondary_flag" /\ "slot" \in dirty' /\ slot' = WithTag(slot)
<1>0. TypeOK /\ CallInv /\ StorageInv /\ (exposed = "none" => StepInv)
  BY DEF IInv
<1>1. ASSUME NEW how \in Hows, FlashSlot(how)
      PROVE  exposed = "none" /\ primary' = primary /\
             \/ slot' = slot /\ ("slot" \in dirty' <=> "slot" \in dirty)
             \/ pc = "flash_slot" /\ "slot" \in dirty' /\ slot' = Source
  <2>1. pc = "flash_slot" /\ exposed = "none" /\ primary' = primary /\ how # "short"
    BY <1>1 DEF FlashSlot, Harm, Hows
  <2>2. temp = Source
    BY <1>0, <2>1 DEF StepInv
  <2>3. CASE how = "ok"
    BY <1>1, <2>1, <2>2, <2>3 DEF FlashSlot, Copied
  <2>4. CASE how = "fail"
    BY <1>1, <2>1, <2>4 DEF FlashSlot, Copied
  <2> QED
    BY <2>1, <2>3, <2>4 DEF Hows
<1>2. CASE \E how \in Hows : BackupPrimary(how) \/ CopyToTemp(how)
  BY <1>2 DEF BackupPrimary, CopyToTemp, Harm
<1>3. CASE \E failed \in {"nothing", "load", "write"} : SetOslevel(failed)
  <2>1. pc = "set_oslevel" /\ exposed = "none" /\ UNCHANGED <<slot, primary>>
        /\ (dirty' = dirty \/ dirty' = dirty \cup {req})
    BY <1>3 DEF SetOslevel
  <2>2. req # "slot"
    BY <1>0, <2>1, NoKexecAssumption DEF CallInv
  <2> QED
    BY <2>1, <2>2
<1>4. CASE \E ok \in BOOLEAN : SetSecondaryFlag(ok)
  BY <1>4 DEF SetSecondaryFlag, Harm
<1>5. CASE IsNewPrimary \/ IsSecondaryInPrimary
  BY <1>5 DEF IsNewPrimary, IsSecondaryInPrimary, Harm
<1>6. CASE InjectTemp \/ AccessBackup \/ Cleanup
  BY <1>6 DEF InjectTemp, AccessBackup, Cleanup
<1> QED
  BY <1>1, <1>2, <1>3, <1>4, <1>5, <1>6 DEF CallStep

\* What the invariant of the calls says of the slot to their caller.
SlotFacts ==
    /\ slot.tag \in BOOLEAN /\ slot.img \in Primaries \cup Roms /\ primary \in Primaries
    /\ pc = "idle" => "slot" \notin dirty
    /\ Holds(slot) => ~Tagged /\ slot.img = primary
    /\ exposed = "none" /\ "slot" \notin dirty => Holds(slot) \/ Tagged
    /\ exposed = "none" /\ pc = "returned" =>
         IF res # 0 THEN "slot" \notin dirty
         ELSE IF req \in Roms THEN slot.img = req /\ Tagged ELSE Holds(slot)

LEMMA SlotKnown == IInv => SlotFacts
BY DEF IInv, TypeOK, Images, StorageInv, StepInv, Settled, SlotFacts, Holds, Tagged, PrimaryImage

LEMMA CleanInit == BootInit => CleanInv /\ ForceInv
BY DEF BootInit, Init, PrimaryImage, CleanInv, ForceInv, Names, Tagged, Underway, Ending

LEMMA CleanStep ==
    ASSUME ShapeInv, ShapeInv', IInv, SlotFacts, SlotFacts', Clean => CleanInv,
           [BootNext]_bootVars, Clean'
    PROVE  CleanInv'
<1>0. CallsInv /\ LocalsInv /\ CallsInv' /\ LocalsInv'
  BY DEF ShapeInv
<1>s. /\ s \in Locals /\ Reachable \subseteq Systems
      /\ stage \in Stages /\ stage' \in Stages /\ kernel \in Kernels \cup {"none"}
      /\ system \in Systems \cup {"none"}
      /\ exposed' = "none" /\ strained' = "none"
      /\ ini \in [rom : Systems, force : BOOLEAN]
  BY DEF ShapeInv, BootTypeOK, Locals, Reachable, Clean
<1>d. Primaries \cap Roms = {} /\ Linux \cap (Roms \cup Primaries) = {}
      /\ Shared \cap (Roms \cup Linux \cup Primaries) = {}
      /\ Internal \notin Roms \cup Shared \cup Linux \cup Primaries
      /\ "none" \notin Roms \cup Shared \cup Linux \cup Primaries
      /\ Internal # "none" /\ Internal \notin External
  BY NoKexecAssumption, BootChainAssumption, ChainTypes DEF Internal
<1> USE <1>0, <1>s, <1>d DEF Clean, CleanInv, SlotFacts, Names, Fits, Tagged, Holds, PrimaryImage,
        Underway, Ending, At, To, Run, Halt
<1> HIDE DEF Internal
<1>1. CASE Bootloader
  BY <1>1 DEF Bootloader, Reboot, LocalsInv, CallsInv, Stages
<1>2. CASE RunMultirom
  BY <1>2 DEF RunMultirom, Fresh, LocalsInv, Blank, CallsInv, vars
<1>3. CASE RunCoreGivesUp
  BY <1>3 DEF RunCoreGivesUp, BootMishaps, Strain, CallsInv, LocalsInv, vars
<1>4. ASSUME NEW readable \in BOOLEAN, MountFails(readable) PROVE CleanInv'
  BY <1>4 DEF MountFails, BootMishaps, Strain, CallsInv, LocalsInv, vars
<1>5. ASSUME NEW readable \in BOOLEAN, NEW again \in BOOLEAN, LoadStatus(readable, again)
      PROVE  CleanInv'
  <2> DEFINE l == Loaded(readable)
  <2>1. /\ stage = "load" /\ readable /\ again /\ CleanInv
        /\ UNCHANGED <<kernel, system, ini, pending, usb, slot, dirty, primary, exposed>>
    BY <1>5 DEF LoadStatus, BootMishaps, Strain, vars
  <2>2. /\ l \in Locals /\ l.toBoot = "none" /\ l.exit = "reboot"
        /\ l.arg = s.arg /\ l.second = Tagged
        /\ l.rom = IF ini.rom \in Reachable THEN ini.rom ELSE Internal
    BY <2>1, LoadedTypes DEF ShapeInv, BootTypeOK, TypeOK
  <2>3. /\ Tagged => slot.img \in Roms /\ slot.img \in Systems
        /\ Tagged /\ l.rom # Internal => l.rom = slot.img
        /\ Tagged /\ l.rom = Internal => slot.img \in External
    BY <2>1, <2>2 DEF Reachable, Systems
  <2>4. "slot" \notin dirty /\ (s.arg # "none" => ~Tagged)
    BY <2>1 DEF CallsInv
  <2> HIDE DEF l
  <2>5. CASE SomethingWrong(l, again)
    <3>1. /\ s' = [l EXCEPT !.second = FALSE, !.method = "normal", !.exit = "recovery"]
          /\ stage' = "save"
      BY <1>5, <2>5 DEF LoadStatus, FallBack, l
    <3>2. s'.rom = Internal /\ s'.arg = s.arg /\ s'.exit = "recovery" /\ Tagged
      BY <2>1, <2>2, <2>5, <3>1 DEF SomethingWrong, Locals
    <3> QED
      BY <2>1, <2>3, <2>4, <3>1, <3>2
  <2>6. CASE Decide(l) /\ ~SomethingWrong(l, again)
    <3>1. ~(Tagged /\ l.rom = Internal)
      BY <2>1, <2>6 DEF SomethingWrong
    <3>2. CASE stage' = "commit" /\ s.arg = "none"
      <4>1. s' = [l EXCEPT !.toBoot = l.rom]
        BY <2>2, <2>6, <3>2, DecideEffect
      <4>2. s'.rom = l.rom /\ s'.toBoot = l.rom /\ s'.second = Tagged /\ s'.arg = "none"
        BY <2>2, <3>2, <4>1 DEF Locals
      <4> QED
        BY <2>1, <2>3, <2>4, <3>1, <3>2, <4>2
    <3>3. CASE stage' = "commit" /\ s.arg # "none"
      <4>1. s'.toBoot = s.arg /\ ~s'.second /\ s'.arg = s.arg /\ s' \in Locals
        BY <2>2, <2>6, <3>3, DecideEffect
      <4>2. s'.second \in BOOLEAN
        BY <4>1 DEF Locals
      <4> QED
        BY <2>1, <2>4, <3>3, <4>1, <4>2
    <3>4. CASE stage' = "select"
      <4>1. s' = l /\ s.arg = "none"
        BY <2>2, <2>6, <3>4, DecideEffect
      <4> QED
        BY <2>1, <2>2, <2>4, <3>4, <4>1
    <3>5. CASE stage' = "save"
      <4>1. s.arg # "none" /\ s'.arg = s.arg /\ s'.exit \in {"reboot", "umount"}
        BY <2>2, <2>6, <3>5, DecideEffect
      <4> QED
        BY <2>1, <2>2, <2>4, <3>5, <4>1
    <3> QED
      BY <2>2, <2>6, <3>2, <3>3, <3>4, <3>5, DecideEffect
  <2> QED
    BY <1>5, <2>5, <2>6 DEF LoadStatus, l
<1>6. CASE Commit
  <2>1. /\ stage = "commit" /\ stage' = Route /\ CleanInv
        /\ s'.rom = s.rom /\ s'.toBoot = s.toBoot /\ s'.second = s.second /\ s'.arg = s.arg
        /\ UNCHANGED <<kernel, system, ini, pending>>
    BY <1>6 DEF Commit, Fresh, Unforced, Locals, RestorePrimary, FlashSecondary, vars, Route
  <2>2. UNCHANGED <<slot, dirty, primary, exposed>>
    BY <1>6 DEF Commit, RestorePrimary, FlashSecondary, vars, Route
  <2>3. "slot" \notin dirty
    BY <2>1 DEF CallsInv
  <2>4. CASE s.second
    BY <2>1, <2>2, <2>3, <2>4 DEF Route
  <2>5. CASE ~s.second /\ s.toBoot \in Roms
    BY <2>1, <2>2, <2>3, <2>5 DEF Route
  <2>6. CASE ~s.second /\ s.toBoot \notin Roms
    BY <2>1, <2>2, <2>3, <2>6 DEF Route
  <2> QED
    BY <2>4, <2>5, <2>6
<1>7. CASE InCall
  <2>1. /\ CallStep /\ req' = req /\ stage \in {"flashing", "restoring"}
        /\ UNCHANGED <<stage, kernel, system, ini, pending, s, strained>>
    BY <1>7, StaysInCall DEF InCall, chain, CallsInv, Stages
  <2>2. CleanInv /\ exposed = "none" /\ primary' = primary
    BY <2>1, CallSlot
  <2>3. CASE slot' = slot /\ ("slot" \in dirty' <=> "slot" \in dirty)
    BY <2>1, <2>2, <2>3
  <2>4. CASE pc = "flash_slot" /\ "slot" \in dirty' /\ slot' = Source
    <3>1. CASE stage = "flashing"
      <4>1. slot'.tag = FALSE
        BY <2>4, <3>1 DEF Source, CallsInv
      <4> QED
        BY <2>1, <2>2, <2>4, <3>1, <4>1
    <3>2. CASE stage = "restoring"
      <4>1. slot' = backup /\ backup = PrimaryImage
        BY <2>2, <2>4, <3>2 DEF Source, CallsInv, IInv, StepInv
      <4> QED
        BY <2>1, <2>2, <2>4, <3>2, <4>1
    <3> QED
      BY <2>1, <3>1, <3>2
  <2>5. CASE pc = "set_secondary_flag" /\ "slot" \in dirty' /\ slot' = WithTag(slot)
    <3>1. req \in Roms /\ slot.img = req /\ slot'.img = req
      BY <2>2, <2>5 DEF IInv, CallInv, StepInv, WithTag
    <3>2. stage = "flashing"
      BY <2>1, <3>1 DEF CallsInv
    <3> QED
      BY <2>1, <2>2, <2>5, <3>1, <3>2
  <2> QED
    BY <2>1, <2>3, <2>4, <2>5, CallSlot
<1>8. CASE FlashReturned
  <2>1. /\ stage = "flashing" /\ pc = "returned" /\ stage' = "save" /\ CleanInv
        /\ UNCHANGED <<kernel, system, ini, pending, slot, dirty, primary, exposed, req, res>>
    BY <1>8 DEF FlashReturned, vars, Fresh, Abort
  <2>2. CASE res < 0
    <3>1. Abort(s)
      BY <1>8, <2>2 DEF FlashReturned
    <3>2. "slot" \notin dirty
      BY <2>1, <2>2
    <3> QED
      BY <2>1, <3>1, <3>2, AbortEffect DEF CallsInv
  <2>3. CASE ~(res < 0)
    <3>1. s'.rom = s.toBoot /\ s'.exit = "reboot" /\ s'.arg = s.arg
      BY <1>8, <2>3 DEF FlashReturned, Locals
    <3>2. res = 0
      BY <2>3 DEF IInv, TypeOK
    <3> QED
      BY <2>1, <3>1, <3>2 DEF CallsInv
  <2> QED
    BY <2>2, <2>3
<1>9. CASE RestoreReturned
  <2>1. /\ stage = "restoring" /\ pc = "returned" /\ CleanInv
        /\ UNCHANGED <<kernel, system, ini, pending, slot, dirty, primary, exposed, req, res>>
    BY <1>9 DEF RestoreReturned, vars, Fresh, Abort
  <2>2. CASE res < 0
    <3>1. Abort(s)
      BY <1>9, <2>2 DEF RestoreReturned
    <3>2. "slot" \notin dirty
      BY <2>1, <2>2
    <3> QED
      BY <2>1, <3>1, <3>2, AbortEffect DEF CallsInv, LocalsInv
  <2>3. CASE ~(res < 0)
    <3>1. s' = s /\ stage' = "prepare"
      BY <1>9, <2>3 DEF RestoreReturned
    <3>2. res = 0
      BY <2>3 DEF IInv, TypeOK
    <3> QED
      BY <2>1, <3>1, <3>2 DEF CallsInv
  <2> QED
    BY <2>2, <2>3
<1>10. ASSUME NEW ok \in BOOLEAN, Prepare(ok) PROVE CleanInv'
  <2>1. /\ stage = "prepare" /\ stage' = "save" /\ CleanInv
        /\ UNCHANGED <<kernel, system, ini, pending, slot, dirty, primary, exposed>>
    BY <1>10 DEF Prepare, vars
  <2>2. CASE ok
    <3>1. /\ s'.exit = PreparedExit /\ s'.toBoot = s.toBoot /\ s'.arg = s.arg
          /\ s'.rom = s.toBoot
      BY <1>10, <2>2 DEF Prepare, Locals
    <3> QED
      BY <2>1, <3>1, PreparedExits DEF CallsInv, LocalsInv
  <2>3. CASE ~ok
    <3>1. /\ s'.exit = IF s.arg = "none" THEN "reboot" ELSE "umount"
          /\ s'.toBoot = s.toBoot /\ s'.arg = s.arg /\ s'.rom = s.rom
      BY <1>10, <2>3 DEF Prepare, Locals
    <3> QED
      BY <2>1, <3>1 DEF CallsInv, LocalsInv
  <2> QED
    BY <2>2, <2>3
<1>11. ASSUME NEW ok \in BOOLEAN, Save(ok) PROVE CleanInv'
  BY <1>11 DEF Save, BootMishaps, Strain, vars, CallsInv
<1>12. CASE SyncAll
  BY <1>12 DEF SyncAll, Sync, Idle, Fresh, vars
<1>13. CASE Leave
  <2>1. /\ stage = "exit" /\ s' = Blank /\ CleanInv
        /\ UNCHANGED <<ini, slot, dirty, primary, exposed>>
    BY <1>13 DEF Leave, vars, Fresh
  <2>2. s'.arg = "none"
    BY <2>1 DEF Blank
  <2>3. "slot" \notin dirty
    BY <2>1 DEF CallsInv
  <2>4. CASE stage' \in {"boot", "down", "recovery"}
    BY <2>1, <2>2, <2>4
  <2>5. CASE s.exit = "kexec" /\ Run(s.toBoot, s.toBoot)
    BY <2>1, <2>2, <2>5 DEF LocalsInv
  <2>6. CASE s.exit = "run" /\ Run(s.toBoot, kernel)
    BY <2>1, <2>2, <2>6
  <2>7. CASE s.exit = "umount" /\ s.arg = "none" /\ Run(Internal, kernel)
    BY <2>1, <2>2, <2>7
  <2>8. CASE s.exit = "umount" /\ s.arg # "none" /\ Run(system, kernel)
    BY <2>1, <2>2, <2>8
  <2>9. CASE s.exit = "restart" /\ stage' = "load" /\ kernel' = kernel
    BY <2>1, <2>2, <2>3, <2>9 DEF LocalsInv
  <2> QED
    BY <1>13, <2>4, <2>5, <2>6, <2>7, <2>8, <2>9, LeaveEffect
<1>14. CASE KexecFails
  BY <1>14 DEF KexecFails, vars
<1>15. ASSUME NEW restart \in BOOLEAN, Died(restart) PROVE CleanInv'
  BY <1>15 DEF Died, BootMishaps, Killed, Return, Strain, vars, Blank, Exits
<1>16. CASE DecryptScreen
  BY <1>16 DEF DecryptScreen, BootMishaps, Strain, vars, CallsInv, LocalsInv
<1>17. ASSUME NEW x \in Reachable, Pick(x) PROVE CleanInv'
  <2>1. /\ stage = "select" /\ stage' = "commit" /\ CleanInv
        /\ UNCHANGED <<kernel, system, ini, pending, slot, dirty, primary, exposed>>
    BY <1>17 DEF Pick, vars, Fresh
  <2>2. s'.second = s.second /\ s'.arg = s.arg /\ s'.toBoot = x
    BY <1>17 DEF Pick, Locals
  <2> QED
    BY <2>1, <2>2 DEF LocalsInv
<1>18. CASE LeaveUI
  BY <1>18 DEF LeaveUI, vars, Locals, Exits, Fresh, LocalsInv, CallsInv
<1>19. CASE PressPower
  BY <1>19 DEF PressPower, vars, Fresh
<1>20. CASE PowerCut
  BY <1>20 DEF PowerCut, PowerLoss, Idle, BootMishaps, vars, Strain, Harm, Survivors, LocalsInv, CallsInv
<1>21. CASE Restart
  BY <1>21 DEF Restart, vars, Fresh
<1>22. ASSUME NEW x \in Systems, BootRom(x) PROVE CleanInv'
  <2>1. /\ stage = "running" /\ stage' = "load" /\ CleanInv
        /\ UNCHANGED <<kernel, system, ini, pending, slot, dirty, primary, exposed>>
    BY <1>22 DEF BootRom, vars, Fresh
  <2>2. s'.arg = x /\ x # "none"
    BY <1>22, ChainTypes DEF BootRom, Blank
  <2> QED
    BY <2>1, <2>2
<1>23. CASE Reinstall
  BY <1>23 DEF Reinstall, chain, InstallPrimary, InstallRom
<1>24. CASE PlugUsb
  BY <1>24 DEF PlugUsb, vars, Fresh
<1>25. CASE UNCHANGED bootVars
  BY <1>25 DEF bootVars, chain, vars
<1> QED
  BY <1>1, <1>2, <1>3, <1>4, <1>5, <1>6, <1>7, <1>8, <1>9, <1>10, <1>11, <1>12, <1>13,
     <1>14, <1>15, <1>16, <1>17, <1>18, <1>19, <1>20, <1>21, <1>22, <1>23, <1>24, <1>25
  DEF BootNext, DeviceStep, UserStep

LEMMA ForceStep ==
    ASSUME ShapeInv, ShapeInv', Clean => ForceInv, [BootNext]_bootVars, Clean'
    PROVE  ForceInv'
<1>0. LocalsInv /\ LocalsInv' /\ stage \in Stages /\ s \in Locals
      /\ ini \in [rom : Systems, force : BOOLEAN]
  BY DEF ShapeInv, BootTypeOK, Locals
<1> USE <1>0 DEF Clean, ForceInv, Ending, At, To
<1>1. ASSUME NEW ok \in BOOLEAN, Save(ok) PROVE ForceInv'
  <2>1. ok /\ stage = "save" /\ stage' = "sync" /\ s' = s
    BY <1>1 DEF Save, Strain
  <2>2. pending' = [rom |-> s.rom, force |-> s.force]
    BY <1>1, <2>1 DEF Save
  <2> QED
    BY <2>1, <2>2 DEF LocalsInv
<1>2. CASE SyncAll
  BY <1>2 DEF SyncAll, Sync, Fresh, vars
<1>3. ASSUME NEW restart \in BOOLEAN, Died(restart) PROVE ForceInv'
  BY <1>3 DEF Died, Blank
<1>4. CASE Leave
  BY <1>4, LeaveEffect DEF Halt, Run
<1>5. ASSUME stage' \notin {"sync", "exit"} PROVE ForceInv'
  BY <1>5
<1>6. CASE \/ Bootloader \/ RunMultirom \/ RunCoreGivesUp \/ KexecFails \/ DecryptScreen
           \/ PressPower \/ PowerCut \/ Restart \/ LeaveUI \/ FlashReturned \/ RestoreReturned
  BY <1>5, <1>6 DEF Bootloader, RunMultirom, RunCoreGivesUp, KexecFails, DecryptScreen,
     PressPower, PowerCut, Restart, LeaveUI, FlashReturned, RestoreReturned, Abort, Halt, Run
<1>7. ASSUME NEW readable \in BOOLEAN, NEW again \in BOOLEAN, NEW x \in Systems, NEW ok \in BOOLEAN,
             MountFails(readable) \/ LoadStatus(readable, again) \/ Pick(x) \/ BootRom(x)
               \/ Prepare(ok)
      PROVE  ForceInv'
  BY <1>5, <1>7 DEF MountFails, LoadStatus, FallBack, Decide, Pick, BootRom, Prepare, Halt, Run
<1>8. CASE Commit
  BY <1>5, <1>8 DEF Commit, Route
<1>9. CASE InCall
  <2>1. stage \in {"flashing", "restoring"}
    BY <1>9, StaysInCall DEF InCall, ShapeInv, CallsInv, Underway, Stages
  <2> QED
    BY <1>5, <1>9, <2>1 DEF InCall, chain
<1>10. CASE Reinstall \/ PlugUsb \/ UNCHANGED bootVars
  <2>1. UNCHANGED <<stage, s, ini, pending, strained>>
    BY <1>10 DEF Reinstall, PlugUsb, bootVars, chain, Fresh
  <2>2. CASE Reinstall \/ PlugUsb
    BY <1>5, <2>1, <2>2 DEF Reinstall, PlugUsb
  <2>3. CASE UNCHANGED bootVars
    BY <2>1, <2>3 DEF bootVars, vars
  <2> QED
    BY <1>10, <2>2, <2>3
<1> QED
  BY <1>1, <1>2, <1>3, <1>4, <1>6, <1>7, <1>8, <1>9, <1>10
  DEF BootNext, DeviceStep, UserStep, Reachable

LEMMA AskedStep ==
    ASSUME ShapeInv, AskedInv, [BootNext]_bootVars
    PROVE  AskedInv'
<1>0. /\ CallsInv /\ LocalsInv /\ stage \in Stages /\ s \in Locals
      /\ ini \in [rom : Systems, force : BOOLEAN] /\ slot \in Images
  BY DEF ShapeInv, BootTypeOK, Locals, TypeOK
<1> USE <1>0 DEF AskedInv, Ending, At, To, Run, Halt
<1>1. CASE Bootloader
  BY <1>1 DEF Bootloader
<1>2. CASE RunMultirom
  BY <1>2 DEF RunMultirom
<1>3. CASE RunCoreGivesUp
  BY <1>3 DEF RunCoreGivesUp
<1>4. ASSUME NEW readable \in BOOLEAN, MountFails(readable) PROVE AskedInv'
  BY <1>4 DEF MountFails
<1>5. ASSUME NEW readable \in BOOLEAN, NEW again \in BOOLEAN, LoadStatus(readable, again)
      PROVE  AskedInv'
  <2> DEFINE l == Loaded(readable)
  <2>1. stage = "load" /\ (FallBack(l) \/ Decide(l))
    BY <1>5 DEF LoadStatus
  <2>2. l \in Locals /\ l.toBoot = "none" /\ l.exit = "reboot"
    BY LoadedTypes
  <2> HIDE DEF l
  <2>3. CASE FallBack(l)
    BY <2>3 DEF FallBack
  <2>4. CASE Decide(l)
    BY <2>1, <2>2, <2>4, DecideEffect
  <2> QED
    BY <2>1, <2>3, <2>4
<1>6. CASE Commit
  BY <1>6 DEF Commit, Route
<1>7. CASE InCall
  BY <1>7 DEF InCall, chain
<1>8. CASE FlashReturned
  <2>1. CASE res < 0
    BY <1>8, <2>1 DEF FlashReturned, Abort
  <2>2. CASE ~(res < 0)
    BY <1>8, <2>2 DEF FlashReturned, Locals
  <2> QED
    BY <2>1, <2>2
<1>9. CASE RestoreReturned
  BY <1>9 DEF RestoreReturned, Abort
<1>10. ASSUME NEW ok \in BOOLEAN, Prepare(ok) PROVE AskedInv'
  <2>1. CASE ok
    <3>1. s'.exit = PreparedExit /\ chosen' = chosen /\ stage' = "save" /\ stage = "prepare"
      BY <1>10, <2>1 DEF Prepare, Locals
    <3> QED
      BY <3>1, PreparedExits
  <2>2. CASE ~ok
    BY <1>10, <2>2 DEF Prepare
  <2> QED
    BY <2>1, <2>2
<1>11. ASSUME NEW ok \in BOOLEAN, Save(ok) PROVE AskedInv'
  BY <1>11 DEF Save
<1>12. CASE SyncAll
  BY <1>12 DEF SyncAll
<1>13. CASE Leave
  BY <1>13, LeaveEffect DEF Leave
<1>14. CASE KexecFails
  BY <1>14 DEF KexecFails
<1>15. ASSUME NEW restart \in BOOLEAN, Died(restart) PROVE AskedInv'
  BY <1>15 DEF Died
<1>16. CASE DecryptScreen
  BY <1>16 DEF DecryptScreen
<1>17. ASSUME NEW x \in Reachable, Pick(x) PROVE AskedInv'
  BY <1>17 DEF Pick
<1>18. CASE LeaveUI
  BY <1>18 DEF LeaveUI
<1>19. CASE PressPower
  BY <1>19 DEF PressPower
<1>20. CASE PowerCut
  BY <1>20 DEF PowerCut
<1>21. CASE Restart
  BY <1>21 DEF Restart
<1>22. ASSUME NEW x \in Systems, BootRom(x) PROVE AskedInv'
  BY <1>22 DEF BootRom
<1>23. CASE Reinstall
  BY <1>23 DEF Reinstall, chain
<1>24. CASE PlugUsb
  BY <1>24 DEF PlugUsb
<1>25. CASE UNCHANGED bootVars
  BY <1>25 DEF bootVars, chain
<1> QED
  BY <1>1, <1>2, <1>3, <1>4, <1>5, <1>6, <1>7, <1>8, <1>9, <1>10, <1>11, <1>12, <1>13,
     <1>14, <1>15, <1>16, <1>17, <1>18, <1>19, <1>20, <1>21, <1>22, <1>23, <1>24, <1>25
  DEF BootNext, DeviceStep, UserStep

LEMMA RequestStep ==
    ASSUME ShapeInv, AskedInv, AskedInv', IInv, SlotFacts, Clean => CleanInv,
           exposed = "none" => RequestInv, [BootNext]_bootVars, exposed' = "none"
    PROVE  RequestInv'
<1>0. CallsInv /\ LocalsInv
  BY DEF ShapeInv
<1>s. /\ s \in Locals /\ Reachable \subseteq Systems
      /\ stage \in Stages /\ chosen \in Systems \cup {"none"}
      /\ ini \in [rom : Systems, force : BOOLEAN] /\ slot \in Images
  BY DEF ShapeInv, BootTypeOK, Locals, Reachable, TypeOK
<1>r. usb' = usb => Reachable' = Reachable
  BY DEF Reachable
<1> USE <1>0, <1>s, <1>r DEF RequestInv, AskedInv, Due, Tagged, Ending, At, To, Run, Halt
<1>e. ASSUME chosen' = "none" PROVE RequestInv'
  BY <1>e
<1>1. CASE Bootloader
  BY <1>1 DEF Bootloader, Reboot
<1>2. CASE RunMultirom
  BY <1>2, ChainTypes DEF RunMultirom, Blank, LocalsInv, Underway, vars
<1>3. CASE RunCoreGivesUp
  BY <1>3 DEF RunCoreGivesUp
<1>4. ASSUME NEW readable \in BOOLEAN, MountFails(readable) PROVE RequestInv'
  BY <1>4 DEF MountFails
<1>5. ASSUME NEW readable \in BOOLEAN, NEW again \in BOOLEAN, LoadStatus(readable, again)
      PROVE  RequestInv'
  <2> DEFINE l == Loaded(readable)
  <2>1. /\ stage = "load" /\ (FallBack(l) \/ Decide(l))
        /\ UNCHANGED <<ini, usb, slot, exposed>> /\ Reachable' = Reachable
    BY <1>5, <1>r DEF LoadStatus, vars
  <2>2. /\ l \in Locals /\ l.toBoot = "none" /\ l.exit = "reboot" /\ l.arg = s.arg
        /\ l.rom = IF ini.rom \in Reachable THEN ini.rom ELSE Internal
    BY LoadedTypes
  <2> HIDE DEF l
  <2>3. CASE FallBack(l)
    BY <1>e, <2>3 DEF FallBack
  <2>4. CASE Decide(l) /\ stage' = "commit" /\ chosen # "none"
    <3>1. CASE s.arg = "none"
      <4>1. s' = [l EXCEPT !.toBoot = l.rom] /\ chosen' = chosen
        BY <2>2, <2>4, <3>1, DecideEffect
      <4>2. s'.toBoot = l.rom /\ l.rom = chosen /\ chosen \in Reachable
        BY <2>1, <2>2, <3>1, <4>1, <2>4 DEF Locals
      <4> QED
        BY <2>1, <2>4, <4>1, <4>2
    <3>2. CASE s.arg # "none"
      <4>1. s'.toBoot = s.arg /\ chosen' = chosen /\ s.arg \in Reachable
        BY <2>2, <2>4, <3>2, DecideEffect
      <4> QED
        BY <2>1, <2>4, <3>2, <4>1
    <3> QED
      BY <3>1, <3>2
  <2>5. CASE Decide(l) /\ stage' = "select"
    BY <1>e, <2>2, <2>5, DecideEffect
  <2>6. CASE Decide(l) /\ stage' = "save" /\ chosen' # "none"
    <3>1. /\ s.arg # "none" /\ s'.exit = "reboot" /\ s'.force /\ s'.rom = s.arg
          /\ s.arg \in Reachable /\ chosen' = chosen
      BY <2>2, <2>6, DecideEffect
    <3> QED
      BY <2>1, <2>6, <3>1
  <2>7. CASE Decide(l) /\ stage' = "commit" /\ chosen = "none"
    BY <1>e, <2>2, <2>7, DecideEffect
  <2> QED
    BY <1>e, <2>1, <2>2, <2>3, <2>4, <2>5, <2>6, <2>7, DecideEffect
<1>6. CASE Commit
  <2>1. /\ stage = "commit" /\ stage' = Route /\ s'.toBoot = s.toBoot
        /\ UNCHANGED <<chosen, usb>> /\ exposed = "none"
    BY <1>6 DEF Commit, Fresh, Unforced, Locals, RestorePrimary, FlashSecondary, vars, Route
  <2> QED
    BY <2>1 DEF Route
<1>7. CASE InCall
  <2>1. /\ stage \in {"flashing", "restoring"} /\ exposed = "none"
        /\ UNCHANGED <<stage, usb, ini, pending, s, strained, chosen>>
    BY <1>7, StaysInCall, CallSlot DEF InCall, chain, CallsInv, Stages, Underway
  <2> QED
    BY <2>1
<1>8. CASE FlashReturned
  <2>1. /\ stage = "flashing" /\ pc = "returned" /\ stage' = "save" /\ exposed = "none"
        /\ UNCHANGED <<usb, slot, req, res>>
    BY <1>8 DEF FlashReturned, vars, Abort
  <2>2. CASE res < 0
    BY <1>e, <1>8, <2>2 DEF FlashReturned, Abort
  <2>3. CASE ~(res < 0)
    <3>1. /\ s'.rom = s.toBoot /\ s'.exit = "reboot" /\ chosen' = chosen
      BY <1>8, <2>3 DEF FlashReturned, Locals
    <3>2. res = 0
      BY <2>3 DEF IInv, TypeOK
    <3> QED
      BY <2>1, <3>1, <3>2 DEF CallsInv, SlotFacts
  <2> QED
    BY <2>2, <2>3
<1>9. CASE RestoreReturned
  <2>1. CASE res < 0
    BY <1>e, <1>9, <2>1 DEF RestoreReturned, Abort
  <2>2. CASE ~(res < 0)
    BY <1>9, <2>2 DEF RestoreReturned, vars
  <2> QED
    BY <2>1, <2>2
<1>10. ASSUME NEW ok \in BOOLEAN, Prepare(ok) PROVE RequestInv'
  <2>1. CASE ok /\ chosen # "none"
    <3>1. /\ stage = "prepare" /\ stage' = "save" /\ exposed = "none"
          /\ UNCHANGED <<usb, chosen, strained>>
      BY <1>10, <2>1 DEF Prepare, vars
    <3>2. s'.exit = PreparedExit /\ s'.toBoot = s.toBoot /\ s'.arg = s.arg
      BY <1>10, <2>1 DEF Prepare, Locals
    <3>3. chosen = s.toBoot /\ chosen \in Reachable
      BY <2>1, <3>1
    <3>4. ASSUME PreparedExit = "umount" PROVE s.arg = "none" /\ (strained = "none" => chosen = Internal)
      <4>1. s.toBoot \notin Shared \cup Roms /\ (s.toBoot \in Linux => s.second)
        BY <3>4, PreparedExits
      <4>2. s.arg = "none"
        BY <3>1, <4>1 DEF LocalsInv
      <4>3. strained = "none" => (s.second => s.toBoot \in Roms)
        BY <3>1 DEF Clean, CleanInv
      <4> QED
        BY <3>3, <4>1, <4>2, <4>3 DEF Systems
    <3> QED
      BY <3>1, <3>2, <3>3, <3>4, PreparedExits
  <2>2. CASE ~ok \/ chosen = "none"
    BY <1>e, <1>10, <2>2 DEF Prepare
  <2> QED
    BY <2>1, <2>2
<1>11. ASSUME NEW ok \in BOOLEAN, Save(ok) PROVE RequestInv'
  <2>1. CASE ok
    BY <1>11, <2>1 DEF Save, Strain, vars
  <2>2. CASE ~ok
    BY <1>e, <1>11, <2>2 DEF Save
  <2> QED
    BY <2>1, <2>2
<1>12. CASE SyncAll
  BY <1>12 DEF SyncAll, Sync, Fresh, vars
<1>13. CASE Leave
  <2>1. /\ stage = "exit" /\ s' = Blank
        /\ UNCHANGED <<ini, usb, slot, exposed>>
    BY <1>13 DEF Leave, vars, Fresh
  <2>2. CASE s.exit = "reboot" /\ stage' = "boot" /\ chosen' = chosen
    BY <2>1, <2>2
  <2>3. CASE s.exit \in {"bootloader", "shutdown", "recovery", "restart"} /\ chosen' = chosen
    BY <1>e, <2>1, <2>3
  <2> QED
    BY <1>e, <1>13, <2>2, <2>3, LeaveEffect
<1>14. CASE KexecFails
  BY <1>14 DEF KexecFails, vars
<1>15. ASSUME NEW restart \in BOOLEAN, Died(restart) PROVE RequestInv'
  BY <1>e, <1>15 DEF Died
<1>16. CASE DecryptScreen
  BY <1>e, <1>16 DEF DecryptScreen
<1>17. ASSUME NEW x \in Reachable, Pick(x) PROVE RequestInv'
  <2>1. s'.toBoot = x
    BY <1>17 DEF Pick, Locals
  <2> QED
    BY <1>17, <2>1 DEF Pick, Fresh
<1>18. CASE LeaveUI
  BY <1>e, <1>18 DEF LeaveUI
<1>19. CASE PressPower
  BY <1>e, <1>19 DEF PressPower
<1>20. CASE PowerCut
  BY <1>e, <1>20 DEF PowerCut
<1>21. CASE Restart
  BY <1>e, <1>21 DEF Restart
<1>22. ASSUME NEW x \in Systems, BootRom(x) PROVE RequestInv'
  <2>1. s'.arg = x /\ x # "none" /\ chosen' = x /\ stage' = "load"
    BY <1>22, ChainTypes DEF BootRom, Blank
  <2> QED
    BY <2>1
<1>23. CASE Reinstall
  BY <1>e, <1>23 DEF Reinstall, chain
<1>24. CASE PlugUsb
  <2>1. CASE chosen \in External \/ chosen = "none"
    BY <1>e, <1>24, <2>1 DEF PlugUsb
  <2>2. CASE chosen \notin External /\ chosen # "none"
    <3>1. /\ stage = "boot" /\ exposed = "none" /\ chosen \in Reachable
          /\ UNCHANGED <<stage, ini, pending, s, slot, chosen>>
      BY <1>24, <2>2 DEF PlugUsb, vars
    <3>2. chosen \in Reachable'
      BY <2>2, <3>1 DEF Reachable
    <3> QED
      BY <3>1, <3>2
  <2> QED
    BY <2>1, <2>2
<1>25. CASE UNCHANGED bootVars
  BY <1>25 DEF bootVars, chain, vars
<1> QED
  BY <1>1, <1>2, <1>3, <1>4, <1>5, <1>6, <1>7, <1>8, <1>9, <1>10, <1>11, <1>12, <1>13,
     <1>14, <1>15, <1>16, <1>17, <1>18, <1>19, <1>20, <1>21, <1>22, <1>23, <1>24, <1>25
  DEF BootNext, DeviceStep, UserStep

\* The inductive invariant of the chain.
THEOREM ChainInvariance == BootSpec => []ChainInv
<1>1. BootSpec => [](IInv /\ SlotFacts)
  BY ChainImplements, Invariance, SlotKnown, PTL DEF NoKexecSpec
<1>2. BootInit => AskedInv /\ RequestInv
  BY DEF BootInit, AskedInv, RequestInv
<1>3. /\ ShapeInv /\ ShapeInv' /\ IInv /\ SlotFacts /\ SlotFacts' /\ ChainInv
      /\ [BootNext]_bootVars
      => ChainInv'
  <2> SUFFICES ASSUME ShapeInv, ShapeInv', IInv, SlotFacts, SlotFacts', ChainInv, [BootNext]_bootVars
               PROVE  ChainInv'
    OBVIOUS
  <2>0. AskedInv /\ (Clean => CleanInv /\ ForceInv) /\ (exposed = "none" => RequestInv)
    BY DEF ChainInv
  <2>1. AskedInv'
    BY <2>0, AskedStep
  <2>2. Clean' => CleanInv'
    BY <2>0, CleanStep
  <2>3. Clean' => ForceInv'
    BY <2>0, ForceStep
  <2>4. exposed' = "none" => RequestInv'
    BY <2>0, <2>1, RequestStep
  <2> QED
    BY <2>1, <2>2, <2>3, <2>4 DEF ChainInv
<1>4. BootInit => ChainInv
  BY <1>2, ShapeInit, CleanInit DEF ChainInv
<1> QED
  BY <1>1, <1>3, <1>4, Shaped, PTL DEF BootSpec

\* A system starts out of "exit" only by main() acting on multirom()'s result.
LEMMA LeavesOnly ==
    ASSUME [BootNext]_bootVars, stage = "exit", stage' = "running" PROVE Leave
<1> USE DEF At, To, Halt
<1>1. CASE \/ Bootloader \/ RunMultirom \/ RunCoreGivesUp \/ KexecFails \/ DecryptScreen
           \/ PressPower \/ PowerCut \/ Restart \/ LeaveUI \/ FlashReturned \/ RestoreReturned
           \/ Commit \/ SyncAll \/ Reinstall \/ PlugUsb \/ InCall \/ UNCHANGED bootVars
  BY <1>1 DEF Bootloader, RunMultirom, RunCoreGivesUp, KexecFails, DecryptScreen, PressPower,
     PowerCut, Restart, LeaveUI, FlashReturned, RestoreReturned, Commit, SyncAll, Reinstall,
     PlugUsb, InCall, chain, bootVars
<1>2. ASSUME NEW readable \in BOOLEAN, NEW again \in BOOLEAN,
             MountFails(readable) \/ LoadStatus(readable, again)
      PROVE  FALSE
  BY <1>2 DEF MountFails, LoadStatus
<1>3. ASSUME NEW x \in Systems, Pick(x) \/ BootRom(x) PROVE FALSE
  BY <1>3 DEF Pick, BootRom
<1>4. ASSUME NEW ok \in BOOLEAN, Prepare(ok) \/ Save(ok) \/ Died(ok) PROVE FALSE
  BY <1>4 DEF Prepare, Save, Died
<1> QED
  BY <1>1, <1>2, <1>3, <1>4 DEF BootNext, DeviceStep, UserStep, Reachable

-----------------------------------------------------------------------------
\* Types of the whole chain (BootTypeOK).
THEOREM ChainTyped == BootSpec => []BootTypeOK
BY Shaped, PTL DEF ShapeInv

\* Internal and the ROMs without a boot.img run on a primary kernel, any other system
\* on its own, whichever way the boot took (trampoline.c, multirom.c).
THEOREM KernelFits == BootSpec => []KernelMatchesSystem
<1>1. ChainInv => KernelMatchesSystem
  BY DEF ChainInv, CleanInv, KernelMatchesSystem, Fits, At
<1> QED
  BY <1>1, ChainInvariance, PTL

\* While any system runs the slot holds the primary image (multirom.c:472-475).
THEOREM SlotRestored == BootSpec => []SlotRestoredWhileRunning
<1>1. ChainInv => SlotRestoredWhileRunning
  BY DEF ChainInv, CleanInv, SlotRestoredWhileRunning, Holds, At
<1> QED
  BY <1>1, ChainInvariance, PTL

\* A tagged slot and multirom.ini agree on the ROM of the second boot.
THEOREM IniNamesSlot == BootSpec => []PendingMatchesIni
<1>1. ChainInv => PendingMatchesIni
  BY DEF ChainInv, CleanInv, PendingMatchesIni, Names, At
<1> QED
  BY <1>1, ChainInvariance, PTL

\* What starts is what was asked for, over any number of reboots.
THEOREM Served == BootSpec => RequestServed
<1>1. ChainInv /\ [BootNext]_bootVars
        => (At("exit") /\ To("running") /\ chosen # "none" /\ Clean => system' = chosen)
  <2> SUFFICES ASSUME ChainInv, [BootNext]_bootVars, stage = "exit", stage' = "running",
                      chosen # "none", Clean
               PROVE  system' = chosen
    BY DEF At, To
  <2>1. Leave
    BY LeavesOnly
  <2>2. /\ s.exit \in {"kexec", "run"} => chosen = s.toBoot
        /\ s.exit = "umount" => s.arg = "none" /\ chosen = Internal
        /\ s \in Locals
    BY DEF ChainInv, RequestInv, ShapeInv, BootTypeOK, Locals, Clean, Ending
  <2> QED
    BY <2>1, <2>2, LeaveEffect DEF Run, Halt, To
<1> QED
  BY <1>1, ChainInvariance, PTL DEF BootSpec, RequestServed

\* AUTOBOOT_FORCE_CURRENT is gone from multirom.ini when the system it forced starts.
THEOREM OneShot == BootSpec => ForceIsOneShot
<1>1. ChainInv /\ [BootNext]_bootVars
        => (At("exit") /\ To("running") /\ s.arg = "none" /\ s.toBoot # "none" /\ Clean => ~ini.force)
  BY DEF ChainInv, ForceInv, At
<1> QED
  BY <1>1, ChainInvariance, PTL DEF BootSpec, ForceIsOneShot
===============================================================================
