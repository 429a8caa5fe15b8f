------------------------- MODULE FirmwarePowerProofs -------------------------
(***************************************************************************)
(* When losing power is the only thing that goes wrong, the bootloader     *)
(* never jumps to an incomplete image, and it implements AtomicInstall:    *)
(* for every number of pages, images and power losses.                     *)
(***************************************************************************)
EXTENDS FirmwareUpdateProofs

\* Power losses are the only faults, and every candidate can be opened and
\* fits.
PowerOnly ==
  /\ Faults \subseteq {"power"}
  /\ \A c \in Candidates : c \in Images /\ SizeOf[c] <= NPages

\* No error is met, so no restore runs and no request survives to the jump.
NoErrors ==
  /\ machine # "restore" /\ pc # "panic"
  /\ ~updateRequested => pc \in {"boot", "app"}
  /\ pc = "app" => ~updateRequested

\* Without a pending request the device can run; with one it has a candidate.
Outside ==
  /\ lastRun \in Signed
  /\ ~updateRequested => Bootable
  /\ updateRequested => CandidateFits
  /\ updateRequested /\ cand \notin Signed => Holds(lastRun)

\* What the interrupted and resumed phases leave in the flash and on the card.
Progress ==
  /\ pc \in UpdatePhases \ {"check"} => cand \in Signed
  /\ pc = "backup_write" => \A p \in 1..Len(bak) : bak[p] = flash[p]
  /\ pc = "backup_verify" => bak = FwSlice(backupLen)
  /\ pc = "erase_flash" => \A p \in 1..pos : flash[p] = {}
  /\ pc = "flash" =>
       /\ pos <= SizeOf[cand]
       /\ \A p \in Pages : flash[p] = IF p <= pos THEN {cand} ELSE {}
  /\ pc \in {"verify_flash", "set_size"} => Holds(cand)
  /\ pc = "clear" => IF cand \in Signed THEN Holds(cand) ELSE Holds(lastRun)

\* Together with IInv this is inductive under PowerOnly.
PowerInv == NoErrors /\ Outside /\ Progress

-----------------------------------------------------------------------------
(* The invariant under power losses *)

\* At most one image lies at the start of the flash.
LEMMA HoldsUnique ==
  ASSUME NEW i \in Images, NEW j \in Images, Holds(i), Holds(j)
  PROVE  i = j
<1>1. SizeOf[i] >= 1 /\ SizeOf[j] >= 1
  BY ConstantsAssumption
<1>2. flash[1] = {i}
  BY <1>1, ConstantsAssumption DEF Holds, FwSlice, ImageFile
<1>3. flash[1] = {j}
  BY <1>1, ConstantsAssumption DEF Holds, FwSlice, ImageFile
<1>. QED
  BY <1>2, <1>3

\* The factory state.
LEMMA InitPower == Init => PowerInv
<1> SUFFICES ASSUME Init PROVE PowerInv
  OBVIOUS
<1>1. Holds(Factory)
  BY ConstantsAssumption DEF Init, Holds, FwSlice, ImageFile, Pages
<1>. QED
  BY <1>1, ConstantsAssumption DEF Init, PowerInv, NoErrors, Outside, Progress,
     Bootable, UpdatePhases

\* Every step of the boot task, by its action.
LEMMA BootloaderPower ==
  PowerOnly /\ IInv /\ PowerInv /\ Bootloader => PowerInv'
<1> SUFFICES ASSUME PowerOnly, IInv, PowerInv, Bootloader PROVE PowerInv'
  OBVIOUS
<1> USE ConstantsAssumption DEF IInv, TypeOK, PhaseOfMachine, AcceptedFits, Lengths,
      VerifiedBeforeSize, PowerInv, NoErrors, Outside, Progress, UpdatePhases,
      RestorePhases, Pages, CandidateFits, FwSlice, ImageFile, Holds, Bootable,
      Goto, persistent, locals, history
<1>1. CASE JumpToApp
  BY <1>1 DEF JumpToApp
<1>2. CASE StartUpdate
  BY <1>2 DEF StartUpdate
<1>3. CASE ClearUpdateRequest
  BY <1>3 DEF ClearUpdateRequest
<1>4. CASE CheckUnusable
  BY <1>4 DEF CheckUnusable, Leave
<1>5. CASE CheckAlreadyInSystem
  BY <1>5 DEF CheckAlreadyInSystem
<1>6. CASE CheckSignature
  BY <1>6 DEF CheckSignature
<1>7. CASE BackupOpen
  BY <1>7 DEF BackupOpen, BackupOpenAs
<1>8. CASE BackupWrite
  BY <1>8 DEF BackupWrite
<1>9. CASE BackupWritten
  BY <1>9 DEF BackupWritten
<1>10. CASE BackupVerify
  BY <1>10 DEF BackupVerify, Leave
<1>11. CASE EraseFlash
  <2>1. pc = "erase_flash" /\ pos + 1 \in Pages /\ updateRequested
    BY <1>11 DEF EraseFlash, ErasePhases
  <2>2. \A p \in 1..(pos + 1) : flash'[p] = {}
    BY <1>11, <2>1 DEF EraseFlash
  <2>3. NoErrors' /\ Outside'
    BY <1>11, <2>1 DEF EraseFlash
  <2>4. CASE pos + 1 < NPages
    BY <1>11, <2>1, <2>2, <2>3, <2>4 DEF EraseFlash
  <2>5. CASE ~(pos + 1 < NPages)
    <3>1. pc' = "flash" /\ pos' = 0 /\ cand' = cand
      BY <1>11, <2>1, <2>5 DEF EraseFlash
    <3>2. \A p \in Pages : flash'[p] = {}
      BY <2>1, <2>2, <2>5
    <3>3. SizeOf[cand] \in Nat
      BY <2>1
    <3>4. Progress'
      <4> HIDE DEF IInv
      <4>. QED
        BY <3>1, <3>2, <3>3, <2>1
    <3>. QED
      BY <2>3, <3>4
  <2>. QED
    BY <2>4, <2>5
<1>12. CASE FlashFirmware
  <2> USE DEF FlashFirmware, Programming, SourceUsable, Source, ProgramPhases
  <2>1. pc = "flash" /\ cand \in Signed /\ pos < SizeOf[cand] /\ updateRequested
    BY <1>12
  <2>2. Source[pos + 1] = {cand}
    BY <2>1
  <2>3. flash' = [flash EXCEPT ![pos + 1] = {cand}]
    BY <1>12, <2>1, <2>2 DEF ProgramBlock
  <2>4. pc' = "flash" /\ pos' = pos + 1 /\ cand' = cand
    BY <1>12, <2>1
  <2>5. NoErrors' /\ Outside'
    BY <1>12, <2>1
  <2>6. ASSUME NEW p \in Pages
        PROVE  flash'[p] = IF p <= pos + 1 THEN {cand} ELSE {}
    <3>1. flash[p] = IF p <= pos THEN {cand} ELSE {}
      BY <2>1
    <3>2. flash'[p] = IF p = pos + 1 THEN {cand} ELSE flash[p]
      BY <2>3
    <3>. QED
      BY <3>1, <3>2
  <2>7. pos + 1 <= SizeOf[cand]
    BY <2>1
  <2>8. Progress'
    <3> HIDE DEF IInv, PowerInv
    <3>. QED
      BY <2>1, <2>4, <2>6, <2>7
  <2>. QED
    BY <2>5, <2>8
<1>13. CASE FlashFirmwareDone
  BY <1>13 DEF FlashFirmwareDone, SourceUsable, Source, ProgramPhases
<1>14. CASE FlashFirmwareRefused
  BY <1>14 DEF FlashFirmwareRefused, SourceUsable, ProgramPhases, Leave
<1>15. CASE VerifyImage
  BY <1>15 DEF VerifyImage
<1>16. CASE SetFirmwareSize
  BY <1>16 DEF SetFirmwareSize
<1>17. CASE VerifyBackup
  BY <1>17 DEF VerifyBackup
<1>. QED
  BY <1>1, <1>2, <1>3, <1>4, <1>5, <1>6, <1>7, <1>8, <1>9, <1>10,
     <1>11, <1>12, <1>13, <1>14, <1>15, <1>16, <1>17 DEF Bootloader

\* Of the faults only the power loss can happen, and it keeps everything
\* that PowerInv says outside the phases.
LEMMA FailurePower ==
  PowerOnly /\ IInv /\ PowerInv /\ Failure => PowerInv'
<1> SUFFICES ASSUME PowerOnly, IInv, PowerInv, Failure PROVE PowerInv'
  OBVIOUS
<1>1. PowerLoss
  BY DEF PowerOnly, Failure, Fault, SkipUpdate, ClearUpdateRequestFails,
     CheckOpenFails, CheckHashFails, CheckSignatureFails,
     BackupOpenSizeUnreadable, BackupWriteDamaged, BackupFails,
     EraseFlashFails, FlashFirmwareDamaged, FlashFirmwareWriteFails,
     SetFirmwareSizeFails, ReadFails
<1>. QED
  BY <1>1 DEF PowerLoss, Restart, Goto, PowerInv, NoErrors, Outside, Progress,
     UpdatePhases, CandidateFits, FwSlice, Holds, Bootable, persistent, history

\* Restarts and new requests.
LEMMA EnvironmentPower ==
  PowerOnly /\ IInv /\ PowerInv /\ Environment => PowerInv'
<1> SUFFICES ASSUME PowerOnly, IInv, PowerInv, Environment PROVE PowerInv'
  OBVIOUS
<1> USE DEF Restart, Goto, PowerInv, NoErrors, Outside, Progress, UpdatePhases,
      CandidateFits, FwSlice, Holds, Bootable, persistent, history
<1>1. CASE PowerCycle
  BY <1>1 DEF PowerCycle
<1>2. CASE AppReset
  BY <1>2 DEF AppReset
<1>3. ASSUME NEW c \in Candidates, RequestUpdate(c) PROVE PowerInv'
  BY <1>3, ConstantsAssumption DEF RequestUpdate, PowerOnly
<1>. QED
  BY <1>1, <1>2, <1>3 DEF Environment

\* A stuttering step.
LEMMA StutterPower == PowerInv /\ UNCHANGED vars => PowerInv'
<1> SUFFICES ASSUME PowerInv, UNCHANGED vars PROVE PowerInv'
  OBVIOUS
<1> USE DEF PowerInv, vars, persistent, locals, history
<1>1. NoErrors'
  BY DEF NoErrors
<1>2. \A i : Holds(i)' <=> Holds(i)
  BY DEF Holds, FwSlice
<1>3. Outside'
  BY <1>2 DEF Outside, Bootable, CandidateFits
<1>4. Progress'
  BY <1>2 DEF Progress, UpdatePhases, FwSlice
<1>. QED
  BY <1>1, <1>3, <1>4

\* PowerInv holds in every reachable state.
LEMMA PowerInvariant == ASSUME PowerOnly PROVE Spec => []PowerInv
<1>1. IInv /\ PowerInv /\ [Next]_vars => PowerInv'
  BY PowerOnly, BootloaderPower, FailurePower, EnvironmentPower, StutterPower DEF Next
<1>. QED
  BY InitPower, InductiveInvariant, <1>1, PTL DEF Spec

-----------------------------------------------------------------------------
(* The theorems *)

\* Whenever power fails, and however often, the bootloader only ever jumps to
\* a complete and valid image.
THEOREM PowerLossIsSafe ==
  ASSUME PowerOnly PROVE Spec => []JumpsToBootableImage
<1>1. PowerInv => JumpsToBootableImage
  BY DEF PowerInv, NoErrors, Outside, JumpsToBootableImage
<1>. QED
  BY PowerInvariant, <1>1, PTL

-----------------------------------------------------------------------------
(* The bootloader implements AtomicInstall *)

\* The image a device carries when no update is pending is the one it holds.
LEMMA HeldImageIs ==
  ASSUME NEW i \in Signed, Holds(i) PROVE HeldImage = i
<1>1. HeldImage \in Signed /\ Holds(HeldImage)
  BY DEF HeldImage
<1>. QED
  BY <1>1, HoldsUnique, ConstantsAssumption

\* A step that leaves the flash, the request, the candidate and the last
\* image alone is invisible.
LEMMA Invisible ==
  UNCHANGED <<updateRequested, cand, lastRun>> /\ (flash' = flash \/ updateRequested)
    => UNCHANGED Contract!contract
<1> SUFFICES ASSUME UNCHANGED <<updateRequested, cand, lastRun>>,
                    flash' = flash \/ updateRequested
             PROVE  UNCHANGED Contract!contract
  OBVIOUS
<1>1. CASE updateRequested
  BY <1>1 DEF Contract!contract
<1>2. CASE ~updateRequested
  <2>1. HeldImage' = HeldImage
    BY <1>2 DEF HeldImage, Holds, FwSlice
  <2>. QED
    BY <1>2, <2>1 DEF Contract!contract
<1>. QED
  BY <1>1, <1>2

\* The factory state maps to the initial state of the contract.
LEMMA InitRefines == Init => Contract!Init
<1> SUFFICES ASSUME Init PROVE Contract!Init
  OBVIOUS
<1>1. Holds(Factory)
  BY ConstantsAssumption DEF Init, Holds, FwSlice, ImageFile, Pages
<1>2. HeldImage = Factory
  BY <1>1, HeldImageIs, ConstantsAssumption
<1>. QED
  BY <1>2 DEF Init, Contract!Init

\* Clearing the request settles the pending update.
LEMMA ClearRefines ==
  IInv /\ PowerInv /\ ClearUpdateRequest => Contract!Settle
<1> SUFFICES ASSUME IInv, PowerInv, ClearUpdateRequest PROVE Contract!Settle
  OBVIOUS
<1>1. updateRequested /\ CandidateFits /\ cand \in Images
  BY DEF PowerInv, NoErrors, Outside, ClearUpdateRequest, IInv, TypeOK, CandidateFits
<1>2. ~updateRequested' /\ flash' = flash
  BY DEF ClearUpdateRequest
<1>3. HeldImage' = HeldImage
  BY <1>2 DEF HeldImage, Holds, FwSlice
<1>4. CASE cand \in Signed
  <2>1. HeldImage = cand
    BY <1>4, HeldImageIs DEF PowerInv, Progress, ClearUpdateRequest
  <2>. QED
    BY <1>1, <1>2, <1>3, <1>4, <2>1 DEF Contract!Settle, CandidateFits
<1>5. CASE cand \notin Signed
  <2>1. HeldImage = lastRun
    BY <1>5, HeldImageIs DEF PowerInv, Progress, Outside, ClearUpdateRequest
  <2>. QED
    BY <1>1, <1>2, <1>3, <1>5, <2>1 DEF Contract!Settle, CandidateFits
<1>. QED
  BY <1>4, <1>5

\* A request of the application is a request of the contract.
LEMMA RequestRefines ==
  ASSUME PowerOnly, IInv, PowerInv, NEW c \in Candidates, RequestUpdate(c)
  PROVE  Contract!Request(c)
<1>1. ~updateRequested /\ updateRequested' /\ cand' = c
  BY DEF RequestUpdate, PowerInv, NoErrors
<1>2. PICK i \in Signed : Holds(i) /\ lastRun' = i
  BY DEF RequestUpdate
<1>3. HeldImage = i
  BY <1>2, HeldImageIs
<1>. QED
  BY <1>1, <1>2, <1>3 DEF Contract!Request

\* Every step of the bootloader is a step of the contract or invisible.
LEMMA StepRefines ==
  PowerOnly /\ IInv /\ PowerInv /\ [Next]_vars => [Contract!Next]_(Contract!contract)
<1> SUFFICES ASSUME PowerOnly, IInv, PowerInv, [Next]_vars
             PROVE  [Contract!Next]_(Contract!contract)
  OBVIOUS
<1> USE DEF persistent, history
<1>1. CASE ClearUpdateRequest
  BY <1>1, ClearRefines DEF Contract!Next
<1>2. CASE Bootloader /\ ~ClearUpdateRequest
  <2>1. UNCHANGED <<updateRequested, cand, lastRun>>
    BY <1>2 DEF Bootloader, JumpToApp, StartUpdate, CheckUnusable,
       CheckAlreadyInSystem, CheckSignature, BackupOpen, BackupOpenAs,
       BackupWrite, BackupWritten, BackupVerify, EraseFlash, FlashFirmware,
       FlashFirmwareDone, FlashFirmwareRefused, VerifyImage, SetFirmwareSize,
       VerifyBackup
  <2>2. flash' = flash \/ pc \in ErasePhases \cup ProgramPhases
    BY <1>2 DEF Bootloader, JumpToApp, StartUpdate, CheckUnusable,
       CheckAlreadyInSystem, CheckSignature, BackupOpen, BackupOpenAs,
       BackupWrite, BackupWritten, BackupVerify, EraseFlash, FlashFirmware,
       FlashFirmwareDone, FlashFirmwareRefused, VerifyImage, SetFirmwareSize,
       VerifyBackup, Programming
  <2>3. flash' = flash \/ updateRequested
    BY <2>2 DEF PowerInv, NoErrors, ErasePhases, ProgramPhases
  <2>. QED
    BY <2>1, <2>3, Invisible
<1>3. CASE Failure
  <2>1. PowerLoss
    BY <1>3 DEF PowerOnly, Failure, Fault, SkipUpdate, ClearUpdateRequestFails,
       CheckOpenFails, CheckHashFails, CheckSignatureFails,
       BackupOpenSizeUnreadable, BackupWriteDamaged, BackupFails,
       EraseFlashFails, FlashFirmwareDamaged, FlashFirmwareWriteFails,
       SetFirmwareSizeFails, ReadFails
  <2>. QED
    BY <2>1, Invisible DEF PowerLoss
<1>4. CASE PowerCycle \/ AppReset
  BY <1>4, Invisible DEF PowerCycle, AppReset
<1>5. ASSUME NEW c \in Candidates, RequestUpdate(c)
      PROVE  Contract!Next
  <2>1. c \in Images
    BY DEF PowerOnly
  <2>. QED
    BY <1>5, <2>1, RequestRefines DEF Contract!Next
<1>6. CASE UNCHANGED vars
  BY <1>6, Invisible DEF vars
<1>. QED
  BY <1>1, <1>2, <1>3, <1>4, <1>5, <1>6 DEF Next, Environment

\* With power losses as the only faults the bootloader implements the safety
\* part of AtomicInstall: an update happens at once, when its request is
\* cleared, and a half-written flash is never visible outside.
THEOREM BootloaderImplementsContract ==
  ASSUME PowerOnly PROVE Spec => Contract!SafeSpec
<1>1. IInv /\ PowerInv /\ [Next]_vars => [Contract!Next]_(Contract!contract)
  BY PowerOnly, StepRefines
<1>. QED
  BY InitRefines, InductiveInvariant, PowerInvariant, <1>1, PTL DEF Spec, Contract!SafeSpec

=============================================================================
