------------------------ MODULE FirmwareUpdateProofs ------------------------
(***************************************************************************)
(* Proofs about FirmwareUpdate for every number of pages, set of images    *)
(* and number and mix of faults.                                           *)
(***************************************************************************)
EXTENDS FirmwareUpdate, TLAPS

UpdatePhases == {"check", "backup", "backup_write", "backup_verify",
                 "erase_flash", "flash", "verify_flash", "set_size"}

RestorePhases == {"erase_flash_before_restore", "restore_backup", "verify_backup"}

\* Which call of the state machine a phase belongs to.
PhaseOfMachine ==
  /\ pc \in {"boot", "app"} => machine = "none"
  /\ pc \in UpdatePhases => machine = "update"
  /\ pc \in RestorePhases => machine = "restore"
  /\ pc = "clear" => machine # "none"

\* Up to the end of the backup the flash is what the attempt found.
UntouchedUntilBackup ==
  pc \in {"check", "backup", "backup_write", "backup_verify"} => flash = prior

\* APP.BAK exists once it is written, and is the verified copy from the
\* first erase on.
BackupIsCopy ==
  /\ pc \in {"backup_write", "backup_verify"} => bakExists
  /\ pc \in {"erase_flash", "flash", "verify_flash", "set_size"} =>
       bakExists /\ bak = [p \in 1..backupLen |-> prior[p]]

\* A candidate that passed the check fits.
AcceptedFits == pc \in UpdatePhases \ {"check"} => CandidateFits

\* The lengths and positions the loops work with.
Lengths ==
  /\ pc \in ErasePhases => pos < NPages
  /\ Len(bak) <= NPages
  /\ pc = "backup_write" => Len(bak) <= backupLen
  /\ pc \in {"verify_flash", "set_size"} => appLen = SizeOf[cand]
  /\ pc = "verify_backup" => appLen = Len(bak)

\* The image is verified before its size is recorded.
VerifiedBeforeSize ==
  pc = "set_size" => FwSlice(SizeOf[cand]) = ImageFile(cand)

\* The inductive invariant.
IInv ==
  /\ TypeOK
  /\ PhaseOfMachine
  /\ UntouchedUntilBackup
  /\ BackupIsCopy
  /\ AcceptedFits
  /\ Lengths
  /\ VerifiedBeforeSize
  /\ BackupPreservesPrior
  /\ ClearOnlyWhenSettled

-----------------------------------------------------------------------------
(* The invariant is inductive *)

\* The factory state satisfies the invariant.
LEMMA InitIInv == Init => IInv
<1> SUFFICES ASSUME Init PROVE IInv
  OBVIOUS
<1> USE ConstantsAssumption DEF Init, Pages, Block
<1>1. flash \in [Pages -> Block] /\ prior = flash
  OBVIOUS
<1>2. bakExists \in BOOLEAN /\ updateRequested \in BOOLEAN
  BY Zenon
<1>3. TypeOK
  BY <1>1, <1>2 DEF TypeOK, Phases
<1>4. PhaseOfMachine /\ UntouchedUntilBackup /\ BackupIsCopy /\ AcceptedFits
  BY DEF PhaseOfMachine, UntouchedUntilBackup, BackupIsCopy, AcceptedFits,
         UpdatePhases, RestorePhases
<1>5. Lengths /\ VerifiedBeforeSize /\ BackupPreservesPrior /\ ClearOnlyWhenSettled
  BY DEF Lengths, VerifiedBeforeSize, BackupPreservesPrior, ClearOnlyWhenSettled,
         ErasePhases
<1>. QED
  BY <1>3, <1>4, <1>5 DEF IInv

\* Every step of the boot task preserves it.
LEMMA BootloaderIInv == IInv /\ Bootloader => IInv'
<1> SUFFICES ASSUME IInv, Bootloader PROVE IInv'
  OBVIOUS
<1> USE ConstantsAssumption DEF IInv, TypeOK, PhaseOfMachine, UntouchedUntilBackup,
      BackupIsCopy, AcceptedFits, Lengths, VerifiedBeforeSize,
      BackupPreservesPrior, ClearOnlyWhenSettled, UpdatePhases, RestorePhases,
      ErasePhases, ProgramPhases, Phases, Pages, Block, CandidateFits, FwSlice,
      ImageFile, Holds, Goto, persistent, locals, history
<1>1. CASE JumpToApp
  BY <1>1 DEF JumpToApp
<1>2. CASE StartUpdate
  BY <1>2 DEF StartUpdate
<1>3. CASE ClearUpdateRequest
  <2>1. TypeOK'
    <3>1. updateRequested' \in BOOLEAN
      BY <1>3, Zenon DEF ClearUpdateRequest
    <3>. QED
      BY <1>3, <3>1 DEF ClearUpdateRequest
  <2>2. PhaseOfMachine'
    BY <1>3 DEF ClearUpdateRequest
  <2>3. UntouchedUntilBackup'
    BY <1>3 DEF ClearUpdateRequest
  <2>4. BackupIsCopy'
    BY <1>3 DEF ClearUpdateRequest
  <2>5. AcceptedFits'
    BY <1>3 DEF ClearUpdateRequest
  <2>6. Lengths'
    BY <1>3 DEF ClearUpdateRequest
  <2>7. VerifiedBeforeSize'
    BY <1>3 DEF ClearUpdateRequest
  <2>8. BackupPreservesPrior'
    BY <1>3 DEF ClearUpdateRequest
  <2>9. ClearOnlyWhenSettled'
    BY <1>3 DEF ClearUpdateRequest
  <2>. QED
    BY <2>1, <2>2, <2>3, <2>4, <2>5, <2>6, <2>7, <2>8, <2>9
<1>4. CASE CheckUnusable
  BY <1>4 DEF CheckUnusable, Leave
<1>5. CASE CheckAlreadyInSystem
  BY <1>5 DEF CheckAlreadyInSystem
<1>6. CASE CheckSignature
  BY <1>6 DEF CheckSignature
<1>7. CASE BackupOpen
  BY <1>7 DEF BackupOpen, BackupOpenAs
<1>8. CASE BackupWrite
  BY <1>8 DEF BackupWrite
<1>9. CASE BackupWritten
  BY <1>9 DEF BackupWritten
<1>10. CASE BackupVerify
  <2>1. TypeOK'
    BY <1>10 DEF BackupVerify, Leave
  <2>2. PhaseOfMachine'
    BY <1>10 DEF BackupVerify, Leave
  <2>3. UntouchedUntilBackup'
    BY <1>10 DEF BackupVerify, Leave
  <2>4. BackupIsCopy'
    BY <1>10 DEF BackupVerify, Leave
  <2>5. AcceptedFits'
    BY <1>10 DEF BackupVerify, Leave
  <2>6. Lengths'
    BY <1>10 DEF BackupVerify, Leave
  <2>7. VerifiedBeforeSize'
    BY <1>10 DEF BackupVerify, Leave
  <2>8. BackupPreservesPrior'
    BY <1>10 DEF BackupVerify, Leave
  <2>9. ClearOnlyWhenSettled'
    BY <1>10 DEF BackupVerify, Leave
  <2>. QED
    BY <2>1, <2>2, <2>3, <2>4, <2>5, <2>6, <2>7, <2>8, <2>9
<1>11. CASE EraseFlash
  BY <1>11 DEF EraseFlash
<1>12. CASE FlashFirmware
  BY <1>12 DEF FlashFirmware, Programming, SourceUsable, Source, ProgramBlock
<1>13. CASE FlashFirmwareDone
  BY <1>13 DEF FlashFirmwareDone, SourceUsable, Source
<1>14. CASE FlashFirmwareRefused
  BY <1>14 DEF FlashFirmwareRefused, SourceUsable, Leave
<1>15. CASE VerifyImage
  BY <1>15 DEF VerifyImage
<1>16. CASE SetFirmwareSize
  BY <1>16 DEF SetFirmwareSize
<1>17. CASE VerifyBackup
  BY <1>17 DEF VerifyBackup
<1>. QED
  BY <1>1, <1>2, <1>3, <1>4, <1>5, <1>6, <1>7, <1>8, <1>9, <1>10,
     <1>11, <1>12, <1>13, <1>14, <1>15, <1>16, <1>17 DEF Bootloader

\* So does every fault, at any place the code meets one.
LEMMA FailureIInv == IInv /\ Failure => IInv'
<1> SUFFICES ASSUME IInv, Failure PROVE IInv'
  OBVIOUS
<1> USE ConstantsAssumption DEF IInv, TypeOK, PhaseOfMachine, UntouchedUntilBackup,
      BackupIsCopy, AcceptedFits, Lengths, VerifiedBeforeSize,
      BackupPreservesPrior, ClearOnlyWhenSettled, UpdatePhases, RestorePhases,
      ErasePhases, ProgramPhases, Phases, Pages, Block, CandidateFits, FwSlice,
      ImageFile, Holds, Goto, persistent, locals, history
<1>1. CASE SkipUpdate
  BY <1>1 DEF SkipUpdate, Fault
<1>2. CASE ClearUpdateRequestFails
  BY <1>2 DEF ClearUpdateRequestFails, Fault
<1>3. CASE CheckOpenFails
  BY <1>3 DEF CheckOpenFails, Fault, Leave
<1>4. CASE CheckHashFails
  BY <1>4 DEF CheckHashFails, Fault
<1>5. CASE CheckSignatureFails
  BY <1>5 DEF CheckSignatureFails, Fault
<1>6. CASE BackupOpenSizeUnreadable
  BY <1>6 DEF BackupOpenSizeUnreadable, BackupOpenAs, Fault
<1>7. CASE BackupWriteDamaged
  BY <1>7 DEF BackupWriteDamaged, Fault
<1>8. CASE BackupFails
  <2>1. TypeOK'
    <3>1. bakExists' \in BOOLEAN /\ updateRequested' \in BOOLEAN
      BY <1>8, Zenon DEF BackupFails
    <3>2. bak' = bak \/ bak' = <<>>
      BY <1>8 DEF BackupFails
    <3>3. bak' \in Seq(Block)
      <4>1. CASE bak' = bak
        BY <4>1
      <4>2. CASE bak' = <<>>
        BY <4>2
      <4>. QED
        BY <3>2, <4>1, <4>2
    <3>. QED
      BY <1>8, <3>1, <3>3 DEF BackupFails, Fault, Leave
  <2>2. PhaseOfMachine'
    BY <1>8 DEF BackupFails, Fault, Leave
  <2>3. UntouchedUntilBackup'
    BY <1>8 DEF BackupFails, Fault, Leave
  <2>4. BackupIsCopy'
    BY <1>8 DEF BackupFails, Fault, Leave
  <2>5. AcceptedFits'
    BY <1>8 DEF BackupFails, Fault, Leave
  <2>6. Lengths'
    BY <1>8 DEF BackupFails, Fault, Leave
  <2>7. VerifiedBeforeSize'
    BY <1>8 DEF BackupFails, Fault, Leave
  <2>8. BackupPreservesPrior'
    BY <1>8 DEF BackupFails, Fault, Leave
  <2>9. ClearOnlyWhenSettled'
    BY <1>8 DEF BackupFails, Fault, Leave
  <2>. QED
    BY <2>1, <2>2, <2>3, <2>4, <2>5, <2>6, <2>7, <2>8, <2>9
<1>9. CASE EraseFlashFails
  <2>1. TypeOK'
    <3>1. flash' \in [Pages -> Block]
      BY <1>9 DEF EraseFlashFails
    <3>. QED
      BY <1>9, <3>1 DEF EraseFlashFails, Fault, Leave
  <2>2. PhaseOfMachine'
    BY <1>9 DEF EraseFlashFails, Fault, Leave
  <2>3. UntouchedUntilBackup'
    BY <1>9 DEF EraseFlashFails, Fault, Leave
  <2>4. BackupIsCopy'
    BY <1>9 DEF EraseFlashFails, Fault, Leave
  <2>5. AcceptedFits'
    BY <1>9 DEF EraseFlashFails, Fault, Leave
  <2>6. Lengths'
    BY <1>9 DEF EraseFlashFails, Fault, Leave
  <2>7. VerifiedBeforeSize'
    BY <1>9 DEF EraseFlashFails, Fault, Leave
  <2>8. BackupPreservesPrior'
    BY <1>9 DEF EraseFlashFails, Fault, Leave
  <2>9. ClearOnlyWhenSettled'
    BY <1>9 DEF EraseFlashFails, Fault, Leave
  <2>. QED
    BY <2>1, <2>2, <2>3, <2>4, <2>5, <2>6, <2>7, <2>8, <2>9
<1>10. CASE FlashFirmwareDamaged
  BY <1>10 DEF FlashFirmwareDamaged, Fault, Programming, SourceUsable, Source, ProgramBlock
<1>11. CASE FlashFirmwareWriteFails
  <2>1. TypeOK'
    <3>1. flash' \in [Pages -> Block]
      BY <1>11 DEF FlashFirmwareWriteFails, Programming, SourceUsable, Source, ProgramBlock
    <3>. QED
      BY <1>11, <3>1 DEF FlashFirmwareWriteFails, Fault
  <2>2. PhaseOfMachine'
    BY <1>11 DEF FlashFirmwareWriteFails, Fault, Programming, SourceUsable, Source, ProgramBlock
  <2>3. UntouchedUntilBackup'
    BY <1>11 DEF FlashFirmwareWriteFails, Fault, Programming, SourceUsable, Source, ProgramBlock
  <2>4. BackupIsCopy'
    BY <1>11 DEF FlashFirmwareWriteFails, Fault, Programming, SourceUsable, Source, ProgramBlock
  <2>5. AcceptedFits'
    BY <1>11 DEF FlashFirmwareWriteFails, Fault, Programming, SourceUsable, Source, ProgramBlock
  <2>6. Lengths'
    BY <1>11 DEF FlashFirmwareWriteFails, Fault, Programming, SourceUsable, Source, ProgramBlock
  <2>7. VerifiedBeforeSize'
    BY <1>11 DEF FlashFirmwareWriteFails, Fault, Programming, SourceUsable, Source, ProgramBlock
  <2>8. BackupPreservesPrior'
    BY <1>11 DEF FlashFirmwareWriteFails, Fault, Programming, SourceUsable, Source, ProgramBlock
  <2>9. ClearOnlyWhenSettled'
    BY <1>11 DEF FlashFirmwareWriteFails, Fault, Programming, SourceUsable, Source, ProgramBlock
  <2>. QED
    BY <2>1, <2>2, <2>3, <2>4, <2>5, <2>6, <2>7, <2>8, <2>9
<1>12. CASE SetFirmwareSizeFails
  BY <1>12 DEF SetFirmwareSizeFails, Fault
<1>13. CASE ReadFails
  BY <1>13 DEF ReadFails, Fault, Leave
<1>14. CASE PowerLoss
  BY <1>14 DEF PowerLoss, Fault, Restart
<1>. QED
  BY <1>1, <1>2, <1>3, <1>4, <1>5, <1>6, <1>7, <1>8, <1>9, <1>10,
     <1>11, <1>12, <1>13, <1>14 DEF Failure

\* So do restarts and new requests.
LEMMA EnvironmentIInv == IInv /\ Environment => IInv'
<1> SUFFICES ASSUME IInv, Environment PROVE IInv'
  OBVIOUS
<1> USE ConstantsAssumption DEF IInv, TypeOK, PhaseOfMachine, UntouchedUntilBackup,
      BackupIsCopy, AcceptedFits, Lengths, VerifiedBeforeSize,
      BackupPreservesPrior, ClearOnlyWhenSettled, UpdatePhases, RestorePhases,
      ErasePhases, ProgramPhases, Phases, Pages, Block, CandidateFits, FwSlice,
      ImageFile, Holds, Goto, persistent, locals, history
<1>1. CASE PowerCycle
  BY <1>1 DEF PowerCycle, Restart
<1>2. CASE AppReset
  BY <1>2 DEF AppReset, Restart
<1>3. ASSUME NEW c \in Candidates, RequestUpdate(c) PROVE IInv'
  BY <1>3 DEF RequestUpdate, Restart
<1>. QED
  BY <1>1, <1>2, <1>3 DEF Environment

\* A stuttering step changes nothing the invariant reads.
LEMMA StutterIInv == IInv /\ UNCHANGED vars => IInv'
BY DEF IInv, TypeOK, PhaseOfMachine, UntouchedUntilBackup, BackupIsCopy,
   AcceptedFits, Lengths, VerifiedBeforeSize, BackupPreservesPrior,
   ClearOnlyWhenSettled, CandidateFits, FwSlice, vars, persistent, locals, history

-----------------------------------------------------------------------------
(* The theorems *)

\* IInv holds in every reachable state.
THEOREM InductiveInvariant == Spec => []IInv
<1>1. IInv /\ [Next]_vars => IInv'
  BY BootloaderIInv, FailureIInv, EnvironmentIInv, StutterIInv DEF Next
<1>. QED
  BY InitIInv, <1>1, PTL DEF Spec

\* Every variable keeps its type: no loop of the bootloader runs past the
\* flash, no recorded length exceeds it.
THEOREM TypeCorrect == Spec => []TypeOK
<1>1. IInv => TypeOK
  BY DEF IInv
<1>. QED
  BY InductiveInvariant, <1>1, PTL

\* The image found at the start of an attempt stays recoverable from APP.BAK
\* for as long as the update overwrites the flash, with any faults.
THEOREM BackupIsSafe == Spec => []BackupPreservesPrior
<1>1. IInv => BackupPreservesPrior
  BY DEF IInv
<1>. QED
  BY InductiveInvariant, <1>1, PTL

\* The update request is cleared only over a settled flash, with any faults.
THEOREM RequestClearedWhenSettled == Spec => []ClearOnlyWhenSettled
<1>1. IInv => ClearOnlyWhenSettled
  BY DEF IInv
<1>. QED
  BY InductiveInvariant, <1>1, PTL

\* The size error of flashImage is unreachable, as its comment says.
THEOREM SizeErrorUnreachable == Spec => []FlashPhaseFits
<1>1. IInv => FlashPhaseFits
  BY DEF IInv, AcceptedFits, FlashPhaseFits, UpdatePhases, CandidateFits
<1>. QED
  BY InductiveInvariant, <1>1, PTL

-----------------------------------------------------------------------------
(* The signature check *)

\* Past the check the candidate is signed.
Validated == pc \in UpdatePhases \ {"check"} => cand \in Signed

\* A step reaches such a phase from the check of a signed candidate or from
\* another such phase, unless the hash comparison itself fails.
LEMMA ValidatedStep ==
  "hash" \notin Faults /\ IInv /\ Validated /\ [Next]_vars => Validated'
<1> SUFFICES ASSUME "hash" \notin Faults, IInv, Validated, [Next]_vars PROVE Validated'
  OBVIOUS
<1> USE DEF Validated, UpdatePhases, ErasePhases, ProgramPhases, Goto, Leave, Restart,
      Fault, persistent, locals, history
<1>1. CASE Bootloader
  BY <1>1 DEF Bootloader, JumpToApp, StartUpdate, ClearUpdateRequest, CheckUnusable,
     CheckAlreadyInSystem, CheckSignature, BackupOpen, BackupOpenAs, BackupWrite,
     BackupWritten, BackupVerify, EraseFlash, FlashFirmware, FlashFirmwareDone,
     FlashFirmwareRefused, VerifyImage, SetFirmwareSize, VerifyBackup, Programming
<1>2. CASE Failure
  BY <1>2 DEF Failure, SkipUpdate, ClearUpdateRequestFails, CheckOpenFails,
     CheckHashFails, CheckSignatureFails, BackupOpenSizeUnreadable, BackupOpenAs,
     BackupWriteDamaged, BackupFails, EraseFlashFails, FlashFirmwareDamaged,
     FlashFirmwareWriteFails, SetFirmwareSizeFails, ReadFails, PowerLoss, Programming
<1>3. CASE Environment
  BY <1>3 DEF Environment, PowerCycle, AppReset, RequestUpdate
<1>4. CASE UNCHANGED vars
  BY <1>4 DEF vars
<1>. QED
  BY <1>1, <1>2, <1>3, <1>4 DEF Next

\* As long as comparing the candidate with the flash does not fail itself, only
\* a candidate with an accepted signature gets past the check, whatever else
\* fails.
THEOREM OnlyValidatedIsFlashed ==
  ASSUME "hash" \notin Faults PROVE Spec => []OnlyValidatedFlashed
<1>1. Init => Validated
  BY DEF Init, Validated, UpdatePhases
<1>2. IInv /\ Validated /\ [Next]_vars => Validated'
  BY ValidatedStep
<1>3. Validated => OnlyValidatedFlashed
  BY DEF Validated, OnlyValidatedFlashed, UpdatePhases
<1>. QED
  BY InductiveInvariant, <1>1, <1>2, <1>3, PTL DEF Spec

=============================================================================
