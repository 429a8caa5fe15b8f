--------------------------- MODULE FirmwareUpdate ---------------------------
(***************************************************************************)
(* The bootloader of MISO (src/src/boot/app.zig, src/src/boot/firmware.zig *)
(* and the update objects of src/src/nvm.zig): after every reset it looks  *)
(* for an update request in NVM, checks the candidate image on the SD      *)
(* card, backs the running image up, erases and programs the flash,        *)
(* verifies it, and jumps to the application.                              *)
(*                                                                         *)
(* The data abstraction.  The application area of the flash is NPages      *)
(* blocks.  A block is the set of images whose bits were programmed into   *)
(* it since its last erase: {} is an erased block (all ones), {i} is the   *)
(* block of image i.  Programming flash only clears bits, so writing v     *)
(* over x leaves x \cup v, exactly as the bitwise AND does.  A file is a   *)
(* sequence of blocks, and two SHA-256 values agree iff the block          *)
(* sequences do.                                                           *)
(*                                                                         *)
(* Everything on the device that can go wrong is a fault action; a run     *)
(* selects the kinds it allows (Faults) and how many (MaxFaults).          *)
(***************************************************************************)
EXTENDS Naturals, Sequences, FiniteSets

CONSTANTS
  NPages,      \* blocks of the application area (chips.FLASH_APP_SIZE)
  SdPages,     \* blocks the SD card has room for in APP.BAK
  Images,      \* the images a device can meet
  Signed,      \* those bootutil_img_validate accepts
  Factory,     \* the image programmed at the factory
  SizeOf,      \* the length of every image, in blocks
  Candidates,  \* what the application may leave on the card as candidate
  NoFile,      \* the candidate file does not exist
  Faults,      \* the kinds of fault this instance allows
  MaxFaults    \* how many faults may happen

(***************************************************************************)
(* The kinds of fault: a power loss; an error of the SD card or of the     *)
(* heap while a file is used; the same while the candidate is compared     *)
(* with the flash in checkFirmwareImage; an MSC erase or write error; a    *)
(* block of the card, or of the flash, stored wrong without any error; an  *)
(* NVM3 error.                                                             *)
(***************************************************************************)
FaultKinds == {"power", "sd", "hash", "flash", "sd_damage", "flash_damage", "nvm"}

Pages == 1..NPages
Block == SUBSET Images

ASSUME ConstantsAssumption ==
  /\ NPages \in Nat \ {0}
  /\ SdPages \in Nat
  /\ Signed \subseteq Images
  /\ Factory \in Signed
  /\ SizeOf \in [Images -> Nat \ {0}]
  /\ SizeOf[Factory] <= NPages
  /\ NoFile \notin Images
  /\ Candidates \subseteq Images \cup {NoFile}
  /\ Faults \subseteq FaultKinds
  /\ MaxFaults \in Nat

VARIABLES
  flash,            \* the application area, a function on Pages
  cand,             \* the candidate file (config.fw_file_name)
  bakExists,        \* APP.BAK exists
  bak,              \* its content
  updateRequested,  \* NVM counter update_request is not 0
  fwSize,           \* NVM counter firmware_size
  pc,               \* update_phase, refined where a phase has several steps
  machine,          \* which call of firmwareUpdateStateMachine is running
  pos,              \* position of the erase, write and read loops
  backupLen,        \* length performFirmwareBackup works with
  appLen,           \* length the last flashFirmware returned
  faults,           \* faults so far
  prior,            \* history: the flash when this attempt began
  lastRun           \* history: the image that ran when the update was requested

persistent == <<flash, cand, bakExists, bak, updateRequested, fwSize>>
locals     == <<machine, pos, backupLen, appLen>>
history    == <<prior, lastRun>>
vars       == <<persistent, pc, locals, faults, history>>

Phases ==
  {"boot", "check", "backup", "backup_write", "backup_verify", "erase_flash",
   "flash", "verify_flash", "set_size", "erase_flash_before_restore",
   "restore_backup", "verify_backup", "clear", "app", "panic"}

-----------------------------------------------------------------------------
(* Files and slices of the flash *)

ImageFile(i) == [p \in 1..SizeOf[i] |-> {i}]

\* fw[0..n]
FwSlice(n) == [p \in 1..n |-> flash[p]]

\* A complete image lies at the start of the application area.
Holds(i) == /\ SizeOf[i] <= NPages
            /\ FwSlice(SizeOf[i]) = ImageFile(i)

\* The flash holds an image the device can run.
Bootable == \E i \in Signed : Holds(i)

\* Mutant of CandidateFits: the size is not checked.
CandidateOpens == cand # NoFile

\* checkFirmwareCandidateSize: the candidate can be opened and fits.
CandidateFits == cand # NoFile /\ SizeOf[cand] <= NPages

-----------------------------------------------------------------------------
Init ==
  /\ flash = [p \in Pages |-> IF p <= SizeOf[Factory] THEN {Factory} ELSE {}]
  /\ cand = NoFile
  /\ bakExists = FALSE
  /\ bak = <<>>
  /\ updateRequested = FALSE
  /\ fwSize = 0
  /\ pc = "boot"
  /\ machine = "none"
  /\ pos = 0
  /\ backupLen = 0
  /\ appLen = 0
  /\ faults = 0
  /\ prior = flash
  /\ lastRun = Factory

(***************************************************************************)
(* An error leaves firmwareUpdateStateMachine.  taskFunction answers an    *)
(* error of firmwareUpdate() with firmwareRestore(), a second call of the  *)
(* state machine that starts at restore_backup, and an error of that call  *)
(* with another round of its loop.                                         *)
(***************************************************************************)
Leave ==
  /\ pos' = 0 /\ backupLen' = 0 /\ appLen' = 0
  /\ \/ machine = "update" /\ machine' = "restore" /\ pc' = "restore_backup"
     \/ machine = "restore" /\ machine' = "none" /\ pc' = "boot"

Goto(phase) == pc' = phase /\ pos' = 0

Fault(kind) ==
  /\ kind \in Faults
  /\ faults < MaxFaults
  /\ faults' = faults + 1

-----------------------------------------------------------------------------
(* taskFunction: the loop on the update request *)

\* isUpdateRequested() is false: prepareJump().
JumpToApp ==
  /\ pc = "boot" /\ ~updateRequested
  /\ Goto("app")
  /\ UNCHANGED <<persistent, machine, backupLen, appLen, faults, history>>

\* Mutant of StartUpdate: the request is cleared before the update.
StartUpdateClearsFirst ==
  /\ pc = "boot" /\ updateRequested
  /\ Goto("check")
  /\ updateRequested' = FALSE
  /\ machine' = "update" /\ backupLen' = 0 /\ appLen' = 0
  /\ prior' = flash
  /\ UNCHANGED <<flash, cand, bakExists, bak, fwSize, faults, lastRun>>

\* The card is mounted and firmwareUpdate() starts.
StartUpdate ==
  /\ pc = "boot" /\ updateRequested
  /\ Goto("check")
  /\ machine' = "update" /\ backupLen' = 0 /\ appLen' = 0
  /\ prior' = flash
  /\ UNCHANGED <<persistent, faults, lastRun>>

\* readCounter fails (catch false), or the card does not mount (catch break).
SkipUpdate ==
  /\ pc = "boot"
  /\ Fault("nvm") \/ (updateRequested /\ Fault("sd"))
  /\ Goto("app")
  /\ UNCHANGED <<persistent, machine, backupLen, appLen, history>>

ClearUpdateRequest ==
  /\ pc = "clear"
  /\ updateRequested' = FALSE
  /\ Goto("boot")
  /\ machine' = "none" /\ backupLen' = 0 /\ appLen' = 0
  /\ UNCHANGED <<flash, cand, bakExists, bak, fwSize, faults, history>>

\* clearUpdateRequest() catch unreachable
ClearUpdateRequestFails ==
  /\ pc = "clear"
  /\ Fault("nvm")
  /\ Goto("panic")
  /\ UNCHANGED <<persistent, machine, backupLen, appLen, history>>

-----------------------------------------------------------------------------
(* check: checkFirmwareCandidate, checkFirmwareImage *)

\* The candidate is missing or too large.
CheckUnusable ==
  /\ pc = "check" /\ ~CandidateFits
  /\ Leave
  /\ UNCHANGED <<persistent, faults, history>>

\* Hashes agree: firmware_already_in_system.  The request is cleared.
CheckAlreadyInSystem ==
  /\ pc = "check" /\ CandidateFits /\ Holds(cand)
  /\ Goto("clear")
  /\ UNCHANGED <<persistent, machine, backupLen, appLen, faults, history>>

\* Mutant of CheckSignature: the verdict on the signature is ignored.
CheckSignatureIgnored ==
  /\ pc = "check" /\ CandidateFits /\ ~Holds(cand)
  /\ Goto("backup")
  /\ UNCHANGED <<persistent, machine, backupLen, appLen, faults, history>>

\* Mutant of CheckSignature: a refused candidate does not clear the request.
CheckSignatureKeepsRequest ==
  /\ pc = "check" /\ CandidateFits /\ ~Holds(cand)
  /\ \/ cand \in Signed /\ Goto("backup") /\ UNCHANGED machine
     \/ cand \notin Signed /\ Goto("boot") /\ machine' = "none"
  /\ UNCHANGED <<persistent, backupLen, appLen, faults, history>>

\* Hashes differ and the signature decides: firmware_candidate_not_valid
\* clears the request, a valid candidate goes to the backup.
CheckSignature ==
  /\ pc = "check" /\ CandidateFits /\ ~Holds(cand)
  /\ Goto(IF cand \in Signed THEN "backup" ELSE "clear")
  /\ UNCHANGED <<persistent, machine, backupLen, appLen, faults, history>>

\* The candidate cannot be opened.
CheckOpenFails ==
  /\ pc = "check" /\ CandidateFits
  /\ Fault("sd")
  /\ Leave
  /\ UNCHANGED <<persistent, history>>

\* verifyBackup fails with anything but hash_compare_mismatch: the else
\* branch of checkFirmwareImage returns normally.
CheckHashFails ==
  /\ pc = "check" /\ CandidateFits
  /\ Fault("hash")
  /\ Goto("backup")
  /\ UNCHANGED <<persistent, machine, backupLen, appLen, history>>

\* verifyFirmware: a failed allocation counts as an invalid candidate, a
\* failed open or read of the file is unreachable.
CheckSignatureFails ==
  /\ pc = "check" /\ CandidateFits /\ ~Holds(cand)
  /\ Fault("sd")
  /\ Goto("clear") \/ Goto("panic")
  /\ UNCHANGED <<persistent, machine, backupLen, appLen, history>>

-----------------------------------------------------------------------------
(* backup: performFirmwareBackup, backupFirmware, verifyBackup *)

\* Mutant of BackupOpenAs: off by one in the default length.
BackupOpenAsLonger(len) ==
  /\ pc = "backup"
  /\ backupLen' = (IF len # 0 THEN len ELSE NPages + 1)
  /\ bakExists' = TRUE /\ bak' = <<>>
  /\ Goto("backup_write")
  /\ UNCHANGED <<flash, cand, updateRequested, fwSize, machine, appLen, history>>

\* APP.BAK is truncated by create_always; firmware_size = 0, or an error
\* reading it, stands for the whole application area.
BackupOpenAs(len) ==
  /\ pc = "backup"
  /\ backupLen' = (IF len # 0 THEN len ELSE NPages)
  /\ bakExists' = TRUE /\ bak' = <<>>
  /\ Goto("backup_write")
  /\ UNCHANGED <<flash, cand, updateRequested, fwSize, machine, appLen, history>>

BackupOpen == BackupOpenAs(fwSize) /\ UNCHANGED faults

BackupOpenSizeUnreadable == BackupOpenAs(0) /\ Fault("nvm")

\* One round of the write loop.  A card without room writes nothing and
\* reports no error, and the loop tries again.
BackupWrite ==
  /\ pc = "backup_write" /\ Len(bak) < backupLen
  /\ bak' = IF Len(bak) < SdPages THEN Append(bak, flash[Len(bak) + 1]) ELSE bak
  /\ UNCHANGED <<flash, cand, bakExists, updateRequested, fwSize, pc, locals,
                 faults, history>>

\* A block reaches the card damaged, without an error.
BackupWriteDamaged ==
  /\ pc = "backup_write" /\ Len(bak) < backupLen /\ Len(bak) < SdPages
  /\ Fault("sd_damage")
  /\ \E v \in Block : bak' = Append(bak, v)
  /\ UNCHANGED <<flash, cand, bakExists, updateRequested, fwSize, pc, locals, history>>

BackupWritten ==
  /\ pc = "backup_write" /\ Len(bak) = backupLen
  /\ Goto("backup_verify")
  /\ UNCHANGED <<persistent, machine, backupLen, appLen, faults, history>>

\* Mutant of BackupVerify: the backup is not compared with the flash.
BackupVerifySkipped ==
  /\ pc = "backup_verify"
  /\ Goto("erase_flash")
  /\ UNCHANGED <<persistent, machine, backupLen, appLen, faults, history>>

BackupVerify ==
  /\ pc = "backup_verify"
  /\ \/ /\ bak = FwSlice(backupLen)
        /\ Goto("erase_flash")
        /\ UNCHANGED <<machine, backupLen, appLen>>
     \/ bak # FwSlice(backupLen) /\ Leave
  /\ UNCHANGED <<persistent, faults, history>>

\* The open fails before or after the file is truncated; a write, a sync or
\* the verification fails.
BackupFails ==
  /\ pc \in {"backup", "backup_write", "backup_verify"}
  /\ Fault("sd")
  /\ \/ UNCHANGED <<bakExists, bak>>
     \/ pc = "backup" /\ bakExists' = TRUE /\ bak' = <<>>
  /\ Leave
  /\ UNCHANGED <<flash, cand, updateRequested, fwSize, history>>

-----------------------------------------------------------------------------
(* erase_flash and erase_flash_before_restore: firmware.eraseFlash(null) *)

ErasePhases == {"erase_flash", "erase_flash_before_restore"}

EraseFlash ==
  /\ pc \in ErasePhases
  /\ flash' = [flash EXCEPT ![pos + 1] = {}]
  /\ IF pos + 1 < NPages
     THEN pos' = pos + 1 /\ UNCHANGED pc
     ELSE Goto(IF pc = "erase_flash" THEN "flash" ELSE "restore_backup")
  /\ UNCHANGED <<cand, bakExists, bak, updateRequested, fwSize, machine,
                 backupLen, appLen, faults, history>>

\* flash_erase_error; the page may or may not be erased.
EraseFlashFails ==
  /\ pc \in ErasePhases
  /\ Fault("flash")
  /\ flash' \in {flash, [flash EXCEPT ![pos + 1] = {}]}
  /\ Leave
  /\ UNCHANGED <<cand, bakExists, bak, updateRequested, fwSize, history>>

-----------------------------------------------------------------------------
(* flash and restore_backup: flashImage and restoreBackup around           *)
(* firmware.flashFirmware                                                  *)

\* The file flashFirmware reads in this phase.
Source == IF pc = "flash" THEN ImageFile(cand) ELSE bak

SourceUsable == IF pc = "flash" THEN CandidateFits
                                ELSE bakExists /\ Len(bak) <= NPages

ProgramPhases == {"flash", "restore_backup"}

Programming == pc \in ProgramPhases /\ SourceUsable /\ pos < Len(Source)

\* MSC_WriteWord clears bits of the block, it never sets one.
ProgramBlock(v) == flash' = [flash EXCEPT ![pos + 1] = @ \cup v]

FlashFirmware ==
  /\ Programming
  /\ ProgramBlock(Source[pos + 1])
  /\ pos' = pos + 1
  /\ UNCHANGED <<cand, bakExists, bak, updateRequested, fwSize, pc, machine,
                 backupLen, appLen, faults, history>>

\* Bits of the block are stored wrong, MSC_WriteWord reports success.
FlashFirmwareDamaged ==
  /\ Programming
  /\ Fault("flash_damage")
  /\ \E v \in Block : ProgramBlock(v)
  /\ pos' = pos + 1
  /\ UNCHANGED <<cand, bakExists, bak, updateRequested, fwSize, pc, machine,
                 backupLen, appLen, history>>

\* End of file: the length of the file is returned.
FlashFirmwareDone ==
  /\ pc \in ProgramPhases /\ SourceUsable /\ pos = Len(Source)
  /\ appLen' = Len(Source)
  /\ Goto(IF pc = "flash" THEN "verify_flash" ELSE "verify_backup")
  /\ UNCHANGED <<persistent, machine, backupLen, faults, history>>

\* flash_firmware_size_error sends flashImage to restore_backup; any error
\* of this kind, and a missing APP.BAK, makes restoreBackup return it.
FlashFirmwareRefused ==
  /\ pc \in ProgramPhases /\ ~SourceUsable
  /\ IF pc = "flash" THEN Goto("restore_backup") /\ appLen' = 0
                          /\ UNCHANGED <<machine, backupLen>>
                     ELSE Leave
  /\ UNCHANGED <<persistent, faults, history>>

\* flash_write_error: erase and start over; the block may or may not be
\* programmed.
FlashFirmwareWriteFails ==
  /\ Programming
  /\ Fault("flash")
  /\ UNCHANGED flash \/ ProgramBlock(Source[pos + 1])
  /\ appLen' = 0
  /\ Goto(IF pc = "flash" THEN "erase_flash" ELSE "erase_flash_before_restore")
  /\ UNCHANGED <<cand, bakExists, bak, updateRequested, fwSize, machine,
                 backupLen, history>>

-----------------------------------------------------------------------------
(* verify_flash and verify_backup: verifyImage and verifyBackup *)

\* Mutant of VerifyImage: the programmed image is not compared with the file.
VerifyImageSkipped ==
  /\ pc = "verify_flash"
  /\ Goto("set_size")
  /\ UNCHANGED <<persistent, machine, backupLen, appLen, faults, history>>

VerifyImage ==
  /\ pc = "verify_flash"
  /\ Goto(IF FwSlice(appLen) = ImageFile(cand) THEN "set_size" ELSE "erase_flash")
  /\ UNCHANGED <<persistent, machine, backupLen, appLen, faults, history>>

\* nvm.setFirmwareSize(app_len), phase complete, outcome success.
SetFirmwareSize ==
  /\ pc = "set_size"
  /\ fwSize' = appLen
  /\ Goto("clear")
  /\ UNCHANGED <<flash, cand, bakExists, bak, updateRequested, machine,
                 backupLen, appLen, faults, history>>

\* ... catch {}
SetFirmwareSizeFails ==
  /\ pc = "set_size"
  /\ Fault("nvm")
  /\ Goto("clear")
  /\ UNCHANGED <<persistent, machine, backupLen, appLen, history>>

\* Phase backup_restored, or another erase.
VerifyBackup ==
  /\ pc = "verify_backup"
  /\ Goto(IF FwSlice(appLen) = bak THEN "clear" ELSE "erase_flash_before_restore")
  /\ UNCHANGED <<persistent, machine, backupLen, appLen, faults, history>>

\* The SD card fails while the image or the backup is read or hashed.
ReadFails ==
  /\ pc \in ProgramPhases \cup {"verify_flash", "verify_backup"}
  /\ Fault("sd")
  /\ Leave
  /\ UNCHANGED <<persistent, history>>

-----------------------------------------------------------------------------
(* The environment *)

Restart ==
  /\ Goto("boot")
  /\ machine' = "none" /\ backupLen' = 0 /\ appLen' = 0

\* A power loss while the bootloader runs; NVM, flash and card keep their
\* content.
PowerLoss ==
  /\ pc \notin {"boot", "app", "panic"}
  /\ Fault("power")
  /\ Restart
  /\ UNCHANGED <<persistent, history>>

\* A panicked bootloader is switched off and on.
PowerCycle ==
  /\ pc = "panic"
  /\ Restart
  /\ UNCHANGED <<persistent, faults, history>>

\* The application is reset (system.reset, watchdog, user).
AppReset ==
  /\ pc = "app"
  /\ Restart
  /\ UNCHANGED <<persistent, faults, history>>

\* The running application has fetched a candidate, sets the update request
\* and resets.
RequestUpdate(c) ==
  /\ pc = "app"
  /\ \E i \in Signed : Holds(i) /\ lastRun' = i
  /\ cand' = c
  /\ updateRequested' = TRUE
  /\ Restart
  /\ UNCHANGED <<flash, bakExists, bak, fwSize, faults, prior>>

-----------------------------------------------------------------------------
Bootloader ==
  \/ JumpToApp \/ StartUpdate \/ ClearUpdateRequest
  \/ CheckUnusable \/ CheckAlreadyInSystem \/ CheckSignature
  \/ BackupOpen \/ BackupWrite \/ BackupWritten \/ BackupVerify
  \/ EraseFlash
  \/ FlashFirmware \/ FlashFirmwareDone \/ FlashFirmwareRefused
  \/ VerifyImage \/ SetFirmwareSize \/ VerifyBackup

Failure ==
  \/ SkipUpdate \/ ClearUpdateRequestFails
  \/ CheckOpenFails \/ CheckHashFails \/ CheckSignatureFails
  \/ BackupOpenSizeUnreadable \/ BackupWriteDamaged \/ BackupFails
  \/ EraseFlashFails
  \/ FlashFirmwareDamaged \/ FlashFirmwareWriteFails
  \/ SetFirmwareSizeFails \/ ReadFails
  \/ PowerLoss

Environment ==
  \/ PowerCycle
  \/ AppReset
  \/ \E c \in Candidates : RequestUpdate(c)

Next == Bootloader \/ Failure \/ Environment

\* The boot task is the only task of the bootloader: it runs whenever it can.
Fairness == WF_vars(Bootloader) /\ WF_vars(PowerCycle)

Spec == Init /\ [][Next]_vars /\ Fairness

-----------------------------------------------------------------------------
(* Properties *)

TypeOK ==
  /\ flash \in [Pages -> Block]
  /\ cand \in Images \cup {NoFile}
  /\ bakExists \in BOOLEAN
  /\ bak \in Seq(Block)
  /\ updateRequested \in BOOLEAN
  /\ fwSize \in 0..NPages
  /\ pc \in Phases
  /\ machine \in {"none", "update", "restore"}
  /\ pos \in 0..NPages
  /\ backupLen \in 0..NPages
  /\ appLen \in 0..NPages
  /\ faults \in 0..MaxFaults
  /\ prior \in [Pages -> Block]
  /\ lastRun \in Images

\* While an update attempt changes the flash, APP.BAK is a verified copy of
\* what the flash held when the attempt began, over the length recorded for
\* the running image: the erase of app.zig's state machine never starts
\* before backupFirmware and verifyBackup have succeeded in this very boot,
\* whatever fails and whatever an interrupted attempt left on the card.
BackupPreservesPrior ==
  machine = "update" /\ flash # prior =>
    /\ bakExists
    /\ bak = [p \in 1..backupLen |-> prior[p]]

\* The update request is cleared only when the flash is settled: untouched
\* since the attempt began, equal to the whole candidate, or equal to the
\* whole backup file.  Every path of taskFunction to clearUpdateRequest is
\* covered, with any fault before it.
ClearOnlyWhenSettled ==
  pc = "clear" =>
    \/ flash = prior
    \/ cand # NoFile /\ SizeOf[cand] <= NPages /\ FwSlice(SizeOf[cand]) = ImageFile(cand)
    \/ machine = "restore" /\ Len(bak) <= NPages /\ FwSlice(Len(bak)) = bak

\* flashImage calls its flash_firmware_size_error branch unreachable
\* (app.zig:168): no order of phases, failures and restarts reaches the flash
\* or the verify phase with a candidate that does not fit.
FlashPhaseFits ==
  pc \in {"flash", "verify_flash", "set_size"} =>
    cand # NoFile /\ SizeOf[cand] <= NPages

\* The bootloader never jumps to an application area without a complete
\* image: prepareJump checks nothing itself, so every way out of the loop of
\* taskFunction must leave one behind.  It does when power losses are all that
\* goes wrong and the candidate is one the application has verified
\* (user.zig:238); the README lists what breaks it.
JumpsToBootableImage == pc = "app" => Bootable

\* With any candidate and one error of any kind so far, the bootloader still
\* never jumps to an application area that is partly erased or partly
\* programmed: it holds a complete signed image, the whole of a candidate that
\* an error of the hash comparison let through, or the whole of an APP.BAK that
\* firmwareRestore programmed and compared.  That backup may itself be short or
\* damaged, for no path looks at what it restores.
JumpsToCompleteCopy ==
  pc = "app" /\ faults <= 1 =>
    \/ Bootable
    \/ CandidateFits /\ Holds(cand)
    \/ bakExists /\ bak # <<>> /\ Len(bak) <= NPages /\ FwSlice(Len(bak)) = bak

\* No phase after the check works with a candidate whose signature
\* bootutil_img_validate does not accept (firmware.zig, checkFirmwareImage):
\* not after a retry, a restart or a replaced candidate either.
OnlyValidatedFlashed ==
  pc \in {"backup_write", "backup_verify", "erase_flash", "flash",
          "verify_flash", "set_size"} => cand \in Signed

\* The loop of taskFunction reaches the jump, or a panic, once the errors
\* stop, as long as it has something to program: a candidate that fits or an
\* APP.BAK.  With neither, the request is kept and the loop never ends
\* (app.zig:247-276), nor does it while an error repeats.
BootTerminates ==
  (pc = "boot" /\ (~updateRequested \/ CandidateFits \/ bakExists))
    ~> (pc \in {"app", "panic"})

\* A requested, valid candidate is installed and running in the end, however
\* often power fails on the way.
UpdateSurvivesPowerLoss ==
  \A i \in Signed :
    (updateRequested /\ cand = i /\ SizeOf[i] <= NPages) ~> (pc = "app" /\ Holds(i))

-----------------------------------------------------------------------------
(* Power loss is invisible: the contract of AtomicInstall *)

HeldImage == CHOOSE i \in Signed : Holds(i)

\* The bootloader implements an installation that happens in one step, when
\* the request is cleared.  Until then the device counts as carrying the
\* image that ran last.
Contract == INSTANCE AtomicInstall WITH
  Valid   <- {i \in Signed : SizeOf[i] <= NPages},
  None    <- NoFile,
  image   <- IF updateRequested THEN lastRun ELSE HeldImage,
  pending <- IF updateRequested THEN cand ELSE NoFile

ImplementsContract == Contract!Spec

=============================================================================
