-------------------------- MODULE MCFirmwareUpdate --------------------------
(* Instances of FirmwareUpdate for TLC: two valid images of different length, *)
(* one that is not signed and one that is larger than the flash.              *)
EXTENDS FirmwareUpdate

CONSTANTS small, large, unsigned, oversize

MCImages == {small, large, unsigned, oversize}
MCSigned == {small, large, oversize}
MCSizeOf == [i \in MCImages |->
               CASE i = small -> 1 [] i = oversize -> NPages + 1 [] OTHER -> 2]

\* Every candidate file the bootloader may find, the missing one included.
AnyCandidate == MCImages \cup {NoFile}

\* Candidates the check can open and that fit.
FittingCandidates == {small, large, unsigned}

=============================================================================
