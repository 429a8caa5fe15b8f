--------------------------- MODULE AtomicInstall ----------------------------
(***************************************************************************)
(* What a firmware update promises to the rest of the device: there is one *)
(* installed image, an update is pending or not, and a pending update is   *)
(* settled in one step.  A valid candidate becomes the installed image, an *)
(* invalid one leaves it alone.  There is no state in between.             *)
(***************************************************************************)
CONSTANTS
  Images,   \* all images
  Valid,    \* the images that can be installed
  Factory,  \* the image installed first
  None      \* no update is pending

VARIABLES
  image,    \* the image the device carries
  pending   \* the candidate of the pending update, or None

contract == <<image, pending>>

Init == image = Factory /\ pending = None

\* The application hands a candidate over.
Request(c) ==
  /\ pending = None
  /\ pending' = c
  /\ UNCHANGED image

\* The update is over.
Settle ==
  /\ pending # None
  /\ pending' = None
  /\ image' = IF pending \in Valid THEN pending ELSE image

Next == (\E c \in Images : Request(c)) \/ Settle

\* The contract without its progress part.
SafeSpec == Init /\ [][Next]_contract

\* A pending update does not stay pending.
Spec == SafeSpec /\ WF_contract(Settle)

=============================================================================
