-------------------------------- MODULE Lease --------------------------------
(***************************************************************************)
(* What the Android framework and the application thread promise each      *)
(* other about a window or an input queue: the application uses it only    *)
(* while it is on loan, and a thing is called back only once the           *)
(* application has let go of it.                                           *)
(***************************************************************************)
CONSTANTS Things, NULL

VARIABLES
  lent,   \* what the framework has on loan, or NULL
  used    \* what the application uses, or NULL

leaseVars == <<lent, used>>

LeaseInit == lent = NULL /\ used = NULL

Lend == lent = NULL /\ lent' \in Things /\ UNCHANGED used
TakeUp == lent # NULL /\ used = NULL /\ used' = lent /\ UNCHANGED lent
LetGo == used # NULL /\ used' = NULL /\ UNCHANGED lent
CallBack == used = NULL /\ lent' = NULL /\ UNCHANGED used

LeaseNext == Lend \/ TakeUp \/ LetGo \/ CallBack

LeaseSpec == LeaseInit /\ [][LeaseNext]_leaseVars
=============================================================================
