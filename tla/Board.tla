-------------------------------- MODULE Board --------------------------------
(***************************************************************************)
(* What every synchronous block of Top.v shares: the debounced reset.      *)
(* Bits are 0 and 1; active-low signals are active at 0.                   *)
(***************************************************************************)
EXTENDS Integers

VARIABLE Reset   \* Reset_Activated of the debouncer, active low

Bit == {0, 1}

(***************************************************************************)
(* Reset is a Main_CLK register: when it changes on an edge that also      *)
(* raises a clock derived from Main_CLK, a register of the derived domain  *)
(* may sample the level before or after the change.                        *)
(***************************************************************************)
ResetSeen == {Reset, Reset'}
=============================================================================
