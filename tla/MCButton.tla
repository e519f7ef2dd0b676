------------------------------ MODULE MCButton ------------------------------
(* Instances of Button for TLC.                                            *)
EXTENDS Button, TLC

CONSTANTS up, down

AllCallbacks == [b \in Buttons |-> Event]
FirmwareCallbacks == [b \in Buttons |-> {"CLICK", "HOLD"}]
ButtonSymmetry == Permutations(Buttons)
=============================================================================
