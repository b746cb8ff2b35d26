---------------------------- MODULE MCUsbRuntime ----------------------------
(* Small instances of UsbRuntime.  The phones report no serial, so any     *)
(* accessory may answer any wait (the weakest correlation), or one serial  *)
(* each.                                                                   *)
EXTENDS UsbRuntime, TLC

CONSTANTS p1, p2

NoSerials == [p \in Phones |-> NoSerial]
PhoneSymmetry == Permutations(Phones)
OwnSerials == [p \in Phones |-> p]
=============================================================================
