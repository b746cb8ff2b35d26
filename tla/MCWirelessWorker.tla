-------------------------- MODULE MCWirelessWorker --------------------------
(* Small instances of WirelessWorker.                                      *)
EXTENDS WirelessWorker

CONSTANTS wlan0, wlan1
=============================================================================
