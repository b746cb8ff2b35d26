---------------------------- MODULE MCAaSession -----------------------------
(* Small instances of AaSession: the media channel alone.                  *)
EXTENDS AaSession

MediaOnly == {4}
BothTransports == {"wired", "wireless"}
=============================================================================
