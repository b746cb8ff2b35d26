--------------------------- MODULE MCMusicSource ----------------------------
(* Small instances of MusicSource: the media channel alone.                *)
EXTENDS MusicSource

MediaOnly == {4}
WiredOnly == {"wired"}
=============================================================================
